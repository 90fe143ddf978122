---------------------------- MODULE TableApiProofs ----------------------------
(***************************************************************************)
(* For every sequence of calls: a table filled through calls alone keeps   *)
(* its shape and holds what was set last, and storage loses nothing and    *)
(* notices every cut.  The last part is about the analysis of a table, the *)
(* module Ranges, whose table is self.                                     *)
(***************************************************************************)
EXTENDS TableApi, Ranges, ProgramProofs

------------------------------------------------------------------------------
(***************************************************************************)
(* Sequences.                                                              *)
(***************************************************************************)

\* Sequence q holds the first n pairs of s, one after the other.
Flat(q, s, n) ==
  /\ Len(q) = 2 * n
  /\ \A k \in 1 .. n : q[2 * k - 1] = s[k][1] /\ q[2 * k] = s[k][2]

\* A pair behind a sequence.
LEMMA PairBehind ==
  ASSUME NEW T, NEW q \in Seq(T), NEW x \in T \X T
  PROVE  /\ q \o x \in Seq(T) /\ Len(q \o x) = Len(q) + 2
         /\ \A i \in 1 .. Len(q) : (q \o x)[i] = q[i]
         /\ (q \o x)[Len(q) + 1] = x[1] /\ (q \o x)[Len(q) + 2] = x[2]
<1>1. x \in Seq(T) /\ Len(x) = 2
  BY PairIsSeq
<1>2. q \o x \in Seq(T) /\ Len(q \o x) = Len(q) + Len(x)
  BY <1>1, Concatenated, Zenon
<1>3. \A i \in 1 .. Len(q) : (q \o x)[i] = q[i]
  BY <1>1, Concatenated, Zenon
<1>4. \A i \in 1 .. Len(x) : (q \o x)[Len(q) + i] = x[i]
  BY <1>1, Concatenated
<1> QED BY <1>1, <1>2, <1>3, <1>4

\* One pair more.
LEMMA FlatExtended ==
  ASSUME NEW T, NEW s \in Seq(T \X T), NEW n \in 0 .. Len(s) - 1, NEW q \in Seq(T), Flat(q, s, n)
  PROVE  q \o s[n + 1] \in Seq(T) /\ Flat(q \o s[n + 1], s, n + 1)
<1> DEFINE x == s[n + 1]
           r == q \o x
<1>1. x \in T \X T /\ n \in Nat
  OBVIOUS
<1> HIDE DEF x
<1>2. /\ r \in Seq(T) /\ Len(r) = Len(q) + 2
      /\ \A i \in 1 .. Len(q) : r[i] = q[i]
      /\ r[Len(q) + 1] = x[1] /\ r[Len(q) + 2] = x[2]
  BY <1>1, PairBehind, Zenon
<1> HIDE DEF r
<1>3. Len(q) = 2 * n
  BY DEF Flat
<1>4. ASSUME NEW k \in 1 .. n + 1 PROVE r[2 * k - 1] = s[k][1] /\ r[2 * k] = s[k][2]
  <2>1. CASE k = n + 1
    <3>1. 2 * k - 1 = 2 * n + 1 /\ 2 * k = 2 * n + 2
      BY <1>1, <2>1
    <3> QED BY <1>2, <1>3, <2>1, <3>1 DEF x
  <2>2. CASE k \in 1 .. n
    <3>1. 2 * k - 1 \in 1 .. 2 * n /\ 2 * k \in 1 .. 2 * n
      BY <1>1, <2>2
    <3> QED BY <1>2, <1>3, <2>2, <3>1 DEF Flat
  <2> QED BY <1>1, <2>1, <2>2
<1>5. Len(r) = 2 * (n + 1)
  BY <1>1, <1>2, <1>3
<1> QED BY <1>2, <1>4, <1>5 DEF Flat, r, x

\* The pairs of a sequence, one after the other.
LEMMA FlattenPairs ==
  ASSUME NEW T, NEW s \in Seq(T \X T)
  PROVE  FlattenSeq(s) \in Seq(T) /\ Flat(FlattenSeq(s), s, Len(s))
<1>1. CASE Len(s) = 0
  <2>1. s = <<>> /\ FlattenSeq(s) = <<>>
    BY <1>1 DEF FlattenSeq
  <2>2. Len(<<>>) = 0 /\ 2 * 0 = 0 /\ \A k : ~ (k \in 1 .. 0)
    OBVIOUS
  <2>3. Flat(<<>>, s, 0) /\ <<>> \in Seq(T)
    BY <2>2 DEF Flat
  <2> QED BY <1>1, <2>1, <2>3
<1>2. CASE Len(s) # 0
  <2> DEFINE N == Len(s)
             Def(f) == [i \in 1 .. N |-> IF i = 1 THEN s[i] ELSE f[i - 1] \o s[i]]
             step == [y \in (0 .. (N - 1) - 1) \X Seq(T) |-> y[2] \o s[y[1] + 2]]
  <2>1. FlattenSeq(s) = (CHOOSE f : f = Def(f))[N]
    BY <1>2 DEF FlattenSeq
  <2>2. N \in Nat \ {0} /\ N - 1 \in Nat /\ \A i \in 1 .. N : s[i] \in T \X T
    BY <1>2
  <2> HIDE DEF N
  <2>3. \A i \in 1 .. N : s[i] \in Seq(T)
    BY <2>2, PairIsSeq
  <2>4. /\ step \in [(0 .. (N - 1) - 1) \X Seq(T) -> Seq(T)]
        /\ \A n \in 0 .. (N - 1) - 1, q \in Seq(T) : step[<<n, q>>] = q \o s[n + 2]
    <3>1. \A n \in 0 .. (N - 1) - 1, q \in Seq(T) : q \o s[n + 2] \in Seq(T)
      <4> TAKE n \in 0 .. (N - 1) - 1, q \in Seq(T)
      <4>1. n + 2 \in 1 .. N
        BY <2>2
      <4> QED BY <2>3, <4>1, Concatenated
    <3> QED BY <3>1
  <2> HIDE DEF step
  <2>5. PICK g : Recursive(g, N - 1, Seq(T), s[1], step)
    <3>1. s[1] \in Seq(T)
      BY <2>2, <2>3
    <3> QED BY <2>2, <2>4, <3>1, RecursionExists
  <2>6. /\ g[0] = s[1] /\ \A n \in 0 .. N - 1 : g[n] \in Seq(T)
        /\ \A n \in 0 .. (N - 1) - 1 : g[n + 1] = g[n] \o s[n + 2]
    <3>1. \A n \in 0 .. (N - 1) - 1 : n \in 0 .. N - 1
      BY <2>2
    <3>2. g[0] = s[1] /\ \A n \in 0 .. N - 1 : g[n] \in Seq(T)
      BY <2>5 DEF Recursive
    <3>3. \A n \in 0 .. (N - 1) - 1 : g[n + 1] = step[<<n, g[n]>>]
      BY <2>5 DEF Recursive
    <3> QED BY <2>4, <3>1, <3>2, <3>3
  <2> DEFINE h == [i \in 1 .. N |-> g[i - 1]]
  <2>7. h = Def(h)
    <3>1. ASSUME NEW i \in 1 .. N PROVE h[i] = IF i = 1 THEN s[i] ELSE h[i - 1] \o s[i]
      <4>1. CASE i = 1
        BY <2>6, <4>1
      <4>2. CASE i # 1
        <5>1. i - 2 \in 0 .. (N - 1) - 1 /\ (i - 2) + 1 = i - 1 /\ (i - 2) + 2 = i
              /\ i - 1 \in 1 .. N /\ (i - 1) - 1 = i - 2
          BY <2>2, <4>2
        <5> QED BY <2>6, <4>2, <5>1
      <4> QED BY <4>1, <4>2
    <3>2. h = [i \in 1 .. N |-> h[i]]
      OBVIOUS
    <3> HIDE DEF h
    <3> QED BY <3>1, <3>2
  <2> DEFINE f == CHOOSE f : f = Def(f)
  <2>8. f = Def(f)
    <3> HIDE DEF Def, h
    <3> QED BY <2>7
  <2> HIDE DEF f
  <2> DEFINE S == {n \in 0 .. N - 1 : f[n + 1] \in Seq(T) /\ Flat(f[n + 1], s, n + 1)}
  <2>9. 0 \in S
    <3>1. f[1] = s[1]
      BY <2>2, <2>8
    <3>2. s[1] \in Seq(T) /\ Len(s[1]) = 2
      BY <2>2, PairIsSeq
    <3>3. \A k \in 1 .. 1 : k = 1
      OBVIOUS
    <3>4. Flat(s[1], s, 1)
      BY <3>2, <3>3 DEF Flat
    <3> QED BY <2>2, <3>1, <3>2, <3>4
  <2>10. ASSUME NEW n \in 0 .. (N - 1) - 1, n \in S PROVE n + 1 \in S
    <3>1. n + 1 \in 0 .. N - 1 /\ n + 2 \in 1 .. N /\ (n + 2) - 1 = n + 1 /\ (n + 1) + 1 = n + 2 /\ n + 2 # 1
      BY <2>2
    <3>2. f[n + 2] = f[n + 1] \o s[n + 2]
      BY <2>8, <3>1
    <3>3. f[n + 1] \o s[n + 2] \in Seq(T) /\ Flat(f[n + 1] \o s[n + 2], s, n + 2)
      BY <2>10, <3>1, FlatExtended DEF N
    <3> QED BY <3>1, <3>2, <3>3
  <2>11. N - 1 \in S
    <3> HIDE DEF S
    <3>1. \A n \in 0 .. N - 1 : n \in S
      BY <2>2, <2>9, <2>10, InductionUpTo
    <3> QED BY <2>2, <3>1
  <2>12. (N - 1) + 1 = N
    BY <2>2
  <2> QED BY <2>1, <2>11, <2>12 DEF f, N
<1> QED BY <1>1, <1>2

------------------------------------------------------------------------------
(***************************************************************************)
(* Storage.                                                                *)
(***************************************************************************)

\* An index before the last of two parts, or in it.
LEMMA Behind ==
  ASSUME NEW a \in Seq(Word), NEW b \in Seq(Word), NEW m, m = Len(a)
  PROVE  /\ a \o b \in Seq(Word) /\ Len(a \o b) = m + Len(b)
         /\ \A i \in 1 .. m : (a \o b)[i] = a[i]
         /\ \A i \in 1 .. Len(b) : (a \o b)[m + i] = b[i]
BY Concatenated

\* The words that lie where from_bytes looks for them.
LEMMA Layout ==
  ASSUME NEW t \in ProgramType, t.states \in Word
  PROVE  LET data == ToBytes(t)
             nt == Len(t.trans)
             na == Len(t.accepts)
             nl == Len(t.lens)
         IN  /\ nt \in Nat /\ na \in Nat /\ nl \in Nat
             /\ data \in Seq(Word) /\ Len(data) = 4 + nt + 2 * na + nl
             /\ data[1] = t.states /\ data[2] = t.classes % U32
             /\ \A i \in 1 .. nt : data[2 + i] = t.trans[i]
             /\ data[3 + nt] = na % U32
             /\ \A i \in 1 .. na : /\ data[2 + nt + 2 * i] = t.accepts[i][1]
                                   /\ data[3 + nt + 2 * i] = t.accepts[i][2]
             /\ data[4 + nt + 2 * na] = nl % U32
             /\ \A i \in 1 .. nl : data[4 + nt + 2 * na + i] = t.lens[i]
<1> DEFINE nt == Len(t.trans)
           na == Len(t.accepts)
           nl == Len(t.lens)
           head == <<t.states, t.classes % U32>>
           flat == FlattenSeq(t.accepts)
           w1 == head \o t.trans
           w2 == w1 \o <<na % U32>>
           w3 == w2 \o flat
           w4 == w3 \o <<nl % U32>>
           w5 == w4 \o t.lens
<1>1. /\ t.classes \in Nat /\ t.trans \in Seq(Word) /\ t.accepts \in Seq(Word \X Word)
      /\ t.lens \in Seq(Word) /\ nt \in Nat /\ na \in Nat /\ nl \in Nat
  BY DEF ProgramType
<1>2. ToBytes(t) = w5
  BY DEF ToBytes
<1>3. \A k \in Nat : k % U32 \in Word
  BY Bit31Assumption DEF U32, Word
<1>4. /\ head \in Seq(Word) /\ Len(head) = 2
      /\ head[1] = t.states /\ head[2] = t.classes % U32
  BY <1>1, <1>3
<1>5. flat \in Seq(Word) /\ Flat(flat, t.accepts, na)
  BY <1>1, FlattenPairs
<1>6. \A k \in Word : <<k>> \in Seq(Word) /\ Len(<<k>>) = 1 /\ <<k>>[1] = k
  OBVIOUS
<1>7. Len(flat) = 2 * na
  BY <1>5 DEF Flat
<1> HIDE DEF nt, na, nl, head, flat
<1>8. /\ w1 \in Seq(Word) /\ Len(w1) = 2 + nt
      /\ \A i \in 1 .. 2 : w1[i] = head[i]
      /\ \A i \in 1 .. nt : w1[2 + i] = t.trans[i]
  <2> DEFINE m == 2
  <2>1. m = Len(head)
    BY <1>4
  <2> HIDE DEF m
  <2>2. /\ w1 \in Seq(Word) /\ Len(w1) = m + Len(t.trans)
        /\ \A i \in 1 .. m : w1[i] = head[i]
        /\ \A i \in 1 .. Len(t.trans) : w1[m + i] = t.trans[i]
    <3>1. head \in Seq(Word) /\ t.trans \in Seq(Word)
      BY <1>1, <1>4
    <3> QED BY <2>1, <3>1, Behind
  <2> QED BY <2>2 DEF m, nt
<1> HIDE DEF w1
<1>9. /\ w2 \in Seq(Word) /\ Len(w2) = 3 + nt
      /\ \A i \in 1 .. 2 + nt : w2[i] = w1[i]
      /\ w2[3 + nt] = na % U32
  <2> DEFINE k == na % U32
             m == 2 + nt
  <2>1. <<k>> \in Seq(Word) /\ Len(<<k>>) = 1 /\ <<k>>[1] = k
    BY <1>1, <1>3, <1>6
  <2>2. m \in Nat /\ m + 1 = 3 + nt /\ m = Len(w1)
    BY <1>1, <1>8
  <2> HIDE DEF k, m
  <2>3. /\ w1 \o <<k>> \in Seq(Word) /\ Len(w1 \o <<k>>) = m + Len(<<k>>)
        /\ \A i \in 1 .. m : (w1 \o <<k>>)[i] = w1[i]
        /\ \A i \in 1 .. Len(<<k>>) : (w1 \o <<k>>)[m + i] = <<k>>[i]
    BY <1>8, <2>1, <2>2, Behind
  <2> QED BY <2>1, <2>2, <2>3 DEF k, m
<1> HIDE DEF w2
<1>10. /\ w3 \in Seq(Word) /\ Len(w3) = 3 + nt + 2 * na
       /\ \A i \in 1 .. 3 + nt : w3[i] = w2[i]
       /\ \A i \in 1 .. 2 * na : w3[3 + nt + i] = flat[i]
  <2> DEFINE m == 3 + nt
  <2>1. m \in Nat /\ m = Len(w2)
    BY <1>1, <1>9
  <2> HIDE DEF m
  <2>2. /\ w3 \in Seq(Word) /\ Len(w3) = m + Len(flat)
        /\ \A i \in 1 .. m : w3[i] = w2[i]
        /\ \A i \in 1 .. Len(flat) : w3[m + i] = flat[i]
    <3>1. w2 \in Seq(Word) /\ flat \in Seq(Word)
      BY <1>5, <1>9
    <3> QED BY <2>1, <3>1, Behind
  <2> QED BY <1>7, <2>2 DEF m
<1> HIDE DEF w3
<1>11. /\ w4 \in Seq(Word) /\ Len(w4) = 4 + nt + 2 * na
       /\ \A i \in 1 .. 3 + nt + 2 * na : w4[i] = w3[i]
       /\ w4[4 + nt + 2 * na] = nl % U32
  <2> DEFINE k == nl % U32
             m == 3 + nt + 2 * na
  <2>1. <<k>> \in Seq(Word) /\ Len(<<k>>) = 1 /\ <<k>>[1] = k
    BY <1>1, <1>3, <1>6
  <2>2. m \in Nat /\ m + 1 = 4 + nt + 2 * na /\ m = Len(w3)
    BY <1>1, <1>10
  <2> HIDE DEF k, m
  <2>3. /\ w3 \o <<k>> \in Seq(Word) /\ Len(w3 \o <<k>>) = m + Len(<<k>>)
        /\ \A i \in 1 .. m : (w3 \o <<k>>)[i] = w3[i]
        /\ \A i \in 1 .. Len(<<k>>) : (w3 \o <<k>>)[m + i] = <<k>>[i]
    BY <1>10, <2>1, <2>2, Behind
  <2> QED BY <2>1, <2>2, <2>3 DEF k, m
<1> HIDE DEF w4
<1>12. /\ w5 \in Seq(Word) /\ Len(w5) = 4 + nt + 2 * na + nl
       /\ \A i \in 1 .. 4 + nt + 2 * na : w5[i] = w4[i]
       /\ \A i \in 1 .. nl : w5[4 + nt + 2 * na + i] = t.lens[i]
  <2> DEFINE m == 4 + nt + 2 * na
  <2>1. m \in Nat /\ m = Len(w4)
    BY <1>1, <1>11
  <2> HIDE DEF m
  <2>2. /\ w5 \in Seq(Word) /\ Len(w5) = m + Len(t.lens)
        /\ \A i \in 1 .. m : w5[i] = w4[i]
        /\ \A i \in 1 .. Len(t.lens) : w5[m + i] = t.lens[i]
    <3>1. w4 \in Seq(Word) /\ t.lens \in Seq(Word)
      BY <1>1, <1>11
    <3> QED BY <2>1, <3>1, Behind
  <2> QED BY <2>2 DEF m, nl
<1> HIDE DEF w5
<1>13. w5[1] = t.states /\ w5[2] = t.classes % U32
  <2>1. \A i \in 1 .. 2 : i \in 1 .. 2 + nt /\ i \in 1 .. 3 + nt /\ i \in 1 .. 3 + nt + 2 * na /\ i \in 1 .. 4 + nt + 2 * na
    BY <1>1
  <2> QED BY <1>4, <1>8, <1>9, <1>10, <1>11, <1>12, <2>1
<1>14. ASSUME NEW i \in 1 .. nt PROVE w5[2 + i] = t.trans[i]
  <2>1. /\ 2 + i \in 1 .. 2 + nt /\ 2 + i \in 1 .. 3 + nt /\ 2 + i \in 1 .. 3 + nt + 2 * na
        /\ 2 + i \in 1 .. 4 + nt + 2 * na
    BY <1>1
  <2> QED BY <1>8, <1>9, <1>10, <1>11, <1>12, <2>1
<1>15. w5[3 + nt] = na % U32
  <2>1. 3 + nt \in 1 .. 3 + nt /\ 3 + nt \in 1 .. 3 + nt + 2 * na /\ 3 + nt \in 1 .. 4 + nt + 2 * na
    BY <1>1
  <2> QED BY <1>9, <1>10, <1>11, <1>12, <2>1
<1>16. ASSUME NEW i \in 1 .. na
       PROVE  w5[2 + nt + 2 * i] = t.accepts[i][1] /\ w5[3 + nt + 2 * i] = t.accepts[i][2]
  <2>1. \A j \in 1 .. 2 * na : w5[3 + nt + j] = flat[j]
    <3> TAKE j \in 1 .. 2 * na
    <3>1. 3 + nt + j \in 1 .. 3 + nt + 2 * na /\ 3 + nt + j \in 1 .. 4 + nt + 2 * na
      BY <1>1
    <3> QED BY <1>10, <1>11, <1>12, <3>1
  <2>2. /\ 2 * i - 1 \in 1 .. 2 * na /\ 2 * i \in 1 .. 2 * na
        /\ 3 + nt + (2 * i - 1) = 2 + nt + 2 * i
    BY <1>1
  <2> QED BY <1>5, <2>1, <2>2 DEF Flat
<1>17. w5[4 + nt + 2 * na] = nl % U32
  <2>1. 4 + nt + 2 * na \in 1 .. 4 + nt + 2 * na
    BY <1>1
  <2> QED BY <1>11, <1>12, <2>1
<1> QED BY <1>1, <1>2, <1>12, <1>13, <1>14, <1>15, <1>16, <1>17 DEF nt, na, nl

\* The parts from_bytes reads.
Loaded(data) ==
  Table(data[1], data[2], SubSeq(data, 3, AcceptsAt(data) - 1),
        [i \in 1 .. data[AcceptsAt(data)] |->
           <<data[AcceptsAt(data) + 2 * i - 1], data[AcceptsAt(data) + 2 * i]>>],
        SubSeq(data, LensAt(data) + 1, EndAt(data)))

\* The checks of from_bytes keep every index it computes inside the data.
LEMMA CompleteBounds ==
  ASSUME NEW data \in Seq(Word), Complete(data)
  PROVE  /\ Len(data) \in Nat /\ data[1] \in Nat /\ data[2] \in Nat
         /\ AcceptsAt(data) \in 3 .. Len(data) /\ AcceptsAt(data) = 3 + data[1] * data[2]
         /\ data[AcceptsAt(data)] \in Nat
         /\ LensAt(data) \in Nat /\ LensAt(data) <= Len(data)
         /\ LensAt(data) = AcceptsAt(data) + 1 + 2 * data[AcceptsAt(data)]
         /\ data[LensAt(data)] \in Nat
         /\ EndAt(data) \in Nat /\ EndAt(data) <= Len(data)
         /\ EndAt(data) = LensAt(data) + data[LensAt(data)]
<1>0. \A w \in Word : w \in Nat
  BY DEF Word
<1>1. /\ Len(data) \in Nat /\ \A i \in 1 .. Len(data) : data[i] \in Word
      /\ Len(data) >= 2 /\ Len(data) >= AcceptsAt(data) /\ Len(data) >= LensAt(data)
      /\ Len(data) >= EndAt(data)
  BY DEF Complete
<1>2. data[1] \in Nat /\ data[2] \in Nat
  <2>1. 1 \in 1 .. Len(data) /\ 2 \in 1 .. Len(data)
    BY <1>1
  <2> QED BY <1>0, <1>1, <2>1
<1>3. AcceptsAt(data) \in 3 .. Len(data) /\ AcceptsAt(data) = 3 + data[1] * data[2]
  <2>1. data[1] * data[2] \in Nat
    BY <1>2
  <2> QED BY <1>1, <2>1 DEF AcceptsAt
<1>4. data[AcceptsAt(data)] \in Nat
  <2>1. AcceptsAt(data) \in 1 .. Len(data)
    BY <1>1, <1>3
  <2> QED BY <1>0, <1>1, <2>1
<1>5. LensAt(data) \in Nat /\ LensAt(data) = AcceptsAt(data) + 1 + 2 * data[AcceptsAt(data)] /\ LensAt(data) >= 1
  BY <1>1, <1>3, <1>4 DEF LensAt
<1>6. data[LensAt(data)] \in Nat
  <2>1. LensAt(data) \in 1 .. Len(data)
    BY <1>1, <1>5
  <2> QED BY <1>0, <1>1, <2>1
<1>7. EndAt(data) \in Nat /\ EndAt(data) = LensAt(data) + data[LensAt(data)]
  BY <1>5, <1>6 DEF EndAt
<1> QED BY <1>1, <1>2, <1>3, <1>4, <1>5, <1>6, <1>7

\* What from_bytes reads are the parts of a table.
LEMMA LoadedType ==
  ASSUME NEW data \in Seq(Word), Complete(data)
  PROVE  /\ Loaded(data) \in ProgramType /\ Loaded(data).links = <<>>
         /\ Loaded(data).states = data[1] /\ Loaded(data).classes = data[2]
<1> DEFINE A == AcceptsAt(data)
           L == LensAt(data)
           E == EndAt(data)
           pairs == [i \in 1 .. data[A] |-> <<data[A + 2 * i - 1], data[A + 2 * i]>>]
<1>1. /\ Len(data) \in Nat /\ data[1] \in Nat /\ data[2] \in Nat
      /\ A \in 3 .. Len(data) /\ data[A] \in Nat /\ L \in Nat /\ L <= Len(data)
      /\ L = A + 1 + 2 * data[A] /\ data[L] \in Nat /\ E \in Nat /\ E <= Len(data)
      /\ E = L + data[L]
  BY CompleteBounds
<1> HIDE DEF A, L, E
<1>2. \A i \in 1 .. Len(data) : data[i] \in Word
  OBVIOUS
<1>3. SubSeq(data, 3, A - 1) \in Seq(Word) /\ SubSeq(data, L + 1, E) \in Seq(Word)
  <2>1. ASSUME NEW m \in Nat, NEW n \in Nat, m >= 1, n <= Len(data)
        PROVE  SubSeq(data, m, n) \in Seq(Word)
    BY <2>1
  <2>2. 3 \in Nat /\ 3 >= 1 /\ A - 1 \in Nat /\ A - 1 <= Len(data)
    BY <1>1
  <2>3. L + 1 \in Nat /\ L + 1 >= 1 /\ E \in Nat /\ E <= Len(data)
    <3>1. L \in Nat /\ E \in Nat /\ E <= Len(data)
      BY <1>1, Zenon
    <3> HIDE DEF L, E
    <3> QED BY <3>1
  <2>4. SubSeq(data, 3, A - 1) \in Seq(Word)
    BY <2>1, <2>2
  <2> QED BY <2>1, <2>3, <2>4
<1>4. pairs \in Seq(Word \X Word)
  <2>1. ASSUME NEW i \in 1 .. data[A]
        PROVE  <<data[A + 2 * i - 1], data[A + 2 * i]>> \in Word \X Word
    <3>1. A + 2 * i - 1 \in 1 .. Len(data) /\ A + 2 * i \in 1 .. Len(data)
      BY <1>1
    <3> QED BY <1>2, <3>1
  <2>2. pairs \in [1 .. data[A] -> Word \X Word]
    BY <2>1
  <2> HIDE DEF pairs
  <2> QED BY <1>1, <2>2, FunctionIsSeq
<1> HIDE DEF pairs
<1>5. Loaded(data) = Table(data[1], data[2], SubSeq(data, 3, A - 1), pairs, SubSeq(data, L + 1, E))
  BY DEF Loaded, A, L, E, pairs
<1> DEFINE trans == SubSeq(data, 3, A - 1)
           lens  == SubSeq(data, L + 1, E)
<1>6. trans \in Seq(Word) /\ lens \in Seq(Word) /\ <<>> \in Seq(Word)
  BY <1>3
<1>7. Loaded(data) = [states |-> data[1], classes |-> data[2], trans |-> trans,
                      accepts |-> pairs, lens |-> lens, links |-> <<>>]
  BY <1>5 DEF Table
<1> HIDE DEF trans, lens
<1> QED BY <1>1, <1>4, <1>6, <1>7 DEF ProgramType

\* from_bytes rejects incomplete data and hands the rest to from_parts.
LEMMA FromBytesIs ==
  ASSUME NEW data
  PROVE  FromBytes(data) = IF Complete(data) THEN FromParts(Loaded(data)) ELSE Error("InvalidTable")
BY DEF FromBytes, Loaded

\* A table is not an error.
LEMMA Results ==
  /\ \A t \in ProgramType : IsTable(t)
  /\ \A kind : ~ IsTable(Error(kind))
<1>1. ASSUME NEW t \in ProgramType PROVE IsTable(t)
  <2>1. DOMAIN t = {"states", "classes", "trans", "accepts", "lens", "links"}
    BY DEF ProgramType
  <2> QED BY <2>1 DEF IsTable
<1>2. ASSUME NEW kind PROVE ~ IsTable(Error(kind))
  <2>1. DOMAIN Error(kind) = {"error"}
    BY DEF Error
  <2> QED BY <2>1 DEF IsTable
<1> QED BY <1>1, <1>2

\* What is stored is complete, ends with the data, and is read back.
LEMMA StoredIsLoaded ==
  ASSUME NEW t \in ProgramType, t.links = <<>>, t.states \in Word, Rectangular(t), CountsFit(t)
  PROVE  LET data == ToBytes(t)
         IN  data \in Seq(Word) /\ Complete(data) /\ EndAt(data) = Len(data) /\ Loaded(data) = t
<1> DEFINE data == ToBytes(t)
           nt == Len(t.trans)
           na == Len(t.accepts)
           nl == Len(t.lens)
<1>1. /\ nt \in Nat /\ na \in Nat /\ nl \in Nat
      /\ data \in Seq(Word) /\ Len(data) = 4 + nt + 2 * na + nl
      /\ data[1] = t.states /\ data[2] = t.classes % U32
      /\ \A i \in 1 .. nt : data[2 + i] = t.trans[i]
      /\ data[3 + nt] = na % U32
      /\ \A i \in 1 .. na : data[2 + nt + 2 * i] = t.accepts[i][1] /\ data[3 + nt + 2 * i] = t.accepts[i][2]
      /\ data[4 + nt + 2 * na] = nl % U32
      /\ \A i \in 1 .. nl : data[4 + nt + 2 * na + i] = t.lens[i]
  BY Layout
<1>2. t.classes \in Nat /\ t.states \in Nat /\ nt = t.states * t.classes
  BY DEF ProgramType, Rectangular
<1>3. t.classes % U32 = t.classes /\ na % U32 = na /\ nl % U32 = nl
  <2>1. \A k \in Nat : k < U32 => k % U32 = k
    BY Bit31Assumption DEF U32
  <2> QED BY <1>1, <1>2, <2>1 DEF CountsFit
<1>4. t.trans \in Seq(Word) /\ t.accepts \in Seq(Word \X Word) /\ t.lens \in Seq(Word)
  BY DEF ProgramType
<1> HIDE DEF data, nt, na, nl
<1>5. AcceptsAt(data) = 3 + nt
  BY <1>1, <1>2, <1>3 DEF AcceptsAt
<1>6. LensAt(data) = 4 + nt + 2 * na
  <2>1. data[3 + nt] = na
    BY <1>1, <1>3
  <2>2. LensAt(data) = (3 + nt) + 1 + 2 * na
    BY <1>5, <2>1 DEF LensAt
  <2> QED BY <1>1, <2>2
<1>7. EndAt(data) = Len(data)
  <2>1. data[4 + nt + 2 * na] = nl
    BY <1>1, <1>3
  <2> QED BY <1>1, <1>6, <2>1 DEF EndAt
<1>8. Complete(data)
  <2>1. Len(data) >= 2 /\ Len(data) >= 3 + nt /\ Len(data) >= 4 + nt + 2 * na
    BY <1>1
  <2> QED BY <1>1, <1>5, <1>6, <1>7, <2>1 DEF Complete
<1>9. SubSeq(data, 3, AcceptsAt(data) - 1) = t.trans
  <2> DEFINE q == SubSeq(data, 3, 2 + nt)
  <2>1. AcceptsAt(data) - 1 = 2 + nt
    BY <1>1, <1>5
  <2>2. q \in Seq(Word) /\ Len(q) = nt /\ \A i \in 1 .. nt : q[i] = data[2 + i]
    BY <1>1
  <2> HIDE DEF q
  <2>3. q = t.trans
    <3>1. \A i \in 1 .. nt : q[i] = t.trans[i]
      BY <1>1, <2>2
    <3> QED BY <1>4, <2>2, <3>1, SameSeq DEF nt
  <2> QED BY <2>1, <2>3 DEF q
<1>10. SubSeq(data, LensAt(data) + 1, EndAt(data)) = t.lens
  <2> DEFINE m == 4 + nt + 2 * na
             q == SubSeq(data, m + 1, m + nl)
  <2>1. LensAt(data) + 1 = m + 1 /\ EndAt(data) = m + nl /\ m \in Nat /\ Len(data) = m + nl
    BY <1>1, <1>6, <1>7
  <2>2. \A i \in 1 .. nl : data[m + i] = t.lens[i]
    BY <1>1
  <2> HIDE DEF m
  <2>3. q \in Seq(Word) /\ Len(q) = nl /\ \A i \in 1 .. nl : q[i] = data[m + i]
    BY <1>1, <2>1
  <2> HIDE DEF q
  <2>4. q = t.lens
    <3>1. \A i \in 1 .. nl : q[i] = t.lens[i]
      BY <2>2, <2>3
    <3> QED BY <1>4, <2>3, <3>1, SameSeq DEF nl
  <2> QED BY <2>1, <2>4 DEF q
<1>11. [i \in 1 .. data[AcceptsAt(data)] |->
          <<data[AcceptsAt(data) + 2 * i - 1], data[AcceptsAt(data) + 2 * i]>>] = t.accepts
  <2>1. data[AcceptsAt(data)] = na
    BY <1>1, <1>3, <1>5
  <2>2. ASSUME NEW i \in 1 .. na
        PROVE  <<data[AcceptsAt(data) + 2 * i - 1], data[AcceptsAt(data) + 2 * i]>> = t.accepts[i]
    <3>1. AcceptsAt(data) + 2 * i - 1 = 2 + nt + 2 * i /\ AcceptsAt(data) + 2 * i = 3 + nt + 2 * i
      BY <1>1, <1>5
    <3>2. t.accepts[i] = <<t.accepts[i][1], t.accepts[i][2]>>
      <4>1. t.accepts[i] \in Word \X Word
        BY <1>4 DEF na
      <4> QED BY <4>1
    <3> QED BY <1>1, <3>1, <3>2
  <2>3. t.accepts = [i \in 1 .. na |-> t.accepts[i]]
    BY <1>4, SeqIsFunction DEF na
  <2> QED BY <2>1, <2>2, <2>3
<1>12. Loaded(data) = t
  <2>1. Loaded(data) = Table(t.states, t.classes, t.trans, t.accepts, t.lens)
    BY <1>1, <1>3, <1>9, <1>10, <1>11 DEF Loaded
  <2>2. t = [states |-> t.states, classes |-> t.classes, trans |-> t.trans,
             accepts |-> t.accepts, lens |-> t.lens, links |-> t.links]
    BY DEF ProgramType
  <2> QED BY <2>1, <2>2 DEF Table
<1> QED BY <1>1, <1>7, <1>8, <1>12 DEF data

------------------------------------------------------------------------------
(***************************************************************************)
(* The invariant.                                                          *)
(***************************************************************************)

\* The limits of a constructor, which no call and no accessor lifts.
Limited(t) ==
  /\ t \in ProgramType /\ t.links = <<>>
  /\ t.states <= MaxStates /\ t.states * t.classes <= MaxTransitions

\* What the calls keep and the accessors may break.
Shaped(t) ==
  Rectangular(t) /\ \A i \in DOMAIN t.accepts : t.accepts[i][2] < Len(t.lens)

\* The content is what the caller set.
AsSet(t) ==
  /\ t.classes = ByteCount => CellsOf(t) = cells
  /\ LengthsOf(t) = lengths

IInv ==
  IsTable(table) => Limited(table) /\ (~raw => Shaped(table) /\ AsSet(table))

\* A constructor returns an error or a table within its limits.
LEMMA NewIsLimited ==
  ASSUME NEW states \in Nat, NEW classes \in Nat
  PROVE  IsTable(New(states, classes)) => Limited(New(states, classes)) /\ Shaped(New(states, classes))
<1> DEFINE n == states * classes
           zeros == [i \in 1 .. n |-> 0]
           t == Table(states, classes, zeros, <<>>, <<>>)
<1> SUFFICES ASSUME IsTable(New(states, classes))
             PROVE  Limited(New(states, classes)) /\ Shaped(New(states, classes))
  OBVIOUS
<1>1. New(states, classes) = t /\ states <= MaxStates /\ n <= MaxTransitions
  BY Results, LimitsAssumption DEF New
<1>2. n \in Nat /\ 0 \in Word
  BY Bit31Assumption DEF Word, U32
<1>3. zeros \in Seq(Word) /\ Len(zeros) = n
  <2>1. zeros \in [1 .. n -> Word]
    BY <1>2
  <2> HIDE DEF zeros, n
  <2> QED BY <1>2, <2>1, FunctionIsSeq
<1>4. t = [states |-> states, classes |-> classes, trans |-> zeros,
           accepts |-> <<>>, lens |-> <<>>, links |-> <<>>]
  BY DEF Table
<1>5. states \in Nat /\ classes \in Nat
  OBVIOUS
<1>6. <<>> \in Seq(Word) /\ <<>> \in Seq(Word \X Word) /\ DOMAIN <<>> = {}
  OBVIOUS
<1> HIDE DEF zeros
<1>7. t \in ProgramType /\ t.links = <<>> /\ t.states = states /\ t.classes = classes
      /\ t.trans = zeros /\ t.accepts = <<>>
  <2>1. t \in ProgramType
    <3> HIDE DEF t
    <3> QED BY <1>3, <1>4, <1>6, <1>5 DEF ProgramType
  <2> QED BY <1>4, <2>1
<1> HIDE DEF t
<1>8. Limited(t)
  BY <1>1, <1>7 DEF Limited
<1>9. Shaped(t)
  BY <1>3, <1>6, <1>7 DEF Shaped, Rectangular
<1> QED BY <1>1, <1>8, <1>9

\* from_parts returns an error or the parts, checked.
LEMMA FromPartsIs ==
  ASSUME NEW p \in ProgramType, IsTable(FromParts(p))
  PROVE  FromParts(p) = p /\ p.states <= MaxStates /\ ValidParts(p)
<1>1. ~ (p.states > MaxStates) /\ ValidParts(p) /\ FromParts(p) = p
  BY Results DEF FromParts
<1>2. p.states \in Nat
  BY DEF ProgramType
<1> QED BY <1>1, <1>2, LimitsAssumption

\* The index of a cell is in the table, and no two cells share one.
LEMMA CellsApart ==
  ASSUME NEW n \in Nat, NEW c \in Nat, NEW s \in Nat, NEW b \in 0 .. c - 1
  PROVE  /\ s * c + b + 1 \in Nat \ {0}
         /\ s < n <=> s * c + b + 1 <= n * c
         /\ \A x \in Nat, y \in 0 .. c - 1 : x * c + y + 1 = s * c + b + 1 => x = s /\ y = b
<1>1. c \in Nat \ {0}
  OBVIOUS
<1>2. \A i, j \in Nat : i < j => i * c + c <= j * c
  <2> SUFFICES ASSUME NEW i \in Nat, NEW j \in Nat, i < j PROVE i * c + c <= j * c
    OBVIOUS
  <2> DEFINE k == j - (i + 1)
  <2>1. k \in Nat /\ j = (i + 1) + k
    OBVIOUS
  <2>2. ((i + 1) + k) * c = i * c + c + k * c
    BY <2>1
  <2>3. k * c \in Nat /\ i * c \in Nat
    BY <2>1
  <2> HIDE DEF k
  <2> QED BY <2>1, <2>2, <2>3
<1>3. \A i \in Nat : i * c \in Nat
  OBVIOUS
<1>4. s * c + b + 1 \in Nat \ {0}
  BY <1>3
<1>5. s < n <=> s * c + b + 1 <= n * c
  <2>1. CASE s < n
    <3>1. s * c + c <= n * c
      BY <1>2, <2>1
    <3> QED BY <1>1, <1>3, <2>1, <3>1
  <2>2. CASE ~ (s < n)
    <3>1. s * c >= n * c
      <4>1. CASE s = n
        BY <1>3, <4>1
      <4>2. CASE n < s
        <5>1. n * c + c <= s * c
          BY <1>2, <4>2
        <5> QED BY <1>1, <1>3, <5>1
      <4> QED BY <2>2, <4>1, <4>2
    <3> QED BY <1>1, <1>3, <2>2, <3>1
  <2> QED BY <2>1, <2>2
<1>6. ASSUME NEW x \in Nat, NEW y \in 0 .. c - 1, x * c + y + 1 = s * c + b + 1
      PROVE  x = s /\ y = b
  <2>1. ~ (x < s)
    <3> SUFFICES ASSUME x < s PROVE FALSE
      OBVIOUS
    <3>1. x * c + c <= s * c
      BY <1>2
    <3> QED BY <1>1, <1>3, <1>6, <3>1
  <2>2. ~ (s < x)
    <3> SUFFICES ASSUME s < x PROVE FALSE
      OBVIOUS
    <3>1. s * c + c <= x * c
      BY <1>2
    <3> QED BY <1>1, <1>3, <1>6, <3>1
  <2>3. x = s
    BY <2>1, <2>2
  <2> QED BY <1>1, <1>3, <1>6, <2>3
<1> QED BY <1>4, <1>5, <1>6

\* A table of lengths padded with zeros is as long as asked for and holds the
\* same lengths.
LEMMA PaddedIs ==
  ASSUME NEW lens \in Seq(Word), NEW n \in Nat
  PROVE  /\ Padded(lens, n) \in Seq(Word)
         /\ Len(Padded(lens, n)) = IF n > Len(lens) THEN n ELSE Len(lens)
         /\ \A i \in 1 .. Len(Padded(lens, n)) :
              Padded(lens, n)[i] = IF i <= Len(lens) THEN lens[i] ELSE 0
<1> DEFINE m == IF n > Len(lens) THEN n ELSE Len(lens)
           q == [i \in 1 .. m |-> IF i <= Len(lens) THEN lens[i] ELSE 0]
<1>1. m \in Nat /\ 0 \in Word
  BY Bit31Assumption DEF Word, U32
<1>2. Padded(lens, n) = q
  BY DEF Padded
<1>3. q \in [1 .. m -> Word] /\ \A i \in 1 .. m : q[i] = IF i <= Len(lens) THEN lens[i] ELSE 0
  BY <1>1
<1> HIDE DEF q
<1>4. q \in Seq(Word) /\ Len(q) = m
  <2> HIDE DEF m
  <2> QED BY <1>1, <1>3, FunctionIsSeq
<1> QED BY <1>2, <1>3, <1>4

\* set_transition.
LEMMA SetTransitionKeeps ==
  ASSUME IInv, NEW s \in 0 .. MaxStates, NEW b \in Byte, NEW target \in Targets,
         SetTransition(s, b, target)
  PROVE  IInv'
<1> DEFINE idx == s * table.classes + b + 1
<1> SUFFICES ASSUME IsTable(table) PROVE Limited(table)' /\ (~raw' => (Shaped(table) /\ AsSet(table))')
  BY DEF IInv, SetTransition
<1>1. /\ Limited(table) /\ (~raw => Shaped(table) /\ AsSet(table)) /\ raw' = raw /\ lengths' = lengths
      /\ table' = IF idx <= Len(table.trans) THEN [table EXCEPT !.trans[idx] = target] ELSE table
      /\ cells' = IF ~raw /\ s < table.states /\ b < table.classes
                  THEN [cells EXCEPT ![s][b] = target] ELSE cells
  BY DEF IInv, SetTransition
<1>2. /\ table \in ProgramType /\ table.states \in Nat /\ table.classes \in Nat
      /\ table.trans \in Seq(Word) /\ s \in Nat /\ b \in Nat /\ target \in Word
      /\ table.lens \in Seq(Word) /\ Len(table.trans) \in Nat
  BY <1>1, LimitsAssumption, TargetsAssumption, ByteCountAssumption DEF Limited, ProgramType, Byte
<1>3. idx \in Nat \ {0}
  BY <1>2
<1>4. CASE idx <= Len(table.trans)
  <2> DEFINE trans == [table.trans EXCEPT ![idx] = target]
  <2>1. idx \in 1 .. Len(table.trans)
    BY <1>2, <1>3, <1>4
  <2>2. trans \in Seq(Word) /\ Len(trans) = Len(table.trans)
    BY <1>2, <2>1
  <2>3. \A i \in 1 .. Len(table.trans) : trans[i] = IF i = idx THEN target ELSE table.trans[i]
    BY <1>2, <2>1
  <2>4. table' = [table EXCEPT !.trans = trans]
    BY <1>1, <1>4
  <2> HIDE DEF trans, idx
  <2>5. /\ table' \in ProgramType /\ table'.states = table.states /\ table'.classes = table.classes
        /\ table'.trans = trans /\ table'.accepts = table.accepts /\ table'.lens = table.lens
        /\ table'.links = table.links
    BY <1>2, <2>2, <2>4 DEF ProgramType
  <2>6. Limited(table)'
    BY <1>1, <2>5 DEF Limited
  <2>7. ~raw => Shaped(table)'
    BY <1>1, <2>2, <2>5 DEF Shaped, Rectangular
  <2>8. LengthsOf(table)' = LengthsOf(table)
    BY <2>5 DEF LengthsOf
  <2>9. ASSUME ~raw, table.classes = ByteCount PROVE CellsOf(table)' = cells'
    <3>1. b \in 0 .. table.classes - 1 /\ Len(table.trans) = table.states * table.classes
      BY <1>1, <1>2, <2>9 DEF Byte, Shaped, Rectangular
    <3>2. /\ s < table.states
          /\ \A x \in Nat, y \in 0 .. table.classes - 1 :
               x * table.classes + y + 1 = idx => x = s /\ y = b
      <4>1. /\ s < table.states <=> idx <= table.states * table.classes
            /\ \A x \in Nat, y \in 0 .. table.classes - 1 :
                 x * table.classes + y + 1 = idx => x = s /\ y = b
        <5>1. s < table.states <=> idx <= table.states * table.classes
          BY <1>2, <3>1, CellsApart DEF idx
        <5>2. \A x \in Nat, y \in 0 .. table.classes - 1 :
                x * table.classes + y + 1 = idx => x = s /\ y = b
          <6> SUFFICES ASSUME NEW x \in Nat, NEW y \in 0 .. table.classes - 1,
                              x * table.classes + y + 1 = s * table.classes + b + 1
                       PROVE  x = s /\ y = b
            BY DEF idx
          <6> DEFINE c == table.classes
          <6>1. c \in Nat /\ s \in Nat /\ b \in 0 .. c - 1 /\ x \in Nat /\ y \in 0 .. c - 1
                /\ x * c + y + 1 = s * c + b + 1
            BY <1>2, <3>1
          <6> HIDE DEF c
          <6> QED BY <6>1, CellsApart
        <5> QED BY <5>1, <5>2
      <4> QED BY <1>4, <3>1, <4>1
    <3>3. cells = CellsOf(table) /\ cells' = [cells EXCEPT ![s][b] = target]
      BY <1>1, <1>2, <2>9, <3>1, <3>2 DEF AsSet
    <3>4. s \in State(table)
      BY <1>2, <3>2 DEF State
    <3>5. ASSUME NEW x \in State(table), NEW y \in 0 .. table.classes - 1
          PROVE  Cell(table, x, y)' = IF x = s /\ y = b THEN target ELSE Cell(table, x, y)
      <4> DEFINE i == x * table.classes + y + 1
      <4>1. x \in Nat /\ x < table.states
        BY <1>2 DEF State
      <4>2. i \in Nat \ {0} /\ i <= table.states * table.classes
        BY <1>2, <4>1, CellsApart
      <4>3. i \in 1 .. Len(table.trans)
        BY <1>2, <3>1, <4>2
      <4>4. Cell(table, x, y)' = trans[i] /\ Cell(table, x, y) = table.trans[i]
        BY <2>5 DEF Cell
      <4>5. i = idx <=> x = s /\ y = b
        BY <3>2, <4>1 DEF idx
      <4> QED BY <2>3, <4>3, <4>4, <4>5
    <3>6. CellsOf(table)' = [x \in State(table) |-> [y \in 0 .. table.classes - 1 |-> Cell(table, x, y)']]
      BY <2>5 DEF CellsOf, State, Cell
    <3>7. CellsOf(table) = [x \in State(table) |-> [y \in 0 .. table.classes - 1 |-> Cell(table, x, y)]]
      BY DEF CellsOf
    <3> DEFINE S == State(table)
               Y == 0 .. table.classes - 1
               C == CellsOf(table)
    <3>8. [C EXCEPT ![s][b] = target]
            = [x \in S |-> IF x = s THEN [C[s] EXCEPT ![b] = target] ELSE C[x]]
      BY <3>4, <3>7
    <3>9. ASSUME NEW x \in S
          PROVE  (IF x = s THEN [C[s] EXCEPT ![b] = target] ELSE C[x])
                   = [y \in Y |-> Cell(table, x, y)']
      <4>1. C[x] = [y \in Y |-> Cell(table, x, y)] /\ C[s] = [y \in Y |-> Cell(table, s, y)]
        BY <3>4, <3>7
      <4>2. CASE x = s
        <5>1. [C[s] EXCEPT ![b] = target] = [y \in Y |-> IF y = b THEN target ELSE Cell(table, s, y)]
          BY <3>1, <4>1
        <5> QED BY <3>5, <4>2, <5>1
      <4>3. CASE x # s
        BY <3>5, <4>1, <4>3
      <4> QED BY <4>2, <4>3
    <3> QED BY <3>3, <3>6, <3>8, <3>9
  <2> QED BY <1>1, <2>5, <2>6, <2>7, <2>8, <2>9 DEF AsSet
<1>5. CASE ~ (idx <= Len(table.trans))
  <2>1. table' = table
    BY <1>1, <1>5
  <2>2. ASSUME ~raw, table.classes = ByteCount PROVE cells' = cells
    <3>1. b \in 0 .. table.classes - 1 /\ Len(table.trans) = table.states * table.classes
      BY <1>1, <1>2, <2>2 DEF Byte, Shaped, Rectangular
    <3>2. ~ (s < table.states)
      <4>1. s < table.states <=> idx <= table.states * table.classes
        BY <1>2, <3>1, CellsApart
      <4> HIDE DEF idx
      <4> QED BY <1>5, <3>1, <4>1
    <3> QED BY <1>1, <3>2
  <2> HIDE DEF idx
  <2> QED BY <1>1, <2>1, <2>2 DEF Limited, Shaped, Rectangular, AsSet, CellsOf, LengthsOf, State,
             Cell
<1> QED BY <1>4, <1>5

\* The length of each pattern is in the word after those of the patterns before.
LEMMA LengthAt ==
  ASSUME NEW t, NEW pid \in Word
  PROVE  LengthsOf(t)[pid] = IF pid < Len(t.lens) THEN t.lens[pid + 1] ELSE 0
BY DEF LengthsOf

\* Padding changes no length.
LEMMA PaddingKeepsLengths ==
  ASSUME NEW t, NEW u, t.lens \in Seq(Word), NEW n \in Nat, u.lens = Padded(t.lens, n)
  PROVE  LengthsOf(u) = LengthsOf(t)
<1>1. /\ Len(u.lens) = IF n > Len(t.lens) THEN n ELSE Len(t.lens)
      /\ \A i \in 1 .. Len(u.lens) : u.lens[i] = IF i <= Len(t.lens) THEN t.lens[i] ELSE 0
      /\ Len(t.lens) \in Nat
  BY PaddedIs
<1>2. ASSUME NEW pid \in Word
      PROVE  (IF pid < Len(u.lens) THEN u.lens[pid + 1] ELSE 0)
               = (IF pid < Len(t.lens) THEN t.lens[pid + 1] ELSE 0)
  <2>1. pid \in Nat
    BY DEF Word
  <2>2. pid < Len(u.lens) => pid + 1 \in 1 .. Len(u.lens)
    BY <1>1, <2>1
  <2> QED BY <1>1, <2>1, <2>2
<1> QED BY <1>2 DEF LengthsOf

\* add_accept.
LEMMA AddAcceptKeeps ==
  ASSUME IInv, NEW s \in 0 .. MaxStates, NEW pid \in Pids, AddAccept(s, pid)
  PROVE  IInv'
<1> DEFINE accepts == Append(table.accepts, <<s, pid>>)
           lens == Padded(table.lens, pid + 1)
<1>1. /\ IsTable(table) /\ Limited(table) /\ (~raw => Shaped(table) /\ AsSet(table))
      /\ raw' = raw /\ lengths' = lengths /\ cells' = cells
      /\ table' = [table EXCEPT !.accepts = accepts, !.lens = lens]
  BY DEF IInv, AddAccept
<1>2. /\ table \in ProgramType /\ table.accepts \in Seq(Word \X Word) /\ table.lens \in Seq(Word)
      /\ pid \in Word /\ pid \in Nat /\ s \in Word /\ Len(table.lens) \in Nat
  <2>1. pid \in Word /\ pid \in Nat
    BY TargetsAssumption DEF Word
  <2>2. s \in Word
    BY LimitsAssumption, Bit31Assumption DEF Word, U32
  <2>3. table \in ProgramType /\ table.accepts \in Seq(Word \X Word) /\ table.lens \in Seq(Word)
    BY <1>1 DEF Limited, ProgramType
  <2>4. Len(table.lens) \in Nat
    BY <2>3
  <2> QED BY <2>1, <2>2, <2>3, <2>4
<1>3. /\ lens \in Seq(Word) /\ Len(lens) \in Nat /\ pid < Len(lens) /\ Len(table.lens) <= Len(lens)
  BY <1>2, PaddedIs
<1>4. /\ accepts \in Seq(Word \X Word) /\ DOMAIN accepts = 1 .. Len(table.accepts) + 1
      /\ accepts[Len(table.accepts) + 1] = <<s, pid>>
      /\ \A i \in 1 .. Len(table.accepts) : accepts[i] = table.accepts[i]
      /\ DOMAIN table.accepts = 1 .. Len(table.accepts) /\ Len(table.accepts) \in Nat
  <2>1. <<s, pid>> \in Word \X Word
    BY <1>2
  <2>2. \A x \in Word \X Word :
          /\ Append(table.accepts, x) \in Seq(Word \X Word)
          /\ Len(Append(table.accepts, x)) = Len(table.accepts) + 1
          /\ Append(table.accepts, x)[Len(table.accepts) + 1] = x
          /\ \A i \in 1 .. Len(table.accepts) : Append(table.accepts, x)[i] = table.accepts[i]
    BY <1>2
  <2> QED BY <1>2, <2>1, <2>2
<1> HIDE DEF accepts, lens
<1>5. /\ table' \in ProgramType /\ table'.states = table.states /\ table'.classes = table.classes
      /\ table'.trans = table.trans /\ table'.accepts = accepts /\ table'.lens = lens
      /\ table'.links = table.links
  BY <1>1, <1>2, <1>3, <1>4 DEF ProgramType
<1>6. Limited(table)'
  BY <1>1, <1>5 DEF Limited
<1>7. ASSUME ~raw PROVE Shaped(table)'
  <2>1. ASSUME NEW i \in DOMAIN accepts PROVE accepts[i][2] < Len(lens)
    <3>1. CASE i = Len(table.accepts) + 1
      BY <1>3, <1>4, <3>1
    <3>2. CASE i \in DOMAIN table.accepts
      <4>1. accepts[i] = table.accepts[i] /\ table.accepts[i][2] < Len(table.lens)
        BY <1>1, <1>4, <1>7, <3>2 DEF Shaped
      <4>2. table.accepts[i][2] \in Nat
        BY <1>2, <3>2 DEF Word
      <4> QED BY <1>2, <1>3, <4>1, <4>2
    <3> QED BY <1>4, <2>1, <3>1, <3>2
  <2> QED BY <1>1, <1>5, <1>7, <2>1 DEF Shaped, Rectangular
<1>8. ASSUME ~raw PROVE AsSet(table)'
  <2>1. LengthsOf(table') = LengthsOf(table)
    BY <1>2, <1>5, PaddingKeepsLengths DEF lens
  <2>2. CellsOf(table') = CellsOf(table)
    BY <1>5 DEF CellsOf, State, Cell
  <2> QED BY <1>1, <1>5, <1>8, <2>1, <2>2 DEF AsSet
<1> QED BY <1>1, <1>6, <1>7, <1>8 DEF IInv

\* set_pattern_length.
LEMMA SetPatternLengthKeeps ==
  ASSUME IInv, NEW pid \in Pids, NEW length \in Lengths, SetPatternLength(pid, length)
  PROVE  IInv'
<1> DEFINE padded == Padded(table.lens, pid + 1)
           lens == [padded EXCEPT ![pid + 1] = length]
<1>1. /\ IsTable(table) /\ Limited(table) /\ (~raw => Shaped(table) /\ AsSet(table))
      /\ raw' = raw /\ cells' = cells
      /\ lengths' = IF raw THEN lengths ELSE [lengths EXCEPT ![pid] = length]
      /\ table' = [table EXCEPT !.lens = lens]
  BY DEF IInv, SetPatternLength
<1>2. /\ table \in ProgramType /\ table.accepts \in Seq(Word \X Word) /\ table.lens \in Seq(Word)
      /\ pid \in Word /\ pid \in Nat /\ length \in Word /\ Len(table.lens) \in Nat
  BY <1>1, TargetsAssumption DEF Limited, ProgramType, Word
<1>3. /\ padded \in Seq(Word) /\ Len(padded) \in Nat /\ pid < Len(padded)
      /\ Len(table.lens) <= Len(padded)
  BY <1>2, PaddedIs
<1> HIDE DEF padded
<1>4. /\ lens \in Seq(Word) /\ Len(lens) = Len(padded)
      /\ \A i \in 1 .. Len(padded) : lens[i] = IF i = pid + 1 THEN length ELSE padded[i]
  <2>1. pid + 1 \in 1 .. Len(padded)
    BY <1>2, <1>3
  <2> QED BY <1>2, <1>3, <2>1
<1> HIDE DEF lens
<1>5. /\ table' \in ProgramType /\ table'.states = table.states /\ table'.classes = table.classes
      /\ table'.trans = table.trans /\ table'.accepts = table.accepts /\ table'.lens = lens
      /\ table'.links = table.links
  BY <1>1, <1>2, <1>4 DEF ProgramType
<1>6. Limited(table)'
  BY <1>1, <1>5 DEF Limited
<1>7. ASSUME ~raw PROVE Shaped(table)'
  <2>1. ASSUME NEW i \in DOMAIN table.accepts PROVE table.accepts[i][2] < Len(lens)
    <3>1. table.accepts[i][2] < Len(table.lens)
      BY <1>1, <1>7 DEF Shaped
    <3>2. table.accepts[i][2] \in Nat
      BY <1>2 DEF Word
    <3> QED BY <1>2, <1>3, <1>4, <3>1, <3>2
  <2> QED BY <1>1, <1>5, <1>7, <2>1 DEF Shaped, Rectangular
<1>8. ASSUME ~raw PROVE AsSet(table)'
  <2> DEFINE mid == [table EXCEPT !.lens = padded]
  <2>1. mid.lens = padded
    BY <1>2 DEF ProgramType
  <2> HIDE DEF mid
  <2>2. LengthsOf(mid) = LengthsOf(table)
    <3>1. pid + 1 \in Nat /\ mid.lens = Padded(table.lens, pid + 1)
      BY <1>2, <2>1 DEF padded
    <3> QED BY <1>2, <3>1, PaddingKeepsLengths
  <2>3. ASSUME NEW k \in Word
        PROVE  LengthsOf(table')[k] = IF k = pid THEN length ELSE LengthsOf(mid)[k]
    <3>1. k \in Nat
      BY DEF Word
    <3>2. LengthsOf(table')[k] = IF k < Len(lens) THEN lens[k + 1] ELSE 0
      BY <1>5, LengthAt
    <3>3. LengthsOf(mid)[k] = IF k < Len(padded) THEN padded[k + 1] ELSE 0
      BY <2>1, LengthAt
    <3>4. k < Len(padded) => k + 1 \in 1 .. Len(padded)
      BY <1>3, <3>1
    <3>5. k + 1 = pid + 1 <=> k = pid
      BY <1>2, <3>1
    <3> QED BY <1>3, <1>4, <3>2, <3>3, <3>4, <3>5
  <2>4. LengthsOf(table') = [k \in Word |-> LengthsOf(table')[k]]
        /\ lengths = [k \in Word |-> LengthsOf(mid)[k]]
    BY <1>1, <1>8, <2>2 DEF LengthsOf, AsSet
  <2>5. lengths' = LengthsOf(table')
    <3>1. lengths' = [lengths EXCEPT ![pid] = length]
      BY <1>1, <1>8
    <3> QED BY <1>2, <2>3, <2>4, <3>1
  <2>6. CellsOf(table') = CellsOf(table)
    BY <1>5 DEF CellsOf, State, Cell
  <2> QED BY <1>1, <1>5, <1>8, <2>5, <2>6 DEF AsSet
<1> QED BY <1>1, <1>6, <1>7, <1>8 DEF IInv

\* An accessor, which the limits survive.
LEMMA MutateKeeps ==
  ASSUME IInv, Mutate
  PROVE  IInv'
<1>1. /\ Limited(table) /\ raw' = TRUE
      /\ table \in ProgramType /\ table.trans \in Seq(Word)
      /\ table.accepts \in Seq(Word \X Word) /\ table.lens \in Seq(Word)
  BY DEF IInv, Mutate, Limited, ProgramType
<1>2. ASSUME NEW T, NEW a \in Seq(T), a # <<>>
      PROVE  Front(a) \in Seq(T)
  <2>1. Len(a) - 1 \in Nat /\ Len(a) - 1 <= Len(a)
    BY <1>2
  <2> QED BY <2>1 DEF Front
<1>3. ASSUME NEW w \in Targets, table' = [table EXCEPT !.trans = Append(@, w)]
      PROVE  Limited(table)'
  <2> DEFINE trans == Append(table.trans, w)
  <2>1. w \in Word
    BY TargetsAssumption
  <2>2. trans \in Seq(Word)
    BY <1>1, <2>1
  <2>3. table' = [table EXCEPT !.trans = trans]
    BY <1>3
  <2> HIDE DEF trans
  <2> QED BY <1>1, <2>2, <2>3 DEF Limited, ProgramType
<1>4. ASSUME table.trans # <<>>, table' = [table EXCEPT !.trans = Front(@)]
      PROVE  Limited(table)'
  <2>1. Front(table.trans) \in Seq(Word)
    BY <1>1, <1>2, <1>4
  <2> QED BY <1>1, <1>4, <2>1 DEF Limited, ProgramType
<1>5. ASSUME table.accepts # <<>>, table' = [table EXCEPT !.accepts = Front(@)]
      PROVE  Limited(table)'
  <2>1. Front(table.accepts) \in Seq(Word \X Word)
    BY <1>1, <1>2, <1>5
  <2> QED BY <1>1, <1>5, <2>1 DEF Limited, ProgramType
<1>6. ASSUME table.lens # <<>>, table' = [table EXCEPT !.lens = Front(@)]
      PROVE  Limited(table)'
  <2>1. Front(table.lens) \in Seq(Word)
    BY <1>1, <1>2, <1>6
  <2> QED BY <1>1, <1>6, <2>1 DEF Limited, ProgramType
<1> QED BY <1>1, <1>3, <1>4, <1>5, <1>6 DEF IInv, Mutate

\* A table within the limits has words for its number of states.
LEMMA StatesAreWord ==
  ASSUME NEW t, Limited(t)
  PROVE  t \in ProgramType /\ t.links = <<>> /\ t.states \in Word
BY LimitsAssumption, Bit31Assumption DEF Limited, ProgramType, Word, U32

\* from_bytes returns an error or a table within the limits, even when what is
\* stored has a count cut to 32 bits or vectors that do not fit together.
LEMMA ReloadIsLimited ==
  ASSUME NEW t, Limited(t), IsTable(FromBytes(ToBytes(t)))
  PROVE  Limited(FromBytes(ToBytes(t))) /\ Shaped(FromBytes(ToBytes(t)))
<1> DEFINE data == ToBytes(t)
           p == Loaded(data)
<1>1. t \in ProgramType /\ t.states \in Word /\ t.states \in Nat /\ t.classes \in Nat
      /\ t.states * t.classes <= MaxTransitions
  BY StatesAreWord DEF Limited, ProgramType
<1>2. data \in Seq(Word) /\ data[1] = t.states /\ data[2] = t.classes % U32
  BY <1>1, Layout
<1> HIDE DEF data
<1>3. Complete(data) /\ FromBytes(data) = FromParts(p)
  <2>1. IsTable(FromBytes(data))
    BY DEF data
  <2> QED BY <2>1, FromBytesIs, Results
<1>4. p \in ProgramType /\ p.links = <<>> /\ p.states = data[1] /\ p.classes = data[2]
  BY <1>2, <1>3, LoadedType
<1> HIDE DEF p
<1>5. FromParts(p) = p /\ p.states <= MaxStates /\ ValidParts(p)
  <2>1. IsTable(FromParts(p))
    BY <1>3 DEF data
  <2> QED BY <1>4, <2>1, FromPartsIs
<1>6. p.states * p.classes <= MaxTransitions
  <2> DEFINE c == t.classes % U32
  <2>1. c \in Nat /\ c <= t.classes
    BY <1>1, Bit31Assumption DEF U32
  <2>2. p.states = t.states /\ p.classes = c
    BY <1>2, <1>4
  <2> HIDE DEF c
  <2>3. \A a, x, y \in Nat : x <= y => a * x <= a * y
    <3> SUFFICES ASSUME NEW a \in Nat, NEW x \in Nat, NEW y \in Nat, x <= y PROVE a * x <= a * y
      OBVIOUS
    <3> DEFINE k == y - x
    <3>1. k \in Nat /\ y = x + k
      OBVIOUS
    <3>2. a * (x + k) = a * x + a * k /\ a * k \in Nat /\ a * x \in Nat
      BY <3>1
    <3> HIDE DEF k
    <3> QED BY <3>1, <3>2
  <2>4. t.states * c <= t.states * t.classes
    BY <1>1, <2>1, <2>3
  <2>5. t.states * c \in Nat /\ t.states * t.classes \in Nat
    BY <1>1, <2>1
  <2> QED BY <1>1, <2>2, <2>4, <2>5, LimitsAssumption
<1>7. Limited(p)
  BY <1>4, <1>5, <1>6 DEF Limited
<1>8. Shaped(p)
  BY <1>5 DEF Shaped, Rectangular, ValidParts
<1> QED BY <1>3, <1>5, <1>7, <1>8 DEF data

\* from_bytes of to_bytes.
LEMMA ReloadKeeps ==
  ASSUME IInv, Reload
  PROVE  IInv'
<1> DEFINE t == FromBytes(ToBytes(table))
<1>1. /\ Limited(table) /\ table' = t
      /\ cells' = IF IsTable(t) THEN CellsOf(t) ELSE <<>>
      /\ lengths' = IF IsTable(t) THEN LengthsOf(t) ELSE <<>>
  BY DEF IInv, Reload, Construct
<1>2. IsTable(t) => Limited(t) /\ Shaped(t)
  BY <1>1, ReloadIsLimited
<1> HIDE DEF t
<1>3. IsTable(t) => CellsOf(table') = cells' /\ LengthsOf(table') = lengths'
  BY <1>1
<1> QED BY <1>1, <1>2, <1>3 DEF IInv, AsSet

\* new.
LEMMA InitIInv == Init => IInv
<1> SUFFICES ASSUME NEW shape \in Shapes, table = New(shape[1], shape[2]),
                    cells = (IF IsTable(table) THEN CellsOf(table) ELSE <<>>),
                    lengths = (IF IsTable(table) THEN LengthsOf(table) ELSE <<>>)
             PROVE  IInv
  BY DEF Init
<1>1. shape[1] \in Nat /\ shape[2] \in Nat
  BY ShapesAssumption
<1>2. IsTable(table) => Limited(table) /\ Shaped(table)
  BY <1>1, NewIsLimited
<1> QED BY <1>2 DEF IInv, AsSet

\* Every call.
LEMMA NextIInv == IInv /\ [Next]_vars => IInv'
<1> SUFFICES ASSUME IInv, [Next]_vars PROVE IInv'
  OBVIOUS
<1>1. ASSUME NEW s \in 0 .. MaxStates, NEW b \in Byte, NEW target \in Targets,
             SetTransition(s, b, target)
      PROVE  IInv'
  BY <1>1, SetTransitionKeeps
<1>2. ASSUME NEW s \in 0 .. MaxStates, NEW pid \in Pids, AddAccept(s, pid)
      PROVE  IInv'
  BY <1>2, AddAcceptKeeps
<1>3. ASSUME NEW pid \in Pids, NEW length \in Lengths, SetPatternLength(pid, length)
      PROVE  IInv'
  BY <1>3, SetPatternLengthKeeps
<1>4. CASE Mutate
  BY <1>4, MutateKeeps
<1>5. CASE Reload
  BY <1>5, ReloadKeeps
<1>6. CASE UNCHANGED vars
  BY <1>6 DEF vars, IInv, Limited, Shaped, Rectangular, AsSet, CellsOf, LengthsOf, State, Cell
<1> QED BY <1>1, <1>2, <1>3, <1>4, <1>5, <1>6 DEF Next

\* The inductive invariant holds whatever is called.
LEMMA Invariant == Spec => []IInv
BY InitIInv, NextIInv, PTL DEF Spec

------------------------------------------------------------------------------
(***************************************************************************)
(* The properties.                                                         *)
(***************************************************************************)

\* What is stored can be read, when no count was cut.
LEMMA StoredTable ==
  ASSUME IInv, IsTable(table), Rectangular(table), CountsFit(table)
  PROVE  LET data == ToBytes(table)
         IN  data \in Seq(Word) /\ Complete(data) /\ EndAt(data) = Len(data) /\ Loaded(data) = table
BY StatesAreWord, StoredIsLoaded DEF IInv

\* A table filled through calls alone keeps its shape, the limits new checked
\* and a length for every pattern that accepts, for every order of calls with
\* any states, bytes, targets, patterns and lengths.
THEOREM TableStaysConsistent == Spec => []BuilderConsistent
<1>1. IInv => BuilderConsistent
  <2> SUFFICES ASSUME Limited(table), Shaped(table) PROVE BuilderConsistent
    BY DEF IInv, BuilderConsistent
  <2> QED BY DEF Limited, Shaped, Rectangular, BuilderConsistent
<1> QED BY <1>1, Invariant, PTL

\* What was set last is what the table holds: no call of set_transition,
\* add_accept or set_pattern_length disturbs what another set.
THEOREM CallsDoNotInterfere == Spec => []LastCallWins
<1>1. IInv => LastCallWins
  BY DEF IInv, AsSet, LastCallWins
<1> QED BY <1>1, Invariant, PTL

\* from_bytes makes of what to_bytes stored what from_parts makes of the parts.
THEOREM StorageLosesNothing == Spec => []StorageLossless
<1>1. IInv => StorageLossless
  <2> SUFFICES ASSUME IInv, IsTable(table), Rectangular(table), CountsFit(table)
               PROVE  FromBytes(ToBytes(table)) = FromParts(table)
    BY DEF StorageLossless
  <2> QED BY StoredTable, FromBytesIs
<1> QED BY <1>1, Invariant, PTL

\* Data cut short is incomplete, wherever it was cut.
LEMMA CutIsIncomplete ==
  ASSUME NEW data \in Seq(Word), Complete(data), EndAt(data) = Len(data),
         NEW n \in 0 .. Len(data) - 1
  PROVE  ~ Complete(SubSeq(data, 1, n))
<1> DEFINE cut == SubSeq(data, 1, n)
<1> SUFFICES ASSUME Complete(cut) PROVE FALSE
  OBVIOUS
<1>1. cut \in Seq(Word) /\ Len(cut) = n /\ \A i \in 1 .. n : cut[i] = data[i]
  OBVIOUS
<1> HIDE DEF cut
<1>2. /\ AcceptsAt(cut) \in 3 .. n /\ AcceptsAt(cut) = 3 + cut[1] * cut[2]
      /\ cut[AcceptsAt(cut)] \in Nat
      /\ LensAt(cut) \in Nat /\ LensAt(cut) <= n
      /\ LensAt(cut) = AcceptsAt(cut) + 1 + 2 * cut[AcceptsAt(cut)]
      /\ EndAt(cut) <= n /\ EndAt(cut) = LensAt(cut) + cut[LensAt(cut)]
  BY <1>1, CompleteBounds
<1>3. AcceptsAt(cut) = AcceptsAt(data)
  <2>1. 1 \in 1 .. n /\ 2 \in 1 .. n
    BY <1>2
  <2>2. cut[1] = data[1] /\ cut[2] = data[2]
    BY <1>1, <2>1
  <2> QED BY <2>2 DEF AcceptsAt
<1>4. LensAt(cut) = LensAt(data)
  <2>1. AcceptsAt(cut) \in 1 .. n
    BY <1>2
  <2>2. cut[AcceptsAt(cut)] = data[AcceptsAt(data)]
    BY <1>1, <1>3, <2>1
  <2> QED BY <1>3, <2>2 DEF LensAt
<1>5. EndAt(cut) = EndAt(data)
  <2>1. LensAt(cut) \in 1 .. n
    BY <1>2
  <2>2. cut[LensAt(cut)] = data[LensAt(data)]
    BY <1>1, <1>4, <2>1
  <2> QED BY <1>4, <2>2 DEF EndAt
<1> QED BY <1>2, <1>5

\* from_bytes notices that stored data was cut short, after any word.
THEOREM CutsAreNoticed == Spec => []TruncationRejected
<1>1. IInv => TruncationRejected
  <2> SUFFICES ASSUME IInv, IsTable(table), Rectangular(table), CountsFit(table),
                      NEW n \in 0 .. Len(ToBytes(table)) - 1
               PROVE  ~ IsTable(FromBytes(SubSeq(ToBytes(table), 1, n)))
    BY DEF TruncationRejected
  <2> DEFINE data == ToBytes(table)
  <2>1. data \in Seq(Word) /\ Complete(data) /\ EndAt(data) = Len(data) /\ n \in 0 .. Len(data) - 1
    BY StoredTable
  <2> HIDE DEF data
  <2>2. ~ Complete(SubSeq(data, 1, n))
    BY <2>1, CutIsIncomplete
  <2>3. ~ IsTable(FromBytes(SubSeq(data, 1, n)))
    BY <2>2, FromBytesIs, Results
  <2> QED BY <2>3 DEF data
<1> QED BY <1>1, Invariant, PTL

\* The checks of compile imply those of from_parts, on every table that the
\* calls and the accessors can make.
THEOREM CompiledTablesLoad == Spec => []CompiledIsStorable
<1>1. IInv => CompiledIsStorable
  <2> SUFFICES ASSUME IInv, IsTable(table), CountsFit(table), Compilable(table)
               PROVE  FromBytes(ToBytes(table)) = table
    BY DEF CompiledIsStorable
  <2>1. Rectangular(table)
    BY DEF Compilable, Rectangular
  <2>2. FromBytes(ToBytes(table)) = FromParts(table)
    BY <2>1, StoredTable, FromBytesIs
  <2>3. ValidParts(table)
    BY ByteCountAssumption DEF Compilable, ValidParts
  <2>4. table.states \in Nat /\ table.states <= MaxStates
    BY DEF IInv, Limited, ProgramType
  <2>5. FromParts(table) = table
    BY <2>3, <2>4, LimitsAssumption DEF FromParts
  <2> QED BY <2>2, <2>5
<1> QED BY <1>1, Invariant, PTL

------------------------------------------------------------------------------
(***************************************************************************)
(* compute_ranges and transition_density, for every table whose classes    *)
(* are not zero: what is returned tiles every row, the density agrees with *)
(* it, and the only panic is the slice of a row that is missing as a whole.*)
(***************************************************************************)
\* What Ranges assumes of a self.
Analysable(p) == p \in ProgramType /\ p.classes > 0

RangeType == [lo : Nat, hi : Nat, target : Word]

\* The variables have their types.
AnalysisTypeOK ==
  /\ Analysable(self) /\ state \in Nat /\ index \in Nat /\ start \in Nat
  /\ row \in Seq(RangeType) /\ ranges \in Seq(Seq(RangeType))
  /\ phase \in {"row", "bytes", "done", "panic"}

\* Where the loops are in each phase.
AnalysisControl ==
  /\ state <= self.states /\ Len(ranges) = state
  /\ phase = "bytes" =>
       /\ state < self.states /\ SliceIsThere
       /\ start < index /\ index <= Limit(state)
  /\ phase = "done" => state = self.states
  /\ phase = "panic" => state < self.states /\ RowStart(state) > Len(self.trans)

\* The rows left behind are there and described.
RowsDescribed ==
  \A s \in 0 .. state - 1 :
    RowStart(s) <= Len(self.trans) /\ Describes(ranges[s + 1], s, Limit(s))

\* The row under way is described up to start, and a range that begins at start
\* and differs from the one before it reaches up to index.
RowUnderWay ==
  phase = "bytes" =>
    /\ Describes(row, state, start)
    /\ \A b \in start .. index - 1 : TargetOn(state, b) = TargetOn(state, start)
    /\ row # <<>> => row[Len(row)].target # TargetOn(state, start)

AnalysisIInv == AnalysisTypeOK /\ AnalysisControl /\ RowsDescribed /\ RowUnderWay

------------------------------------------------------------------------------
(***************************************************************************)
(* Ranges of one row.  f gives the target of each byte.                    *)
(***************************************************************************)

\* Describes, for any function of bytes.
Tiles(rs, f, n) ==
  /\ IF rs = <<>> THEN n = 0 ELSE rs[Len(rs)].hi = n - 1
  /\ \A k \in DOMAIN rs :
       /\ rs[k].lo <= rs[k].hi
       /\ \A b \in rs[k].lo .. rs[k].hi : f[b] = rs[k].target
       /\ IF k = 1 THEN rs[k].lo = 0
          ELSE rs[k].lo = rs[k - 1].hi + 1 /\ rs[k].target # rs[k - 1].target

\* A range that begins where the others end, with another target, extends them.
LEMMA TilesAppend ==
  ASSUME NEW rs \in Seq(RangeType), NEW f, NEW n \in Nat, NEW end \in Nat, n < end,
         NEW t \in Word, Tiles(rs, f, n), \A b \in n .. end - 1 : f[b] = t,
         rs # <<>> => rs[Len(rs)].target # t
  PROVE  Tiles(Append(rs, [lo |-> n, hi |-> end - 1, target |-> t]), f, end)
<1> DEFINE r  == [lo |-> n, hi |-> end - 1, target |-> t]
           qs == Append(rs, r)
<1>1. /\ Len(rs) \in Nat /\ DOMAIN rs = 1 .. Len(rs) /\ DOMAIN qs = 1 .. Len(rs) + 1
      /\ Len(qs) = Len(rs) + 1 /\ qs[Len(rs) + 1] = r
      /\ \A k \in DOMAIN rs : qs[k] = rs[k]
      /\ qs # <<>>
  <2>1. r \in RangeType
    BY DEF RangeType
  <2> HIDE DEF r
  <2>2. Len(rs) \in Nat /\ DOMAIN rs = 1 .. Len(rs)
    OBVIOUS
  <2>3. qs \in Seq(RangeType) /\ Len(qs) = Len(rs) + 1
    BY <2>1
  <2>4. qs[Len(rs) + 1] = r /\ \A k \in 1 .. Len(rs) : qs[k] = rs[k]
    BY <2>1
  <2>5. DOMAIN qs = 1 .. Len(rs) + 1 /\ qs # <<>>
    BY <2>2, <2>3
  <2> QED BY <2>2, <2>3, <2>4, <2>5
<1>2. rs = <<>> <=> Len(rs) = 0
  OBVIOUS
<1>3. r.lo = n /\ r.hi = end - 1 /\ r.target = t
  OBVIOUS
<1> HIDE DEF r, qs
<1>4. ASSUME NEW k \in DOMAIN qs
      PROVE  /\ qs[k].lo <= qs[k].hi
             /\ \A b \in qs[k].lo .. qs[k].hi : f[b] = qs[k].target
             /\ IF k = 1 THEN qs[k].lo = 0
                ELSE qs[k].lo = qs[k - 1].hi + 1 /\ qs[k].target # qs[k - 1].target
  <2>1. CASE k = Len(rs) + 1
    <3>1. CASE k = 1
      <4>1. n = 0
        BY <1>1, <1>2, <2>1, <3>1 DEF Tiles
      <4> QED BY <1>1, <1>3, <2>1, <3>1, <4>1
    <3>2. CASE k # 1
      <4>1. rs # <<>> /\ k - 1 = Len(rs) /\ k - 1 \in DOMAIN rs
        BY <1>1, <1>2, <1>4, <2>1, <3>2
      <4>2. qs[k - 1].hi = n - 1 /\ qs[k - 1].target # t
        BY <1>1, <4>1 DEF Tiles
      <4> QED BY <1>1, <1>3, <2>1, <3>2, <4>2
    <3> QED BY <3>1, <3>2
  <2>2. CASE k \in DOMAIN rs
    <3>1. qs[k] = rs[k] /\ (k # 1 => k - 1 \in DOMAIN rs /\ qs[k - 1] = rs[k - 1])
      BY <1>1, <2>2
    <3> QED BY <2>2, <3>1 DEF Tiles
  <2> QED BY <1>1, <1>4, <2>1, <2>2
<1>5. qs[Len(qs)].hi = end - 1
  BY <1>1, <1>3
<1>6. Tiles(qs, f, end)
  BY <1>1, <1>4, <1>5 DEF Tiles
<1> QED BY <1>6 DEF r, qs

\* The ranges of a tiling end inside it and reach every byte.
LEMMA TilesCover ==
  ASSUME NEW rs \in Seq(RangeType), NEW f, NEW n \in Nat, Tiles(rs, f, n)
  PROVE  /\ \A k \in DOMAIN rs : rs[k].lo \in 0 .. n - 1 /\ f[rs[k].lo] = rs[k].target
         /\ \A b \in 0 .. n - 1 : \E k \in DOMAIN rs : f[b] = rs[k].target
<1>1. /\ Len(rs) \in Nat /\ DOMAIN rs = 1 .. Len(rs) /\ (rs = <<>> <=> Len(rs) = 0)
      /\ \A k \in DOMAIN rs : rs[k] \in RangeType
  OBVIOUS
<1>2. ASSUME NEW k \in DOMAIN rs PROVE rs[k].lo \in Nat /\ rs[k].hi \in Nat
  BY <1>1 DEF RangeType
<1>3. \A k \in DOMAIN rs : rs[k].hi <= n - 1
  <2> DEFINE S == {j \in 0 .. Len(rs) - 1 : rs[Len(rs) - j].hi <= n - 1}
  <2> SUFFICES ASSUME rs # <<>> PROVE \A k \in DOMAIN rs : rs[k].hi <= n - 1
    BY <1>1
  <2>1. Len(rs) - 1 \in Nat /\ Len(rs) \in DOMAIN rs
    BY <1>1
  <2>2. 0 \in S
    BY <1>2, <2>1 DEF Tiles
  <2>3. ASSUME NEW j \in 0 .. (Len(rs) - 1) - 1, j \in S PROVE j + 1 \in S
    <3> DEFINE k == Len(rs) - j
    <3>1. k \in 1 .. Len(rs) /\ k # 1 /\ k - 1 \in 1 .. Len(rs) /\ k - 1 = Len(rs) - (j + 1)
      BY <2>1
    <3>2. rs[k].lo = rs[k - 1].hi + 1 /\ rs[k].lo <= rs[k].hi /\ rs[k].hi <= n - 1
      BY <1>1, <2>3, <3>1 DEF Tiles
    <3>3. rs[k - 1].hi <= n - 1
      <4>1. rs[k - 1].hi \in Nat /\ rs[k].hi \in Nat
        BY <1>1, <1>2, <3>1
      <4> QED BY <3>2, <4>1
    <3>4. j + 1 \in 0 .. Len(rs) - 1
      BY <2>1
    <3> QED BY <3>1, <3>3, <3>4
  <2>4. \A j \in 0 .. Len(rs) - 1 : j \in S
    <3> HIDE DEF S
    <3> QED BY <2>1, <2>2, <2>3, InductionUpTo
  <2> SUFFICES ASSUME NEW k \in DOMAIN rs PROVE rs[k].hi <= n - 1
    OBVIOUS
  <2>5. Len(rs) - k \in 0 .. Len(rs) - 1 /\ Len(rs) - (Len(rs) - k) = k
    BY <1>1
  <2> QED BY <2>4, <2>5
<1>4. ASSUME NEW k \in DOMAIN rs
      PROVE  rs[k].lo \in 0 .. n - 1 /\ f[rs[k].lo] = rs[k].target
  <2>1. rs[k].lo <= rs[k].hi
    BY DEF Tiles
  <2>2. rs[k].lo \in rs[k].lo .. rs[k].hi /\ rs[k].lo \in 0 .. n - 1
    BY <1>2, <1>3, <2>1
  <2> QED BY <2>2 DEF Tiles
<1>5. ASSUME NEW b \in 0 .. n - 1 PROVE \E k \in DOMAIN rs : f[b] = rs[k].target
  <2> DEFINE T == {k \in DOMAIN rs : b <= rs[k].hi}
  <2>1. Len(rs) \in T
    BY <1>1 DEF Tiles
  <2>2. PICK k \in T : \A j \in T : k <= j
    <3>1. T \subseteq Nat
      BY <1>1
    <3> HIDE DEF T
    <3> QED BY <2>1, <3>1, LeastElement
  <2>3. rs[k].lo <= b
    <3>1. CASE k = 1
      BY <2>2, <3>1 DEF Tiles
    <3>2. CASE k # 1
      <4>1. k - 1 \in DOMAIN rs /\ k \in DOMAIN rs /\ k \in Nat /\ ~ (k <= k - 1)
        BY <1>1, <2>2, <3>2
      <4>2. ~ (b <= rs[k - 1].hi)
        BY <2>2, <4>1
      <4>3. rs[k].lo = rs[k - 1].hi + 1
        BY <3>2, <4>1 DEF Tiles
      <4> QED BY <1>2, <4>1, <4>2, <4>3
    <3> QED BY <3>1, <3>2
  <2>4. b \in rs[k].lo .. rs[k].hi
    BY <1>2, <2>2, <2>3
  <2> QED BY <2>2, <2>4 DEF Tiles
<1> QED BY <1>4, <1>5

------------------------------------------------------------------------------
(***************************************************************************)
(* The invariant.                                                          *)
(***************************************************************************)

\* The targets of the bytes of state s.
RowTargets(s) == [b \in Nat |-> TargetOn(s, b)]

\* The ranges of a state tile its bytes.
LEMMA DescribesIsTiles ==
  ASSUME NEW rs \in Seq(RangeType), NEW s, NEW n
  PROVE  Describes(rs, s, n) <=> Tiles(rs, RowTargets(s), n)
<1>1. \A k \in DOMAIN rs : \A b \in rs[k].lo .. rs[k].hi : b \in Nat /\ RowTargets(s)[b] = TargetOn(s, b)
  <2> SUFFICES ASSUME NEW k \in DOMAIN rs, NEW b \in rs[k].lo .. rs[k].hi
               PROVE  b \in Nat /\ RowTargets(s)[b] = TargetOn(s, b)
    OBVIOUS
  <2>1. rs[k] \in RangeType
    OBVIOUS
  <2> QED BY <2>1 DEF RangeType, RowTargets
<1> QED BY <1>1 DEF Describes, Tiles

\* Rows do not overlap, and the slice of a row is as long as there are entries.
LEMMA RowsApart ==
  ASSUME Analysable(self), NEW s \in Nat
  PROVE  /\ RowStart(s) \in Nat /\ RowEnd(s) \in Nat /\ Limit(s) \in Int
         /\ self.classes \in Nat /\ Len(self.trans) \in Nat
         /\ RowEnd(s) <= Len(self.trans) /\ RowStart(s) + Limit(s) <= RowEnd(s)
         /\ RowStart(s) <= RowEnd(s) <=> RowStart(s) <= Len(self.trans)
         /\ RowStart(s) <= Len(self.trans) => Limit(s) \in Nat
         /\ \A b \in 0 .. Limit(s) - 1 : TargetOn(s, b) \in Word
<1>1. /\ self.classes \in Nat /\ self.classes > 0 /\ self.trans \in Seq(Word)
      /\ Len(self.trans) \in Nat
  BY DEF Analysable, ProgramType
<1>2. RowStart(s) \in Nat
  BY <1>1 DEF RowStart
<1>3. /\ RowEnd(s) \in Nat /\ RowEnd(s) <= Len(self.trans)
      /\ RowStart(s) <= RowEnd(s) <=> RowStart(s) <= Len(self.trans)
  BY <1>1, <1>2 DEF RowEnd, Minimum
<1>4. /\ Limit(s) \in Int /\ RowStart(s) + Limit(s) <= RowEnd(s)
      /\ RowStart(s) <= Len(self.trans) => Limit(s) \in Nat
  BY <1>2, <1>3, ByteCountAssumption DEF Limit, Minimum
<1>5. ASSUME NEW b \in 0 .. Limit(s) - 1 PROVE TargetOn(s, b) \in Word
  <2>1. RowStart(s) + b + 1 \in 1 .. Len(self.trans)
    BY <1>1, <1>2, <1>3, <1>4
  <2> QED BY <1>1, <2>1 DEF TargetOn
<1> QED BY <1>1, <1>2, <1>3, <1>4, <1>5

\* The invariant holds before the analysis starts.
LEMMA AnalysisInit == RangesInit => AnalysisIInv
BY TablesAssumption DEF RangesInit, AnalysisIInv, AnalysisTypeOK, AnalysisControl, RowsDescribed, RowUnderWay,
       Analysable, ProgramType

\* A range closed before a given byte continues the row under way.
LEMMA CloseRange ==
  ASSUME AnalysisIInv, phase = "bytes", NEW end \in Nat, end = index
  PROVE  /\ Append(row, Closed(end)) \in Seq(RangeType)
         /\ Describes(Append(row, Closed(end)), state, end)
         /\ Append(row, Closed(end)) # <<>>
         /\ Append(row, Closed(end))[Len(Append(row, Closed(end)))].target = TargetOn(state, start)
<1>1. /\ Analysable(self) /\ state \in Nat /\ start \in Nat /\ index \in Nat
      /\ row \in Seq(RangeType) /\ start < index /\ index <= Limit(state)
      /\ Describes(row, state, start)
      /\ \A b \in start .. index - 1 : TargetOn(state, b) = TargetOn(state, start)
      /\ row # <<>> => row[Len(row)].target # TargetOn(state, start)
  BY DEF AnalysisIInv, AnalysisTypeOK, AnalysisControl, RowUnderWay
<1>2. TargetOn(state, start) \in Word
  <2>1. Limit(state) \in Int
    BY <1>1, RowsApart
  <2>2. start \in 0 .. Limit(state) - 1
    BY <1>1, <2>1
  <2> QED BY <1>1, <2>2, RowsApart
<1>3. Closed(end) \in RangeType
  BY <1>1, <1>2 DEF Closed, RangeType
<1>4. /\ Append(row, Closed(end)) \in Seq(RangeType) /\ Append(row, Closed(end)) # <<>>
      /\ Append(row, Closed(end))[Len(Append(row, Closed(end)))] = Closed(end)
  <2>1. ASSUME NEW c \in RangeType
        PROVE  /\ Append(row, c) \in Seq(RangeType) /\ Append(row, c) # <<>>
               /\ Append(row, c)[Len(Append(row, c))] = c
    <3>1. Append(row, c) \in Seq(RangeType) /\ Len(Append(row, c)) = Len(row) + 1
      BY <1>1
    <3>2. Append(row, c)[Len(row) + 1] = c /\ Len(row) \in Nat
      BY <1>1
    <3>3. Append(row, c) # <<>>
      BY <3>1, <3>2
    <3> QED BY <3>1, <3>2, <3>3
  <2> QED BY <1>3, <2>1
<1>5. \A b \in start .. end - 1 : RowTargets(state)[b] = TargetOn(state, start)
  BY <1>1 DEF RowTargets
<1>6. Tiles(row, RowTargets(state), start)
  BY <1>1, DescribesIsTiles
<1>7. Tiles(Append(row, Closed(end)), RowTargets(state), end)
  BY <1>1, <1>2, <1>5, <1>6, TilesAppend DEF Closed
<1>8. Describes(Append(row, Closed(end)), state, end)
  BY <1>4, <1>7, DescribesIsTiles
<1> QED BY <1>4, <1>8 DEF Closed

\* A row added to the ranges is described by what describes its content.
LEMMA RowAdded ==
  ASSUME AnalysisIInv, NEW r \in Seq(RangeType), Describes(r, state,
         Limit(state)),
         RowStart(state) <= Len(self.trans), state < self.states,
         ranges' = Append(ranges, r), state' = state + 1, UNCHANGED self
  PROVE  /\ ranges' \in Seq(Seq(RangeType)) /\ Len(ranges') = state' /\ state' \in Nat
         /\ state' <= self'.states /\ RowsDescribed'
<1>1. /\ state \in Nat /\ self.states \in Nat /\ ranges \in Seq(Seq(RangeType))
      /\ Len(ranges) = state /\ Analysable(self)
  BY DEF Analysable, AnalysisIInv, AnalysisTypeOK, AnalysisControl,
     ProgramType
<1>2. ranges' \in Seq(Seq(RangeType)) /\ Len(ranges') = state + 1
  BY <1>1
<1>3. ranges'[state + 1] = r /\ \A s \in 0 .. state - 1 : ranges'[s + 1] = ranges[s + 1]
  BY <1>1
<1>4. ASSUME NEW s \in 0 .. state' - 1
      PROVE  RowStart(s) <= Len(self.trans) /\ Describes(ranges'[s + 1], s, Limit(s))
  <2>1. CASE s = state
    BY <1>3, <2>1
  <2>2. CASE s \in 0 .. state - 1
    BY <1>3, <2>2 DEF AnalysisIInv, RowsDescribed
  <2> QED BY <1>1, <1>4, <2>1, <2>2
<1>5. RowsDescribed'
  <2> SUFFICES ASSUME NEW s \in 0 .. state' - 1
               PROVE  (RowStart(s) <= Len(self.trans) /\ Describes(ranges[s + 1], s, Limit(s)))'
    BY DEF RowsDescribed
  <2> QED BY <1>4 DEF Describes, Limit, RowEnd, RowStart,
             TargetOn
<1> QED BY <1>1, <1>2, <1>5

\* Every step of the analysis preserves it.
LEMMA AnalysisNext == AnalysisIInv /\ [RangesNext]_rangesVars => AnalysisIInv'
<1> SUFFICES ASSUME AnalysisIInv, [RangesNext]_rangesVars PROVE AnalysisIInv'
  OBVIOUS
<1>0. /\ Analysable(self) /\ state \in Nat /\ index \in Nat /\ start \in Nat
      /\ self.states \in Nat /\ Limit(state) \in Int
      /\ row \in Seq(RangeType) /\ ranges \in Seq(Seq(RangeType))
  BY RowsApart DEF AnalysisIInv, AnalysisTypeOK, Analysable, ProgramType
<1>1. CASE SlicePanics
  <2>1. RowStart(state) > Len(self.trans)
    <3>1. RowEnd(state) <= Len(self.trans) /\ RowEnd(state) \in Nat /\ RowStart(state) \in Nat
      BY <1>0, RowsApart
    <3>2. Len(self.trans) \in Nat /\ (RowStart(state) <= RowEnd(state) <=> RowStart(state) <= Len(self.trans))
      BY <1>0, RowsApart
    <3> QED BY <1>1, <3>1, <3>2 DEF SlicePanics
  <2>2. AnalysisTypeOK' /\ AnalysisControl' /\ RowUnderWay'
    BY <1>0, <1>1, <2>1 DEF SlicePanics, AnalysisIInv, AnalysisTypeOK, AnalysisControl,
       RowUnderWay, RowStart
  <2>3. RowsDescribed'
    BY <1>1 DEF SlicePanics, AnalysisIInv, RowsDescribed, Describes,
       Limit, RowEnd, RowStart, TargetOn
  <2> QED BY <2>2, <2>3 DEF AnalysisIInv
<1>2. CASE EmptyRow
  <2>1. Describes(<<>>, state, Limit(state)) /\ <<>> \in Seq(RangeType)
    BY <1>2 DEF EmptyRow, Describes
  <2>2. RowStart(state) <= Len(self.trans)
    BY <1>0, <1>2, RowsApart DEF EmptyRow, SliceIsThere
  <2>3. /\ ranges' \in Seq(Seq(RangeType)) /\ Len(ranges') = state' /\ state' \in Nat
        /\ state' <= self'.states /\ RowsDescribed'
    BY <1>2, <2>1, <2>2, RowAdded DEF EmptyRow
  <2>4. AnalysisTypeOK' /\ AnalysisControl' /\ RowUnderWay'
    BY <1>2, <2>3 DEF EmptyRow, AnalysisIInv, AnalysisTypeOK, AnalysisControl,
       RowUnderWay
  <2> QED BY <2>3, <2>4 DEF AnalysisIInv
<1>3. CASE StartRow
  <2>1. Describes(<<>>, state, 0) /\ <<>> \in Seq(RangeType)
    BY DEF Describes
  <2>2. AnalysisTypeOK' /\ AnalysisControl'
    BY <1>0, <1>3, <2>1
       DEF StartRow, AnalysisIInv, AnalysisTypeOK, AnalysisControl, SliceIsThere, Limit, RowEnd, RowStart
  <2>3. RowsDescribed'
    BY <1>3 DEF StartRow, AnalysisIInv, RowsDescribed, Describes,
       Limit, RowEnd, RowStart, TargetOn
  <2>4. RowUnderWay'
    <3>1. \A b \in 0 .. 1 - 1 : b = 0
      OBVIOUS
    <3> QED BY <1>3, <3>1, <2>1 DEF StartRow, RowUnderWay, Describes,
               TargetOn, RowStart
  <2> QED BY <2>2, <2>3, <2>4 DEF AnalysisIInv
<1>4. CASE NextByte
  <2>1. /\ phase = "bytes" /\ phase' = "bytes" /\ index < Limit(state) /\ index' = index + 1
        /\ UNCHANGED <<self, state, ranges>>
        /\ state < self.states /\ SliceIsThere /\ start < index
    BY <1>4 DEF NextByte, AnalysisIInv, AnalysisControl
  <2>2. /\ row' \in Seq(RangeType) /\ start' \in Nat /\ start' < index'
        /\ Describes(row', state, start')
        /\ \A b \in start' .. index' - 1 : TargetOn(state, b) = TargetOn(state, start')
        /\ row' # <<>> => row'[Len(row')].target # TargetOn(state, start')
    <3>1. CASE TargetOn(state, index) # TargetOn(state, start)
      <4>1. row' = Append(row, Closed(index)) /\ start' = index
        BY <1>4, <3>1 DEF NextByte
      <4>2. \A b \in index .. index' - 1 : b = index
        BY <1>0, <2>1
      <4>3. index < index'
        BY <1>0, <2>1
      <4> QED BY <1>0, <2>1, <3>1, <4>1, <4>2, <4>3, CloseRange
    <3>2. CASE TargetOn(state, index) = TargetOn(state, start)
      <4>1. row' = row /\ start' = start
        BY <1>4, <3>2 DEF NextByte
      <4>2. \A b \in start .. index' - 1 : b \in start .. index - 1 \/ b = index
        BY <1>0, <2>1
      <4>3. start < index'
        BY <1>0, <2>1
      <4> QED BY <1>0, <2>1, <3>2, <4>1, <4>2, <4>3 DEF AnalysisIInv, RowUnderWay
    <3> QED BY <3>1, <3>2
  <2>3. AnalysisTypeOK'
    BY <1>0, <2>1, <2>2 DEF AnalysisIInv, AnalysisTypeOK
  <2>4. AnalysisControl'
    <3>1. index' <= Limit(state)
      BY <1>0, <2>1
    <3> QED BY <1>0, <2>1, <2>2, <3>1
            DEF AnalysisIInv, AnalysisControl, SliceIsThere, Limit, RowEnd, RowStart
  <2>5. RowsDescribed'
    BY <2>1 DEF AnalysisIInv, RowsDescribed, Describes, Limit, RowEnd,
       RowStart, TargetOn
  <2>6. RowUnderWay'
    BY <2>1, <2>2 DEF RowUnderWay, Describes, RowStart, TargetOn
  <2> QED BY <2>3, <2>4, <2>5, <2>6 DEF AnalysisIInv
<1>5. CASE EndRow
  <2>1. /\ phase = "bytes" /\ index = Limit(state) /\ state < self.states /\ SliceIsThere
        /\ ranges' = Append(ranges, Append(row, Closed(index))) /\ state' = state + 1
        /\ phase' = "row" /\ UNCHANGED <<self, index, start, row>>
    BY <1>5 DEF EndRow, AnalysisIInv, AnalysisControl
  <2>2. /\ Append(row, Closed(index)) \in Seq(RangeType)
        /\ Describes(Append(row, Closed(index)), state, Limit(state))
    BY <1>0, <2>1, CloseRange
  <2>3. RowStart(state) <= Len(self.trans)
    BY <1>0, <2>1, RowsApart DEF SliceIsThere
  <2>4. /\ ranges' \in Seq(Seq(RangeType)) /\ Len(ranges') = state' /\ state' \in Nat
        /\ state' <= self'.states /\ RowsDescribed'
    BY <2>1, <2>2, <2>3, RowAdded
  <2>5. AnalysisTypeOK' /\ AnalysisControl' /\ RowUnderWay'
    BY <2>1, <2>4 DEF AnalysisIInv, AnalysisTypeOK, AnalysisControl, RowUnderWay
  <2> QED BY <2>4, <2>5 DEF AnalysisIInv
<1>6. CASE Return
  <2>1. AnalysisTypeOK' /\ AnalysisControl' /\ RowUnderWay'
    BY <1>0, <1>6 DEF Return, AnalysisIInv, AnalysisTypeOK, AnalysisControl, RowUnderWay
  <2>2. RowsDescribed'
    <3>1. RowsDescribed /\ UNCHANGED <<self, state, ranges>>
      BY <1>6 DEF Return, AnalysisIInv
    <3> QED BY <3>1 DEF RowsDescribed, Describes, Limit, RowEnd,
               RowStart,
                        TargetOn
  <2> QED BY <2>1, <2>2 DEF AnalysisIInv
<1>7. CASE UNCHANGED rangesVars
  BY <1>7 DEF rangesVars, AnalysisIInv, AnalysisTypeOK, AnalysisControl, RowsDescribed,
     RowUnderWay, SliceIsThere,
     Describes, Limit, RowEnd, RowStart, TargetOn, Minimum
<1> QED BY <1>1, <1>2, <1>3, <1>4, <1>5, <1>6, <1>7 DEF RangesNext

\* So it holds throughout.
LEMMA AnalysisInvariant == RangesSpec => []AnalysisIInv
BY AnalysisInit, AnalysisNext, PTL DEF RangesSpec

\* compute_ranges panics only when a whole row is missing.
THEOREM PanicsAreJustified == RangesSpec => []PanicsOnlyWithoutRow
<1>1. AnalysisIInv => PanicsOnlyWithoutRow
  <2> SUFFICES ASSUME AnalysisIInv, phase = "panic"
               PROVE  Len(self.trans) < (self.states - 1) * self.classes
    BY DEF PanicsOnlyWithoutRow
  <2>1. /\ state \in Nat /\ self.states \in Nat /\ self.classes \in Nat
        /\ Len(self.trans) \in Nat /\ state <= self.states - 1
        /\ state * self.classes > Len(self.trans)
    BY DEF Analysable, AnalysisIInv, AnalysisTypeOK, AnalysisControl,
       ProgramType, RowStart
  <2> DEFINE k == self.states - 1 - state
  <2>2. k \in Nat /\ self.states - 1 = state + k
    BY <2>1
  <2>3. (state + k) * self.classes = state * self.classes + k * self.classes
    BY <2>1, <2>2
  <2>4. k * self.classes \in Nat /\ state * self.classes \in Nat
    BY <2>1, <2>2
  <2> HIDE DEF k
  <2> QED BY <2>1, <2>2, <2>3, <2>4
<1> QED BY <1>1, AnalysisInvariant, PTL

\* The density of a state is the number of targets of the bytes of its row.
LEMMA DensityIsOfRow ==
  ASSUME Analysable(self), self.classes <= ByteCount, NEW s \in Nat,
         RowStart(s) <= Len(self.trans)
  PROVE  TransitionDensity(s) = Cardinality({TargetOn(s, b) : b \in 0 .. Limit(s) - 1})
<1>1. /\ RowStart(s) \in Nat /\ self.classes \in Nat /\ Len(self.trans) \in Nat
      /\ ByteCount \in Nat
  BY RowsApart, ByteCountAssumption
<1>2. Limit(s) = IF RowStart(s) + self.classes <= Len(self.trans)
                 THEN self.classes ELSE Len(self.trans) - RowStart(s)
  BY <1>1 DEF Limit, RowEnd, Minimum
<1>3. {c \in 0 .. self.classes - 1 : RowStart(s) + c < Len(self.trans)} = 0 .. Limit(s) - 1
  BY <1>1, <1>2
<1> QED BY <1>3 DEF TransitionDensity

\* The ranges returned describe every row, and the density of a state is the
\* number of targets they name.
THEOREM RangesAreCorrect == RangesSpec => []RangesCorrect
<1>1. AnalysisIInv => RangesCorrect
  <2> SUFFICES ASSUME AnalysisIInv, phase = "done" PROVE
        /\ Len(ranges) = self.states
        /\ \A s \in State(self) :
             /\ Describes(ranges[s + 1], s, Limit(s))
             /\ self.classes <= ByteCount =>
                  TransitionDensity(s) =
                    Cardinality({ranges[s + 1][k].target : k \in DOMAIN ranges[s + 1]})
    BY DEF RangesCorrect
  <2>1. /\ Analysable(self) /\ self.states \in Nat /\ Len(ranges) = self.states
        /\ state = self.states /\ ranges \in Seq(Seq(RangeType))
    BY DEF Analysable, AnalysisIInv, AnalysisTypeOK, AnalysisControl,
       ProgramType
  <2>2. ASSUME NEW s \in State(self)
        PROVE  /\ s \in Nat /\ RowStart(s) <= Len(self.trans)
               /\ ranges[s + 1] \in Seq(RangeType)
               /\ Describes(ranges[s + 1], s, Limit(s))
    <3>1. s \in 0 .. state - 1 /\ s \in Nat /\ s + 1 \in 1 .. Len(ranges)
      BY <2>1 DEF State
    <3> QED BY <2>1, <3>1 DEF AnalysisIInv, RowsDescribed
  <2>3. ASSUME NEW s \in State(self), self.classes <= ByteCount
        PROVE  TransitionDensity(s) =
                 Cardinality({ranges[s + 1][k].target : k \in DOMAIN ranges[s + 1]})
    <3> DEFINE rs == ranges[s + 1]
               n  == Limit(s)
    <3>1. s \in Nat /\ RowStart(s) <= Len(self.trans) /\ rs \in Seq(RangeType)
          /\ Describes(rs, s, n)
      BY <2>2
    <3>2. n \in Nat
      BY <2>1, <3>1, RowsApart
    <3> HIDE DEF rs, n
    <3>3. Tiles(rs, RowTargets(s), n)
      BY <3>1, DescribesIsTiles
    <3>4. /\ \A k \in DOMAIN rs : rs[k].lo \in 0 .. n - 1 /\ RowTargets(s)[rs[k].lo] = rs[k].target
          /\ \A b \in 0 .. n - 1 : \E k \in DOMAIN rs : RowTargets(s)[b] = rs[k].target
      BY <3>1, <3>2, <3>3, TilesCover
    <3>5. \A b \in 0 .. n - 1 : RowTargets(s)[b] = TargetOn(s, b)
      BY <3>2 DEF RowTargets
    <3>6. {TargetOn(s, b) : b \in 0 .. n - 1} = {rs[k].target : k \in DOMAIN rs}
      BY <3>4, <3>5
    <3>7. TransitionDensity(s) = Cardinality({TargetOn(s, b) : b \in 0 .. n - 1})
      BY <2>1, <2>3, <3>1, DensityIsOfRow DEF n
    <3> QED BY <3>6, <3>7 DEF rs
  <2> QED BY <2>1, <2>2, <2>3
<1> QED BY <1>1, AnalysisInvariant, PTL
==============================================================================
