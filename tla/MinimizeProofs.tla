---------------------------- MODULE MinimizeProofs ---------------------------
(***************************************************************************)
(* Proofs about Minimize: rounds only split classes; a table from_parts    *)
(* accepts is never a reason to panic; the minimized table finds the same  *)
(* matches, and no two of its states are equivalent.                       *)
(***************************************************************************)
EXTENDS Minimize, ProgramProofs

------------------------------------------------------------------------------
(***************************************************************************)
(* Numbering.                                                              *)
(***************************************************************************)

\* Numbered numbers the values of f from 0, leaving no number out: arguments get
\* the same number exactly if f is the same there.
LEMMA NumberedIs ==
  ASSUME NEW f, IsFiniteSet(DOMAIN f), DOMAIN f \subseteq Nat
  PROVE  \E n \in Nat :
           /\ n = Cardinality({Numbered(f)[s] : s \in DOMAIN f})
           /\ Numbered(f) \in [DOMAIN f -> 0 .. n - 1]
           /\ \A c \in 0 .. n - 1 : \E s \in DOMAIN f : Numbered(f)[s] = c
           /\ \A s, t \in DOMAIN f : Numbered(f)[s] = Numbered(f)[t] <=> f[s] = f[t]
           /\ 0 \in DOMAIN f => Numbered(f)[0] = 0
<1> DEFINE D == DOMAIN f
           first == {s \in D : \A t \in D : f[t] = f[s] => s <= t}
           Before(s) == {t \in first : \A u \in D : f[u] = f[s] => t < u}
           n == Cardinality(first)
<1>1. Numbered(f) = [s \in D |-> Cardinality(Before(s))]
  BY DEF Numbered
<1>2. first \subseteq Nat /\ IsFiniteSet(first) /\ n \in Nat
  <2>1. first \in SUBSET D
    OBVIOUS
  <2> HIDE DEF first
  <2> QED BY <2>1, FS_Subset, FS_CardinalityType
<1>3. ASSUME NEW s \in D PROVE \E m \in first : f[m] = f[s]
  <2> DEFINE T == {t \in D : f[t] = f[s]}
  <2>1. T \subseteq Nat /\ T # {}
    OBVIOUS
  <2>2. PICK m \in T : \A t \in T : m <= t
    <3> HIDE DEF T
    <3> QED BY <2>1, LeastElement
  <2> QED BY <2>2
<1>4. ASSUME NEW s \in D, NEW m \in first, f[m] = f[s]
      PROVE  Numbered(f)[s] = Rank(first, m) - 1
  <2>1. Before(s) = {t \in first : t < m}
    <3>1. \A u \in D : f[u] = f[s] => m <= u
      BY <1>4
    <3>2. m \in D /\ D \subseteq Nat /\ first \subseteq D
      OBVIOUS
    <3> HIDE DEF first
    <3> QED BY <1>4, <3>1, <3>2
  <2>2. Before(s) = {j \in first : j <= m} \ {m}
    <3> HIDE DEF first, Before
    <3>1. \A j \in first : j \in Nat /\ m \in Nat
      BY <1>2
    <3>2. \A j \in first : j < m <=> j <= m /\ j # m
      BY <3>1
    <3> QED BY <2>1, <3>2
  <2>3. IsFiniteSet({j \in first : j <= m})
    <3>1. {j \in first : j <= m} \in SUBSET first
      OBVIOUS
    <3> HIDE DEF first
    <3> QED BY <1>2, <3>1, FS_Subset
  <2>4. m \in {j \in first : j <= m}
    <3> HIDE DEF first
    <3> QED BY <1>2
  <2> DEFINE L == {j \in first : j <= m}
  <2>5. Cardinality(L \ {m}) = Cardinality(L) - 1
    <3> HIDE DEF L
    <3> QED BY <2>3, <2>4, FS_RemoveElement DEF L
  <2> HIDE DEF first, Before
  <2> QED BY <1>1, <2>2, <2>5 DEF Rank
<1> HIDE DEF first
<1>5. /\ \A m \in first : Rank(first, m) \in 1 .. n
      /\ \A m, k \in first : Rank(first, m) = Rank(first, k) => m = k
      /\ \A c \in 1 .. n : \E m \in first : Rank(first, m) = c
  BY <1>2, RanksNumber
<1>6. first \subseteq D /\ \A m, k \in first : f[m] = f[k] => m = k
  BY DEF first
<1> HIDE DEF n
<1>7. \A s \in D : Numbered(f)[s] \in 0 .. n - 1
  <2> SUFFICES ASSUME NEW s \in D PROVE Numbered(f)[s] \in 0 .. n - 1
    OBVIOUS
  <2>1. PICK m \in first : f[m] = f[s]
    BY <1>3
  <2>2. Rank(first, m) \in 1 .. n
    BY <1>5
  <2> QED BY <1>2, <1>4, <2>1, <2>2
<1>8. \A c \in 0 .. n - 1 : \E s \in D : Numbered(f)[s] = c
  <2> SUFFICES ASSUME NEW c \in 0 .. n - 1 PROVE \E s \in D : Numbered(f)[s] = c
    OBVIOUS
  <2>1. c + 1 \in 1 .. n
    BY <1>2
  <2>2. PICK m \in first : Rank(first, m) = c + 1
    BY <1>5, <2>1
  <2>3. Numbered(f)[m] = c
    BY <1>4, <1>6, <2>2
  <2> QED BY <1>6, <2>3
<1>9. ASSUME NEW s \in D, NEW t \in D PROVE Numbered(f)[s] = Numbered(f)[t] <=> f[s] = f[t]
  <2>1. PICK m \in first : f[m] = f[s]
    BY <1>3
  <2>2. PICK k \in first : f[k] = f[t]
    BY <1>3
  <2>3. Numbered(f)[s] = Rank(first, m) - 1 /\ Numbered(f)[t] = Rank(first, k) - 1
    BY <1>4, <2>1, <2>2
  <2>4. Rank(first, m) \in Nat /\ Rank(first, k) \in Nat
    BY <1>2, <1>5
  <2> QED BY <1>5, <1>6, <2>1, <2>2, <2>3, <2>4
<1>10. Numbered(f) \in [D -> 0 .. n - 1]
  <2> HIDE DEF Before
  <2> QED BY <1>1, <1>7
<1>11. Cardinality({Numbered(f)[s] : s \in D}) = n
  <2>1. {Numbered(f)[s] : s \in D} = 0 .. n - 1
    BY <1>7, <1>8
  <2>2. Cardinality(0 .. n - 1) = n
    BY <1>2, FS_Interval
  <2> QED BY <2>1, <2>2
<1>12. ASSUME 0 \in D PROVE Numbered(f)[0] = 0
  <2>1. \A t \in first : ~ t < 0
    BY <1>2
  <2>2. Before(0) = {}
    BY <1>12, <2>1
  <2> HIDE DEF Before
  <2> QED BY <1>1, <1>12, <2>2, FS_EmptySet
<1> QED BY <1>2, <1>8, <1>9, <1>10, <1>11, <1>12

------------------------------------------------------------------------------
(***************************************************************************)
(* The table, and its partitions.                                          *)
(***************************************************************************)

\* What a table is made of.
LEMMA TableFacts ==
  ASSUME table \in Tables
  PROVE  /\ table \in ProgramType /\ table.links = <<>>
         /\ table.states \in Nat /\ table.states <= Bit31
         /\ table.classes \in Nat /\ table.classes > 0
         /\ table.trans \in Seq(Word) /\ table.accepts \in Seq(Word \X Word)
         /\ State(table) = 0 .. table.states - 1
         /\ IsFiniteSet(State(table)) /\ State(table) \subseteq Nat
<1>1. /\ table \in ProgramType /\ table.links = <<>> /\ table.states <= Bit31 /\ table.classes > 0
  BY TablesAssumption
<1>2. /\ table.states \in Nat /\ table.classes \in Nat
      /\ table.trans \in Seq(Word) /\ table.accepts \in Seq(Word \X Word)
  BY <1>1 DEF ProgramType
<1>3. State(table) = 0 .. table.states - 1
  BY DEF State
<1>4. IsFiniteSet(0 .. table.states - 1)
  <2>1. 0 \in Int /\ table.states - 1 \in Int
    BY <1>2
  <2> QED BY <2>1, FS_Interval
<1> QED BY <1>1, <1>2, <1>3, <1>4

\* No class gathers states of two patterns.
Respects(part) ==
  \A s, t \in State(table) : part[s] = part[t] => PatternOf(s) = PatternOf(t)

\* The classes of a partition.
ClassesOf(part) == {part[s] : s \in State(table)}

\* States of two classes are told apart by a word shorter than the number of classes.
Separates(part) ==
  ValidParts(table) /\ Unflagged =>
    \A s, t \in State(table) : part[s] # part[t] =>
      \E w \in Words(Cardinality(ClassesOf(part)) - 1) : Reports(table, s, w) # Reports(table, t, w)

\* The table that Build makes of the partition.
Quotient ==
  LET member(c) == Max({s \in State(table) : partition[s] = c})
  IN  [table EXCEPT
        !.states  = numClasses,
        !.trans   = [i \in 1 .. numClasses * table.classes |->
                       TargetClass(member((i - 1) \div table.classes),
                                   (i - 1) % table.classes)],
        !.accepts = MappedAccepts]

\* A partition on which the loop goes on, and one on which it has ended.
Refining ==
  /\ table.states > 1 /\ partition \in [State(table) -> Nat]
  /\ Respects(partition) /\ Separates(partition)
Stable == ~OutOfRange /\ partition = NewPartition /\ numClasses = NewCount

IInv ==
  /\ table \in Tables
  /\ phase \in {"start", "refine", "build", "done", "panic"}
  /\ phase \in {"refine", "build"} => Refining
  /\ phase = "build" => Stable
  /\ phase = "panic" => ~ValidParts(table)
  /\ \/ result = NoTable
     \/ phase = "done" /\ Refining /\ Stable /\ numClasses < table.states /\ result = Quotient

\* A round numbers the signatures: two states share a class after it exactly if
\* they shared one before and their targets did.
LEMMA RoundIs ==
  ASSUME table \in Tables
  PROVE  /\ NewCount \in Nat /\ NewPartition \in [State(table) -> 0 .. NewCount - 1]
         /\ \A c \in 0 .. NewCount - 1 : \E s \in State(table) : NewPartition[s] = c
         /\ \A s, t \in State(table) :
              NewPartition[s] = NewPartition[t] <=>
                /\ partition[s] = partition[t]
                /\ \A b \in 0 .. table.classes - 1 : TargetClass(s, b) = TargetClass(t, b)
         /\ 0 \in State(table) => NewPartition[0] = 0
<1> DEFINE f == [s \in State(table) |-> Signature(s)]
<1>1. DOMAIN f = State(table) /\ IsFiniteSet(DOMAIN f) /\ DOMAIN f \subseteq Nat
  BY TableFacts
<1>2. \A s \in State(table) : f[s] = Signature(s)
  OBVIOUS
<1>3. NewPartition = Numbered(f)
  BY DEF NewPartition
<1> HIDE DEF f
<1>4. PICK n \in Nat :
           /\ n = Cardinality({Numbered(f)[s] : s \in DOMAIN f})
           /\ Numbered(f) \in [DOMAIN f -> 0 .. n - 1]
           /\ \A c \in 0 .. n - 1 : \E s \in DOMAIN f : Numbered(f)[s] = c
           /\ \A s, t \in DOMAIN f : Numbered(f)[s] = Numbered(f)[t] <=> f[s] = f[t]
           /\ 0 \in DOMAIN f => Numbered(f)[0] = 0
  BY <1>1, NumberedIs
<1>5. NewCount = n
  BY <1>1, <1>3, <1>4 DEF NewCount
<1>6. ASSUME NEW s \in State(table), NEW t \in State(table)
      PROVE  f[s] = f[t] <=>
                /\ partition[s] = partition[t]
                /\ \A b \in 0 .. table.classes - 1 : TargetClass(s, b) = TargetClass(t, b)
  <2> DEFINE g(u) == [b \in 0 .. table.classes - 1 |-> TargetClass(u, b)]
  <2>1. f[s] = <<partition[s], g(s)>> /\ f[t] = <<partition[t], g(t)>>
    BY <1>2 DEF Signature
  <2>2. g(s) = g(t) <=> \A b \in 0 .. table.classes - 1 : TargetClass(s, b) = TargetClass(t, b)
    OBVIOUS
  <2> HIDE DEF g
  <2> QED BY <2>1, <2>2
<1> QED BY <1>1, <1>3, <1>4, <1>5, <1>6

------------------------------------------------------------------------------
(***************************************************************************)
(* Words, and the paths they lead along.                                   *)
(***************************************************************************)

\* The words of at most n bytes.
LEMMA WordsAre ==
  ASSUME NEW n, NEW w
  PROVE  w \in Words(n) <=> \E k \in 0 .. n : w \in [1 .. k -> 0 .. table.classes - 1]
BY Zenon DEF Words

\* The state after byte b in state s.
Step(p, s, b) == Mask(p.trans[s * p.classes + b + 1])

\* A word's length, bytes and steps.
LEMMA WordFacts ==
  ASSUME NEW C, NEW k \in Nat, NEW w \in [1 .. k -> C]
  PROVE  /\ w \in Seq(C) /\ Len(w) = k /\ k = Len(w)
         /\ \A i \in 0 .. k - 1 : w[i + 1] \in C
         /\ \A p, s, i : Target(p, w, s, i) = Step(p, s, w[i + 1])
<1>1. \A p, s, i : Target(p, w, s, i) = Step(p, s, w[i + 1])
  BY DEF Target, Step
<1> QED BY <1>1

\* In a table from_parts accepts every step leads to a state.
LEMMA StepType ==
  ASSUME NEW p \in ProgramType, ValidParts(p), NEW s \in State(p), NEW b \in 0 .. p.classes - 1
  PROVE  s * p.classes + b + 1 \in DOMAIN p.trans /\ Step(p, s, b) \in State(p)
<1> DEFINE k == s * p.classes + b
<1>1. /\ p.states \in Nat /\ p.classes \in Nat /\ p.classes > 0
      /\ p.trans \in Seq(Word) /\ Len(p.trans) = p.states * p.classes
      /\ s \in 0 .. p.states - 1
  BY DEF ProgramType, ValidParts, State
<1>2. k \in 0 .. Len(p.trans) - 1
  <2>1. s * p.classes \in Nat /\ s * p.classes + p.classes <= p.states * p.classes
    BY <1>1
  <2> QED BY <1>1, <2>1
<1> HIDE DEF k
<1>3. k + 1 \in DOMAIN p.trans /\ p.trans[k + 1] \in Word
  BY <1>1, <1>2
<1>4. Mask(p.trans[k + 1]) \in Nat /\ Mask(p.trans[k + 1]) < p.states
  BY <1>3, MaskType, Bit31Assumption DEF ValidParts
<1> QED BY <1>1, <1>3, <1>4 DEF k, Step, State

\* Path follows the steps of the table.
LEMMA PathIs ==
  ASSUME NEW p \in ProgramType, ValidParts(p), NEW s \in State(p),
         NEW k \in Nat, NEW w \in [1 .. k -> 0 .. p.classes - 1]
  PROVE  /\ Path(p, s, w) \in [0 .. k -> State(p)]
         /\ Path(p, s, w)[0] = s
         /\ \A n \in 0 .. k - 1 : Path(p, s, w)[n + 1] = Step(p, Path(p, s, w)[n], w[n + 1])
<1> DEFINE Def(at) == [n \in 0 .. k |-> IF n = 0 THEN s ELSE Step(p, at[n - 1], w[(n - 1) + 1])]
           step == [x \in (0 .. k - 1) \X State(p) |-> Step(p, x[2], w[x[1] + 1])]
           path == Path(p, s, w)
<1>1. path = CHOOSE at : at = Def(at)
  BY WordFacts DEF Path, Target, Step
<1>2. \A n \in 0 .. k - 1, t \in State(p) : Step(p, t, w[n + 1]) \in State(p)
  BY WordFacts, StepType
<1>3. step \in [(0 .. k - 1) \X State(p) -> State(p)]
  BY <1>2
<1>4. \A n \in 0 .. k - 1, t \in State(p) : step[<<n, t>>] = Step(p, t, w[n + 1])
  OBVIOUS
<1> HIDE DEF step, path
<1>5. PICK f : Recursive(f, k, State(p), s, step)
  BY <1>3, RecursionExists
<1>6. f = Def(f)
  <2>1. ASSUME NEW n \in 0 .. k, n # 0 PROVE f[n] = Step(p, f[n - 1], w[(n - 1) + 1])
    <3>1. n - 1 \in 0 .. k - 1 /\ (n - 1) + 1 = n /\ n - 1 \in 0 .. k
      BY <2>1
    <3>2. f[n - 1] \in State(p)
      BY <1>5, <3>1 DEF Recursive
    <3>3. f[(n - 1) + 1] = step[<<n - 1, f[n - 1]>>]
      BY <1>5, <3>1 DEF Recursive
    <3> QED BY <1>4, <3>1, <3>2, <3>3
  <2> QED BY <1>5, <2>1 DEF Recursive
<1>7. path = Def(path)
  <2> HIDE DEF Def
  <2> QED BY <1>1, <1>6
<1>8. path[0] = s
  <2>1. 0 \in 0 .. k
    OBVIOUS
  <2> QED BY <1>7, <2>1
<1>9. ASSUME NEW n \in 0 .. k - 1 PROVE path[n + 1] = Step(p, path[n], w[n + 1])
  <2>1. n + 1 \in 0 .. k /\ n + 1 # 0 /\ (n + 1) - 1 = n
    OBVIOUS
  <2> QED BY <1>7, <2>1
<1>10. \A n \in 0 .. k : path[n] \in State(p)
  <2> DEFINE S == {n \in 0 .. k : path[n] \in State(p)}
  <2>1. 0 \in S
    BY <1>8
  <2>2. \A n \in 0 .. k - 1 : n \in S => n + 1 \in S
    BY <1>2, <1>9
  <2>3. \A n \in 0 .. k : n \in S
    <3> HIDE DEF S
    <3> QED BY <2>1, <2>2, InductionUpTo
  <2> QED BY <2>3
<1>11. path \in [0 .. k -> State(p)]
  BY <1>7, <1>10
<1> QED BY <1>8, <1>9, <1>11 DEF path

\* The empty word reports the patterns of the state it is read in.
LEMMA EmptyWord ==
  ASSUME NEW p \in ProgramType, ValidParts(p)
  PROVE  \E w \in [1 .. 0 -> 0 .. p.classes - 1] :
           \A s \in State(p) : Reports(p, s, w) = PatternsOf(p, s)
<1> DEFINE w == [i \in 1 .. 0 |-> 0]
<1>1. PICK k \in Nat : k = 0
  OBVIOUS
<1>2. w \in [1 .. k -> 0 .. p.classes - 1]
  BY <1>1
<1> HIDE DEF w
<1>3. Len(w) = 0
  BY <1>1, <1>2, WordFacts
<1>4. ASSUME NEW s \in State(p) PROVE Path(p, s, w)[0] = s
  BY <1>2, PathIs
<1> QED BY <1>1, <1>2, <1>3, <1>4 DEF Reports

\* A word that begins with b leads along the path of the rest from the state
\* after b.
LEMMA PathAfterByte ==
  ASSUME NEW p \in ProgramType, ValidParts(p), NEW s \in State(p), NEW b \in 0 .. p.classes - 1,
         NEW k \in Nat, NEW w \in [1 .. k -> 0 .. p.classes - 1]
  PROVE  LET v == [i \in 1 .. k + 1 |-> IF i = 1 THEN b ELSE w[i - 1]]
         IN  /\ v \in [1 .. k + 1 -> 0 .. p.classes - 1]
             /\ Reports(p, s, v) = Reports(p, Step(p, s, b), w)
<1> DEFINE C == 0 .. p.classes - 1
           v == [i \in 1 .. k + 1 |-> IF i = 1 THEN b ELSE w[i - 1]]
           t == Step(p, s, b)
           long == Path(p, s, v)
           short == Path(p, t, w)
<1>1. v \in [1 .. k + 1 -> C] /\ k + 1 \in Nat
  <2>1. \A i \in 1 .. k + 1 : i # 1 => i - 1 \in 1 .. k
    OBVIOUS
  <2> QED BY <2>1
<1>2. v[1] = b /\ \A i \in 1 .. k : v[i + 1] = w[i]
  OBVIOUS
<1> HIDE DEF v
<1>3. t \in State(p)
  BY StepType
<1>4. /\ long[0] = s
      /\ \A n \in 0 .. (k + 1) - 1 : long[n + 1] = Step(p, long[n], v[n + 1])
  BY <1>1, PathIs
<1>5. /\ short[0] = t
      /\ \A n \in 0 .. k - 1 : short[n + 1] = Step(p, short[n], w[n + 1])
  BY <1>3, PathIs
<1> HIDE DEF long, short, t
<1> DEFINE late == [n \in 0 .. k |-> long[n + 1]]
<1>6. late[0] = short[0]
  <2>1. 0 \in 0 .. (k + 1) - 1 /\ 0 \in 0 .. k /\ 0 + 1 = 1
    OBVIOUS
  <2>2. long[1] = t
    BY <1>2, <1>4, <2>1 DEF t
  <2> QED BY <1>5, <2>1, <2>2
<1>7. ASSUME NEW n \in 0 .. k - 1, late[n] = short[n] PROVE late[n + 1] = short[n + 1]
  <2>1. n + 1 \in 0 .. (k + 1) - 1 /\ n + 1 \in 1 .. k /\ n \in 0 .. k /\ n + 1 \in 0 .. k
    OBVIOUS
  <2>2. late[n + 1] = long[(n + 1) + 1] /\ late[n] = long[n + 1]
    BY <2>1
  <2>3. long[(n + 1) + 1] = Step(p, long[n + 1], v[(n + 1) + 1])
    BY <1>4, <2>1
  <2>4. v[(n + 1) + 1] = w[n + 1]
    BY <1>2, <2>1
  <2> QED BY <1>5, <1>7, <2>2, <2>3, <2>4
<1> HIDE DEF late
<1>8. \A n \in 0 .. k : late[n] = short[n]
  BY <1>6, <1>7, SameRecursion
<1>9. long[k + 1] = short[k]
  BY <1>8 DEF late
<1>10. Len(v) = k + 1 /\ Len(w) = k
  BY <1>1, WordFacts
<1> QED BY <1>1, <1>9, <1>10 DEF Reports, long, short, t, v

\* A state of a table from_parts accepts has at most one pattern, PatternOf.
LEMMA PatternsAre ==
  ASSUME table \in Tables, ValidParts(table), NEW s
  PROVE  /\ PatternsOf(table, s) = IF PatternOf(s) = NoPattern THEN {} ELSE {PatternOf(s)}
         /\ \A i \in DOMAIN table.accepts : table.accepts[i][1] = s => PatternOf(s) = table.accepts[i][2]
         /\ PatternOf(s) = NoPattern \/ PatternOf(s) \in Word
<1> DEFINE E == {i \in DOMAIN table.accepts : table.accepts[i][1] = s}
<1>1. PatternsOf(table, s) = {table.accepts[i][2] : i \in E}
  BY DEF PatternsOf
<1>2. PatternOf(s) = IF E = {} THEN NoPattern ELSE table.accepts[Max(E)][2]
  BY DEF PatternOf
<1>3. \A i, j \in E : i = j
  BY DEF ValidParts
<1>4. \A i \in E : i \in Int /\ table.accepts[i][2] \in Word /\ table.accepts[i][2] # NoPattern
  BY TableFacts DEF NoPattern, Word
<1>5. \A i \in DOMAIN table.accepts : table.accepts[i][1] = s <=> i \in E
  OBVIOUS
<1> HIDE DEF E
<1>6. CASE E = {}
  BY <1>1, <1>2, <1>5, <1>6
<1>7. CASE E # {}
  <2>1. PICK i : i \in E
    BY <1>7
  <2>2. E = {i}
    BY <1>3, <2>1
  <2>3. Max(E) = i
    BY <1>4, <2>1, <2>2 DEF Max
  <2>4. PatternOf(s) = table.accepts[i][2]
    BY <1>2, <1>7, <2>3
  <2> QED BY <1>1, <1>4, <1>5, <2>1, <2>2, <2>4
<1> QED BY <1>6, <1>7

\* The partition by patterns respects them, and the empty word separates it.
LEMMA InitialRefining ==
  ASSUME table \in Tables, table.states > 1,
         NEW part, NEW accepting, accepting = {s \in State(table) : PatternOf(s) # NoPattern},
         part = [s \in State(table) |-> IF s \in accepting THEN InitialClasses(accepting)[s] + 1 ELSE 0]
  PROVE  part \in [State(table) -> Nat] /\ Respects(part) /\ Separates(part)
<1> DEFINE f == [s \in accepting |-> PatternOf(s)]
<1>1. DOMAIN f = accepting /\ \A s \in accepting : f[s] = PatternOf(s)
  OBVIOUS
<1>2. IsFiniteSet(accepting) /\ accepting \subseteq Nat /\ accepting \subseteq State(table)
  <2>1. accepting \in SUBSET State(table)
    OBVIOUS
  <2> QED BY <2>1, TableFacts, FS_Subset
<1>3. InitialClasses(accepting) = Numbered(f)
  BY DEF InitialClasses
<1> HIDE DEF f
<1>4. PICK n \in Nat :
           /\ Numbered(f) \in [accepting -> 0 .. n - 1]
           /\ \A s, t \in accepting : Numbered(f)[s] = Numbered(f)[t] <=> f[s] = f[t]
  BY <1>1, <1>2, NumberedIs
<1>5. \A s \in accepting : part[s] \in Nat \ {0} /\ part[s] = Numbered(f)[s] + 1
  BY <1>2, <1>3, <1>4
<1>6. \A s \in State(table) \ accepting : part[s] = 0 /\ PatternOf(s) = NoPattern
  OBVIOUS
<1>7. part \in [State(table) -> Nat]
  BY <1>5, <1>6
<1>8. \A s \in accepting : PatternOf(s) # NoPattern /\ Numbered(f)[s] \in Nat
  BY <1>4
<1>9. ASSUME NEW s \in State(table), NEW t \in State(table)
      PROVE  part[s] = part[t] <=> PatternOf(s) = PatternOf(t)
  <2>1. CASE s \in accepting /\ t \in accepting
    BY <1>1, <1>4, <1>5, <1>8, <2>1
  <2>2. CASE s \notin accepting \/ t \notin accepting
    BY <1>5, <1>6, <1>8, <2>2
  <2> QED BY <2>1, <2>2
<1>10. Respects(part)
  BY <1>9 DEF Respects
<1>11. Separates(part)
  <2> SUFFICES ASSUME ValidParts(table), NEW s \in State(table), NEW t \in State(table), part[s] # part[t]
               PROVE  \E w \in Words(Cardinality(ClassesOf(part)) - 1) : Reports(table, s, w) # Reports(table, t, w)
    BY DEF Separates
  <2>1. table \in ProgramType
    BY TableFacts
  <2>2. PICK w \in [1 .. 0 -> 0 .. table.classes - 1] :
          \A u \in State(table) : Reports(table, u, w) = PatternsOf(table, u)
    BY <2>1, EmptyWord
  <2>3. Reports(table, s, w) = PatternsOf(table, s) /\ Reports(table, t, w) = PatternsOf(table, t)
    BY <2>2
  <2>4. PatternsOf(table, s) # PatternsOf(table, t)
    <3>1. PatternOf(s) # PatternOf(t)
      BY <1>9
    <3>2. \A u \in {s, t} : PatternsOf(table, u) = IF PatternOf(u) = NoPattern THEN {} ELSE {PatternOf(u)}
      BY PatternsAre
    <3> QED BY <3>1, <3>2
  <2>5. w \in Words(Cardinality(ClassesOf(part)) - 1)
    <3>1. IsFiniteSet(ClassesOf(part)) /\ ClassesOf(part) # {}
      <4>1. IsFiniteSet(State(table))
        BY TableFacts
      <4>2. IsFiniteSet({part[u] : u \in State(table)})
        BY <4>1, ImageFinite
      <4>3. part[s] \in {part[u] : u \in State(table)}
        OBVIOUS
      <4> QED BY <4>2, <4>3 DEF ClassesOf
    <3>2. Cardinality(ClassesOf(part)) \in Nat \ {0}
      BY <3>1, FS_CardinalityType, FS_EmptySet
    <3>3. 0 \in 0 .. Cardinality(ClassesOf(part)) - 1
      BY <3>2
    <3> QED BY <3>3, WordsAre
  <2> QED BY <2>3, <2>4, <2>5
<1> QED BY <1>7, <1>10, <1>11

\* In a table without flags, the class of a target is the class of the step.
LEMMA TargetClassIs ==
  ASSUME table \in Tables, ValidParts(table), Unflagged, partition \in [State(table) -> Nat],
         NEW s \in State(table), NEW b \in 0 .. table.classes - 1
  PROVE  /\ Step(table, s, b) \in State(table)
         /\ TargetClass(s, b) = partition[Step(table, s, b)]
<1> DEFINE target == table.trans[s * table.classes + b + 1]
<1>1. table \in ProgramType
  BY TableFacts
<1>2. s * table.classes + b + 1 \in DOMAIN table.trans /\ Step(table, s, b) \in State(table)
  BY <1>1, StepType
<1>3. target < Bit31 /\ target \in Word
  BY <1>2, TableFacts DEF Unflagged
<1> HIDE DEF target
<1>4. Mask(target) = target
  BY <1>3, Bit31Assumption DEF Mask, Word, U32
<1>5. Step(table, s, b) = target
  BY <1>4 DEF Step, target
<1>6. target < table.states
  BY <1>2, <1>5, TableFacts
<1>7. TargetClass(s, b) = IF target < table.states THEN partition[target] ELSE 0
  BY DEF TargetClass, target
<1> QED BY <1>2, <1>5, <1>6, <1>7

\* A round goes from a partition of one kind to another: it splits classes only
\* between states whose targets a word tells apart, and then there are more classes.
LEMMA RoundRefines ==
  ASSUME table \in Tables, Refining
  PROVE  /\ NewPartition \in [State(table) -> Nat]
         /\ Respects(NewPartition) /\ Separates(NewPartition)
<1> DEFINE S == State(table)
           Old == ClassesOf(partition)
           New == ClassesOf(NewPartition)
<1>1. NewPartition \in [S -> Nat]
  BY RoundIs
<1>2. \A s, t \in S : NewPartition[s] = NewPartition[t] =>
        /\ partition[s] = partition[t]
        /\ \A b \in 0 .. table.classes - 1 : TargetClass(s, b) = TargetClass(t, b)
  BY RoundIs
<1>3. \A s, t \in S : partition[s] = partition[t] /\ NewPartition[s] # NewPartition[t] =>
        \E b \in 0 .. table.classes - 1 : TargetClass(s, b) # TargetClass(t, b)
  BY RoundIs
<1>4. Respects(NewPartition)
  BY <1>2 DEF Respects, Refining
<1>5. IsFiniteSet(S) /\ S \subseteq Nat
  BY TableFacts
<1>6. IsFiniteSet(New) /\ Cardinality(New) \in Nat /\ Cardinality(Old) \in Nat
  BY <1>5, ImageFinite DEF ClassesOf
\* The old class of the states of a new class.
<1> DEFINE old == [c \in New |-> partition[CHOOSE s \in S : NewPartition[s] = c]]
<1>7. \A s \in S : NewPartition[s] \in New /\ partition[s] \in Old
  BY DEF ClassesOf
<1>8. ASSUME NEW s \in S PROVE old[NewPartition[s]] = partition[s]
  <2> DEFINE u == CHOOSE u \in S : NewPartition[u] = NewPartition[s]
  <2>1. u \in S /\ NewPartition[u] = NewPartition[s]
    OBVIOUS
  <2>2. old[NewPartition[s]] = partition[u]
    BY <1>7
  <2> HIDE DEF u
  <2> QED BY <1>2, <2>1, <2>2
<1>9. \A c \in New : \E s \in S : NewPartition[s] = c
  BY DEF ClassesOf
<1>10. \A c \in Old : \E s \in S : partition[s] = c
  BY DEF ClassesOf
<1>11. old \in Surjection(New, Old)
  <2>1. \A c \in New : old[c] \in Old
    BY <1>7, <1>8, <1>9
  <2>2. old \in [New -> Old]
    BY <2>1
  <2> HIDE DEF old, New, Old
  <2>3. \A c \in Old : \E d \in New : old[d] = c
    BY <1>7, <1>8, <1>10
  <2> QED BY <2>2, <2>3 DEF Surjection
<1> HIDE DEF old, New, Old
<1>12. /\ Cardinality(Old) <= Cardinality(New)
       /\ Cardinality(Old) = Cardinality(New) => old \in Injection(New, Old)
  BY <1>6, <1>11, FS_Surjection
<1>13. ASSUME NEW s \in S, NEW t \in S, partition[s] = partition[t],
              NewPartition[s] # NewPartition[t]
       PROVE  Cardinality(Old) < Cardinality(New)
  <2>1. old[NewPartition[s]] = old[NewPartition[t]]
    BY <1>8, <1>13
  <2>2. old \notin Injection(New, Old)
    BY <1>7, <1>13, <2>1 DEF Injection, IsInjective
  <2> QED BY <1>6, <1>12, <2>2
<1>14. Separates(NewPartition)
  <2> SUFFICES ASSUME ValidParts(table), Unflagged, NEW s \in S, NEW t \in S, NewPartition[s] # NewPartition[t]
               PROVE  \E w \in Words(Cardinality(New) - 1) : Reports(table, s, w) # Reports(table, t, w)
    BY DEF Separates, New
  <2>0. \A u, v \in S : partition[u] # partition[v] =>
          \E w \in Words(Cardinality(Old) - 1) : Reports(table, u, w) # Reports(table, v, w)
    BY DEF Refining, Separates, Old
  <2>1. CASE partition[s] # partition[t]
    <3>1. PICK w \in Words(Cardinality(Old) - 1) : Reports(table, s, w) # Reports(table, t, w)
      BY <2>0, <2>1
    <3>2. PICK k \in 0 .. Cardinality(Old) - 1 : w \in [1 .. k -> 0 .. table.classes - 1]
      BY WordsAre
    <3>3. k \in 0 .. Cardinality(New) - 1
      BY <1>6, <1>12
    <3>4. w \in Words(Cardinality(New) - 1)
      BY <3>2, <3>3, WordsAre
    <3> QED BY <3>1, <3>4
  <2>2. CASE partition[s] = partition[t]
    <3>1. PICK b \in 0 .. table.classes - 1 : TargetClass(s, b) # TargetClass(t, b)
      BY <1>3, <2>2
    <3> DEFINE ss == Step(table, s, b)
               tt == Step(table, t, b)
    <3>2. ss \in S /\ tt \in S /\ partition[ss] # partition[tt]
      BY <3>1, TargetClassIs DEF Refining
    <3>3. PICK w \in Words(Cardinality(Old) - 1) : Reports(table, ss, w) # Reports(table, tt, w)
      BY <2>0, <3>2
    <3>4. PICK k \in 0 .. Cardinality(Old) - 1 : w \in [1 .. k -> 0 .. table.classes - 1]
      BY WordsAre
    <3> DEFINE v == [i \in 1 .. k + 1 |-> IF i = 1 THEN b ELSE w[i - 1]]
    <3>5. table \in ProgramType /\ k \in Nat
      BY <1>6, TableFacts
    <3>6. /\ v \in [1 .. k + 1 -> 0 .. table.classes - 1]
          /\ Reports(table, s, v) = Reports(table, ss, w) /\ Reports(table, t, v) = Reports(table, tt, w)
      BY <3>4, <3>5, PathAfterByte
    <3> HIDE DEF v, ss, tt
    <3>7. k + 1 \in 0 .. Cardinality(New) - 1
      BY <1>6, <1>13, <2>2
    <3>8. v \in Words(Cardinality(New) - 1)
      BY <3>6, <3>7, WordsAre
    <3> QED BY <3>3, <3>6, <3>8
  <2> QED BY <2>1, <2>2
<1> QED BY <1>1, <1>4, <1>14

------------------------------------------------------------------------------
(***************************************************************************)
(* The invariant.                                                          *)
(***************************************************************************)

\* What is said of the table and the partition depends on nothing else.
LEMMA SameData ==
  ASSUME UNCHANGED <<table, partition, numClasses>>
  PROVE  /\ Refining' <=> Refining
         /\ Stable' <=> Stable
         /\ Quotient' = Quotient
         /\ ValidParts(table)' <=> ValidParts(table)
         /\ State(table)' = State(table)
BY DEF Refining, Stable, Quotient, Respects, Separates, ClassesOf, Words, Reports, Path,
   PatternsOf,
       Target, PatternOf, Unflagged, OutOfRange, NewPartition, NewCount, Signature, TargetClass,
       MappedAccepts, State, ValidParts, Numbered

\* What is said of a table and a partition stays true of them.
LEMMA SameTable ==
  ASSUME UNCHANGED table, NEW part, part = partition'
  PROVE  /\ State(table)' = State(table)
         /\ Respects(part) /\ Separates(part) => Respects(partition)' /\ Separates(partition)'
<1>1. State(table)' = State(table)
  BY DEF State
<1>2. Respects(part)' <=> Respects(part)
  BY DEF Respects, PatternOf, State
<1>3. Separates(part)' <=> Separates(part)
  BY DEF Separates, ClassesOf, Words, Reports, Path, PatternsOf, Target, Unflagged, State,
     ValidParts
<1>4. Respects(partition)' <=> Respects(part)'
  BY DEF Respects
<1>5. Separates(partition)' <=> Separates(part)'
  BY DEF Separates, ClassesOf
<1> QED BY <1>1, <1>2, <1>3, <1>4, <1>5

\* The invariant holds before the partition is made.
LEMMA InitIInv == Init => IInv
BY DEF Init, IInv, NoTable

\* Every action preserves it.
LEMMA NextIInv == IInv /\ [Next]_vars => IInv'
<1> SUFFICES ASSUME IInv, [Next]_vars PROVE IInv'
  OBVIOUS
<1>1. table \in Tables /\ table' = table
  BY DEF IInv, Next, vars, TooSmall, InitialPartition, RefinePanics, Refine, Round, BuildPanics,
     Build
<1>2. CASE TooSmall
  <2>1. phase' = "done" /\ result' = NoTable
    BY <1>2 DEF TooSmall, IInv
  <2> QED BY <1>1, <2>1 DEF IInv
<1>3. CASE InitialPartition
  <2> DEFINE accepting == {s \in State(table) : PatternOf(s) # NoPattern}
  <2>1. /\ table.states > 1 /\ phase' = "refine" /\ result' = NoTable
        /\ partition' = [s \in State(table) |->
             IF s \in accepting THEN InitialClasses(accepting)[s] + 1 ELSE 0]
    BY <1>3 DEF InitialPartition, IInv
  <2>2. PICK part : part = partition'
    OBVIOUS
  <2>3. part \in [State(table) -> Nat] /\ Respects(part) /\ Separates(part)
    BY <1>1, <2>1, <2>2, InitialRefining
  <2>4. Refining'
    <3>1. State(table)' = State(table) /\ Respects(partition)' /\ Separates(partition)'
      BY <1>1, <2>2, <2>3, SameTable
    <3> QED BY <1>1, <2>1, <2>2, <2>3, <3>1 DEF Refining
  <2> QED BY <1>1, <2>1, <2>4 DEF IInv
<1>4. CASE RefinePanics
  <2>1. phase' = "panic" /\ result' = NoTable /\ UNCHANGED <<table, partition, numClasses>>
    BY <1>4 DEF RefinePanics, IInv
  <2>2. ~ ValidParts(table)
    <3>1. table.states \in Nat /\ table.classes \in Nat
      BY <1>1, TableFacts
    <3> QED BY <1>4, <3>1 DEF RefinePanics, OutOfRange, ValidParts
  <2>3. ~ ValidParts(table)'
    BY <2>1, <2>2, SameData
  <2> QED BY <1>1, <2>1, <2>3 DEF IInv
<1>5. CASE Refine
  <2>1. phase = "refine" /\ ~ OutOfRange /\ result' = NoTable /\ Refining
    BY <1>5 DEF Refine, Round, IInv
  <2>2. CASE NewCount # numClasses \/ NewPartition # partition
    <3>1. partition' = NewPartition /\ phase' = "refine"
      BY <1>5, <2>1, <2>2 DEF Refine, Round
    <3>2. PICK part : part = NewPartition
      OBVIOUS
    <3>3. part \in [State(table) -> Nat] /\ Respects(part) /\ Separates(part)
      BY <1>1, <2>1, <3>2, RoundRefines
    <3>4. State(table)' = State(table) /\ Respects(partition)' /\ Separates(partition)'
      BY <1>1, <3>1, <3>2, <3>3, SameTable
    <3>5. Refining'
      BY <1>1, <2>1, <3>1, <3>2, <3>3, <3>4 DEF Refining
    <3> QED BY <1>1, <2>1, <3>1, <3>5 DEF IInv
  <2>3. CASE ~ (NewCount # numClasses \/ NewPartition # partition)
    <3>1. UNCHANGED <<table, partition, numClasses>> /\ phase' = "build"
      BY <1>1, <1>5, <2>1, <2>3 DEF Refine, Round
    <3>2. Stable
      BY <2>1, <2>3 DEF Stable
    <3>3. Refining' /\ Stable'
      BY <2>1, <3>1, <3>2, SameData
    <3> QED BY <1>1, <2>1, <3>1, <3>3 DEF IInv
  <2> QED BY <2>2, <2>3
<1>6. CASE BuildPanics
  <2>1. phase' = "panic" /\ result' = NoTable /\ UNCHANGED <<table, partition, numClasses>>
    BY <1>6 DEF BuildPanics, IInv
  <2>2. ~ ValidParts(table)
    <3>1. PICK i \in DOMAIN table.accepts : table.accepts[i][1] >= table.states
      BY <1>6 DEF BuildPanics
    <3>2. table.states \in Nat /\ table.accepts[i][1] \in Nat
      BY <1>1, TableFacts DEF Word
    <3> QED BY <3>1, <3>2 DEF ValidParts
  <2>3. ~ ValidParts(table)'
    BY <2>1, <2>2, SameData
  <2> QED BY <1>1, <2>1, <2>3 DEF IInv
<1>7. CASE Build
  <2>1. /\ UNCHANGED <<table, partition, numClasses>> /\ phase = "build" /\ phase' = "done"
        /\ Refining /\ Stable /\ result = NoTable
    BY <1>7 DEF Build, IInv
  <2>2. Refining' /\ Stable' /\ Quotient' = Quotient
    BY <2>1, SameData
  <2>3. result' = NoTable \/ (numClasses < table.states /\ result' = Quotient)
    <3>1. numClasses \in Nat /\ table.states \in Nat
      BY <1>1, <2>1, RoundIs, TableFacts DEF Stable
    <3> QED BY <1>7, <2>1, <3>1 DEF Build, Quotient
  <2>4. result' = NoTable \/ (numClasses' < table.states' /\ result' = Quotient')
    BY <2>1, <2>2, <2>3
  <2> QED BY <1>1, <2>1, <2>2, <2>4 DEF IInv
<1>8. CASE UNCHANGED vars
  <2>1. UNCHANGED <<table, partition, numClasses>> /\ phase' = phase /\ result' = result
    BY <1>8 DEF vars
  <2> HIDE DEF Quotient, Refining, Stable
  <2>2. /\ (Refining' <=> Refining) /\ (Stable' <=> Stable) /\ Quotient' = Quotient
        /\ ValidParts(table)' <=> ValidParts(table)
    BY <2>1, SameData
  <2> QED BY <1>1, <2>1, <2>2 DEF IInv
<1> QED BY <1>2, <1>3, <1>4, <1>5, <1>6, <1>7, <1>8 DEF Next

\* So it holds throughout.
LEMMA Invariant == Spec => []IInv
BY InitIInv, NextIInv, PTL DEF Spec

\* minimize panics on no table that from_parts accepts: neither the rows it reads
\* nor the classes of the accept entries are ever out of range there.
THEOREM ValidTablesNeverPanic == Spec => []ValidNeverPanics
<1>1. IInv => ValidNeverPanics
  BY DEF IInv, ValidNeverPanics
<1> QED BY <1>1, Invariant, PTL

\* A round of the loop only splits classes: states it leaves together were
\* together before, since the signature begins with the class.
THEOREM RoundsOnlySplit == Spec => OnlySplits
<1> DEFINE Splits ==
      phase = "refine" =>
        \A s, t \in State(table) : partition'[s] = partition'[t] => partition[s] = partition[t]
<1>1. ASSUME IInv, [Next]_vars PROVE Splits
  <2> SUFFICES ASSUME phase = "refine", partition' # partition PROVE Splits
    OBVIOUS
  <2>1. partition' = NewPartition
    BY <1>1 DEF Next, vars, TooSmall, InitialPartition, RefinePanics, Refine, Round, BuildPanics,
       Build
  <2>2. table \in Tables
    BY <1>1 DEF IInv
  <2> QED BY <2>1, <2>2, RoundIs
<1>2. [][Splits]_vars <=> OnlySplits
  BY PTL DEF OnlySplits
<1> HIDE DEF Splits
<1> QED BY <1>1, <1>2, Invariant, PTL DEF Spec

------------------------------------------------------------------------------
(***************************************************************************)
(* The minimized table.                                                    *)
(***************************************************************************)

\* The accept entries of the minimized table are those of the table with classes
\* for states, each once.
LEMMA MappedAre ==
  ASSUME table \in Tables, ValidParts(table), partition \in [State(table) -> Nat]
  PROVE  LET mapped(i) == <<partition[table.accepts[i][1]], table.accepts[i][2]>>
         IN  /\ MappedAccepts \in Seq(Nat \X Word)
             /\ \A k \in DOMAIN MappedAccepts : \E i \in DOMAIN table.accepts : MappedAccepts[k] = mapped(i)
             /\ \A i \in DOMAIN table.accepts : \E k \in DOMAIN MappedAccepts : MappedAccepts[k] = mapped(i)
             /\ \A j, k \in DOMAIN MappedAccepts : MappedAccepts[j] = MappedAccepts[k] => j = k
<1> DEFINE D == DOMAIN table.accepts
           mapped(i) == <<partition[table.accepts[i][1]], table.accepts[i][2]>>
           kept == {i \in D : \A j \in 1 .. i - 1 : mapped(j) # mapped(i)}
           N == Cardinality(kept)
           pick(k) == CHOOSE i \in kept : Cardinality({j \in kept : j <= i}) = k
           m == MappedAccepts
<1>1. m = [k \in 1 .. N |-> mapped(pick(k))]
  BY DEF MappedAccepts
<1>2. D = 1 .. Len(table.accepts) /\ Len(table.accepts) \in Nat
  BY TableFacts
<1>3. \A i \in D : mapped(i) \in Nat \X Word
  <2> SUFFICES ASSUME NEW i \in D PROVE mapped(i) \in Nat \X Word
    OBVIOUS
  <2>1. table.accepts[i] \in Word \X Word /\ table.accepts[i][1] < table.states
    BY TableFacts DEF ValidParts
  <2>2. table.accepts[i][1] \in State(table)
    BY <2>1, TableFacts DEF Word
  <2> QED BY <2>1, <2>2
<1>4. kept \subseteq Nat /\ IsFiniteSet(kept) /\ kept \subseteq D
  <2>1. kept \in SUBSET (1 .. Len(table.accepts))
    BY <1>2
  <2>2. IsFiniteSet(1 .. Len(table.accepts))
    BY <1>2, FS_Interval
  <2> HIDE DEF kept
  <2> QED BY <1>2, <2>1, <2>2, FS_Subset
<1>5. ASSUME NEW i \in D PROVE \E j \in kept : mapped(j) = mapped(i)
  <2> DEFINE T == {j \in D : mapped(j) = mapped(i)}
  <2>1. T \subseteq Nat /\ T # {}
    BY <1>2
  <2>2. PICK j \in T : \A k \in T : j <= k
    <3> HIDE DEF T
    <3> QED BY <2>1, LeastElement
  <2>3. \A k \in 1 .. j - 1 : k \in D /\ ~ j <= k
    BY <1>2
  <2>4. \A k \in 1 .. j - 1 : mapped(k) # mapped(j)
    BY <2>2, <2>3
  <2> QED BY <2>4
<1>6. \A i, j \in kept : mapped(i) = mapped(j) => i = j
  <2> SUFFICES ASSUME NEW i \in kept, NEW j \in kept, i < j PROVE mapped(i) # mapped(j)
    BY <1>2, <1>4
  <2>1. i \in 1 .. j - 1
    BY <1>2
  <2> QED BY <2>1
<1> HIDE DEF mapped, kept
<1>7. /\ N \in Nat
      /\ \A i \in kept : Rank(kept, i) \in 1 .. N
      /\ \A i, j \in kept : Rank(kept, i) = Rank(kept, j) => i = j
      /\ \A k \in 1 .. N : \E i \in kept : Rank(kept, i) = k
  BY <1>4, RanksNumber
<1>8. \A k \in 1 .. N : pick(k) \in kept /\ Rank(kept, pick(k)) = k
  <2> SUFFICES ASSUME NEW k \in 1 .. N PROVE pick(k) \in kept /\ Rank(kept, pick(k)) = k
    OBVIOUS
  <2>1. \E i \in kept : Cardinality({j \in kept : j <= i}) = k
    BY <1>7 DEF Rank
  <2> QED BY <2>1 DEF Rank
<1> HIDE DEF pick, m, N
<1>9. DOMAIN m = 1 .. N /\ \A k \in 1 .. N : m[k] = mapped(pick(k))
  BY <1>1
<1>10. m \in Seq(Nat \X Word)
  <2>1. \A k \in 1 .. N : mapped(pick(k)) \in Nat \X Word
    BY <1>3, <1>4, <1>8
  <2>2. m \in [1 .. N -> Nat \X Word]
    BY <1>1, <2>1
  <2> QED BY <1>7, <2>2, FunctionIsSeq
<1>11. \A k \in 1 .. N : \E i \in D : m[k] = mapped(i)
  BY <1>4, <1>8, <1>9
<1>12. ASSUME NEW i \in D PROVE \E k \in 1 .. N : m[k] = mapped(i)
  <2>1. PICK j \in kept : mapped(j) = mapped(i)
    BY <1>5
  <2>2. Rank(kept, j) \in 1 .. N
    BY <1>7
  <2>3. pick(Rank(kept, j)) = j
    BY <1>7, <1>8, <2>2
  <2> QED BY <1>9, <2>1, <2>2, <2>3
<1>13. ASSUME NEW j \in 1 .. N, NEW k \in 1 .. N, m[j] = m[k] PROVE j = k
  <2>1. pick(j) = pick(k)
    BY <1>6, <1>8, <1>9, <1>13
  <2> QED BY <1>8, <2>1
<1> QED BY <1>9, <1>10, <1>11, <1>12, <1>13 DEF m, mapped

\* A program's patterns, told by AcceptStates and AcceptPattern.
LEMMA AcceptsAre ==
  ASSUME NEW p \in ProgramType, ValidParts(p), NEW s \in State(p)
  PROVE  /\ s \in AcceptStates(p) <=> PatternsOf(p, s) # {}
         /\ s \in AcceptStates(p) => PatternsOf(p, s) = {AcceptPattern(p)[s]}
<1> DEFINE E == {i \in DOMAIN p.accepts : p.accepts[i][1] = s}
<1>1. PatternsOf(p, s) = {p.accepts[i][2] : i \in E}
  BY DEF PatternsOf
<1>2. s \in AcceptStates(p) <=> E # {}
  BY DEF AcceptStates
<1>3. \A i, j \in E : i = j
  BY DEF ValidParts
<1>4. ASSUME s \in AcceptStates(p) PROVE PatternsOf(p, s) = {AcceptPattern(p)[s]}
  <2> DEFINE k == CHOOSE i \in DOMAIN p.accepts : p.accepts[i][1] = s
  <2>1. k \in E
    BY <1>2, <1>4
  <2>2. AcceptPattern(p)[s] = p.accepts[k][2]
    BY <1>4 DEF AcceptPattern
  <2> HIDE DEF k, E
  <2> QED BY <1>1, <1>3, <2>1, <2>2
<1>5. PatternsOf(p, s) # {} <=> E # {}
  BY <1>1
<1> QED BY <1>2, <1>4, <1>5

\* The minimized table is one from_parts accepts; its states are the classes, each
\* goes where the states of the class go and has their pattern.
LEMMA QuotientIs ==
  ASSUME table \in Tables, ValidParts(table), Refining, Stable, numClasses < table.states,
         NEW q, q = Quotient
  PROVE  /\ q \in ProgramType /\ ValidParts(q)
         /\ q.states = numClasses /\ q.classes = table.classes /\ q.lens = table.lens /\ q.links = <<>>
         /\ partition \in [State(table) -> State(q)] /\ partition[0] = 0
         /\ \A c \in State(q) : \E s \in State(table) : partition[s] = c
         /\ \A s \in State(table), b \in 0 .. table.classes - 1 :
              Step(q, partition[s], b) = TargetClass(s, b)
         /\ \A s \in State(table) : PatternsOf(q, partition[s]) = PatternsOf(table, s)
<1> DEFINE S == State(table)
           C == table.classes
           n == numClasses
           member(c) == Max({s \in S : partition[s] = c})
           cells == [i \in 1 .. n * C |-> TargetClass(member((i - 1) \div C), (i - 1) % C)]
<1>1. /\ table \in ProgramType /\ table.links = <<>>
      /\ table.states \in Nat /\ table.states <= Bit31 /\ table.states > 1
      /\ C \in Nat \ {0} /\ S = 0 .. table.states - 1 /\ IsFiniteSet(S) /\ S \subseteq Nat
      /\ table.accepts \in Seq(Word \X Word) /\ Bit31 \in Nat
  BY TableFacts, Bit31Assumption DEF Refining
<1>2. /\ n \in Nat /\ partition \in [S -> 0 .. n - 1] /\ partition[0] = 0
      /\ \A c \in 0 .. n - 1 : \E s \in S : partition[s] = c
      /\ \A s, t \in S : partition[s] = partition[t] =>
           \A b \in 0 .. C - 1 : TargetClass(s, b) = TargetClass(t, b)
  BY <1>1, RoundIs DEF Stable
<1>3. n > 0 /\ n < Bit31
  <2>1. partition[0] \in 0 .. n - 1
    BY <1>1, <1>2
  <2> QED BY <1>1, <1>2, <2>1
<1>4. q = [table EXCEPT !.states = n, !.trans = cells, !.accepts = MappedAccepts]
  BY DEF Quotient
<1> HIDE DEF cells
<1>5. /\ q.states = n /\ q.classes = C /\ q.lens = table.lens /\ q.links = <<>>
      /\ q.trans = cells /\ q.accepts = MappedAccepts
  BY <1>1, <1>4 DEF ProgramType
<1>6. State(q) = 0 .. n - 1
  BY <1>5 DEF State
<1>7. \A c \in 0 .. n - 1 : member(c) \in S /\ partition[member(c)] = c
  <2> SUFFICES ASSUME NEW c \in 0 .. n - 1 PROVE member(c) \in S /\ partition[member(c)] = c
    OBVIOUS
  <2> DEFINE T == {s \in S : partition[s] = c}
  <2>1. T # {} /\ T \subseteq S
    BY <1>2
  <2>2. Max(T) \in T
    <3> HIDE DEF T
    <3>1. T \subseteq 0 .. table.states /\ table.states \in Nat
      BY <1>1, <2>1
    <3> QED BY <2>1, <3>1, MaxIn
  <2> QED BY <2>2
<1> HIDE DEF member
<1>8. \A s \in S, b \in 0 .. C - 1 : TargetClass(s, b) \in 0 .. n - 1
  <2> SUFFICES ASSUME NEW s \in S, NEW b \in 0 .. C - 1 PROVE TargetClass(s, b) \in 0 .. n - 1
    OBVIOUS
  <2> DEFINE target == table.trans[s * C + b + 1]
  <2>1. target \in Word
    <3>1. s * C + b + 1 \in DOMAIN table.trans
      BY <1>1, StepType
    <3> QED BY <1>1, <3>1, TableFacts
  <2>2. TargetClass(s, b) = IF target < table.states THEN partition[target] ELSE 0
    BY DEF TargetClass
  <2> HIDE DEF target
  <2>3. target \in Nat
    BY <1>1, <2>1 DEF Word, U32
  <2>4. target < table.states => target \in S
    BY <1>1, <2>3
  <2> HIDE DEF S
  <2>5. target < table.states => partition[target] \in 0 .. n - 1
    BY <1>2, <2>4
  <2> QED BY <1>2, <1>3, <2>2, <2>5
<1>9. /\ \A i \in 1 .. n * C : cells[i] \in 0 .. n - 1
      /\ cells \in [1 .. n * C -> 0 .. n - 1]
  <2>1. ASSUME NEW i \in 1 .. n * C
        PROVE  TargetClass(member((i - 1) \div C), (i - 1) % C) \in 0 .. n - 1
    <3>1. (i - 1) \div C \in 0 .. n - 1 /\ (i - 1) % C \in 0 .. C - 1
      BY <1>1, <1>2, CellRow
    <3> QED BY <1>7, <1>8, <3>1
  <2> QED BY <2>1 DEF cells
<1>10. n * C \in Nat
  BY <1>1, <1>2
<1>11. cells \in Seq(0 .. n - 1) /\ Len(cells) = n * C
  BY <1>9, <1>10, FunctionIsSeq
<1>12. 0 .. n - 1 \subseteq Word
  BY <1>1, <1>2, <1>3 DEF Word, U32
<1>13. cells \in Seq(Word)
  <2>1. cells \in [1 .. n * C -> Word]
    BY <1>9, <1>12
  <2> QED BY <1>10, <2>1, FunctionIsSeq
<1>14. \A c \in 0 .. n - 1 : Mask(c) = c
  BY <1>1, <1>2, <1>3 DEF Mask
<1>15. ASSUME NEW s \in S, NEW b \in 0 .. C - 1
       PROVE  Step(q, partition[s], b) = TargetClass(s, b)
  <2>1. PICK c \in 0 .. n - 1 : c = partition[s]
    BY <1>2
  <2>2. /\ c * C + b + 1 \in 1 .. n * C
        /\ (c * C + b) \div C = c /\ (c * C + b) % C = b
    <3>1. PICK d \in Nat \ {0} : d = C
      BY <1>1
    <3>2. n \in Nat /\ b \in 0 .. d - 1
      BY <1>2, <3>1
    <3>3. /\ c * d + b + 1 \in 1 .. n * d
          /\ (c * d + b) \div d = c /\ (c * d + b) % d = b
      BY <3>2, CellIndex
    <3> QED BY <3>1, <3>3
  <2>3. PICK i \in 1 .. n * C : i = c * C + b + 1 /\ i - 1 = c * C + b
    BY <1>1, <2>2
  <2>4. cells[i] = TargetClass(member(c), b)
    BY <2>2, <2>3 DEF cells
  <2>5. TargetClass(member(c), b) = TargetClass(s, b)
    BY <1>2, <1>7, <2>1
  <2>6. Step(q, c, b) = Mask(cells[i])
    BY <1>5, <2>3 DEF Step
  <2> QED BY <1>8, <1>14, <2>1, <2>4, <2>5, <2>6
<1> DEFINE mapped(i) == <<partition[table.accepts[i][1]], table.accepts[i][2]>>
           D == DOMAIN table.accepts
           m == MappedAccepts
<1>16. /\ m \in Seq(Nat \X Word)
       /\ \A k \in DOMAIN m : \E i \in D : m[k] = mapped(i)
       /\ \A i \in D : \E k \in DOMAIN m : m[k] = mapped(i)
       /\ \A j, k \in DOMAIN m : m[j] = m[k] => j = k
  BY MappedAre DEF Refining
<1> HIDE DEF m
<1>17. \A i \in D : /\ table.accepts[i][1] \in S
                    /\ table.accepts[i][2] \in Word /\ table.accepts[i][2] < Len(table.lens)
  <2> SUFFICES ASSUME NEW i \in D PROVE /\ table.accepts[i][1] \in S
                                        /\ table.accepts[i][2] \in Word
                                        /\ table.accepts[i][2] < Len(table.lens)
    OBVIOUS
  <2>1. table.accepts[i] \in Word \X Word
    BY <1>1
  <2> QED BY <1>1, <2>1 DEF ValidParts, Word
<1>18. \A i \in D : mapped(i) \in (0 .. n - 1) \X Word
  BY <1>2, <1>17
<1>19. m \in Seq(Word \X Word) /\ \A k \in DOMAIN m : m[k] \in (0 .. n - 1) \X Word
  <2>1. ASSUME NEW k \in DOMAIN m PROVE m[k] \in (0 .. n - 1) \X Word
    <3>1. PICK i \in D : m[k] = mapped(i)
      BY <1>16
    <3> HIDE DEF mapped
    <3> QED BY <1>18, <3>1
  <2>2. Len(m) \in Nat /\ m \in [1 .. Len(m) -> Nat \X Word]
    BY <1>16
  <2>3. m \in [1 .. Len(m) -> Word \X Word]
    BY <1>12, <2>1, <2>2
  <2> QED BY <2>1, <2>2, <2>3, FunctionIsSeq
<1>20. q \in ProgramType
  BY <1>1, <1>2, <1>4, <1>13, <1>19 DEF ProgramType, m
\* Two entries for one class have the one pattern of its states.
<1>21. ASSUME NEW j \in DOMAIN m, NEW k \in DOMAIN m, m[j][1] = m[k][1] PROVE j = k
  <2>1. PICK i \in D : m[j] = mapped(i)
    BY <1>16
  <2>2. PICK l \in D : m[k] = mapped(l)
    BY <1>16
  <2>3. partition[table.accepts[i][1]] = partition[table.accepts[l][1]]
    BY <1>21, <2>1, <2>2
  <2>4. PatternOf(table.accepts[i][1]) = PatternOf(table.accepts[l][1])
    BY <1>17, <2>3 DEF Refining, Respects
  <2>5. table.accepts[i][2] = table.accepts[l][2]
    BY <2>4, PatternsAre
  <2> QED BY <1>16, <2>1, <2>2, <2>3, <2>5
<1>22. ValidParts(q)
  <2>1. ASSUME NEW k \in DOMAIN m PROVE m[k][1] < n /\ m[k][2] < Len(table.lens)
    <3>1. PICK i \in D : m[k] = mapped(i)
      BY <1>16
    <3>2. m[k][1] \in 0 .. n - 1
      BY <1>19
    <3>3. m[k][2] = table.accepts[i][2]
      BY <3>1
    <3> QED BY <1>2, <1>17, <3>2, <3>3
  <2>2. \A i \in DOMAIN cells : Mask(cells[i]) < n
    BY <1>2, <1>9, <1>11, <1>14
  <2> QED BY <1>1, <1>5, <1>11, <1>21, <2>1, <2>2 DEF ValidParts, m
<1>23. ASSUME NEW s \in S PROVE PatternsOf(q, partition[s]) = PatternsOf(table, s)
  <2>1. \A i \in D : partition[table.accepts[i][1]] = partition[s] => table.accepts[i][2] = PatternOf(s)
    <3> SUFFICES ASSUME NEW i \in D, partition[table.accepts[i][1]] = partition[s]
                 PROVE  table.accepts[i][2] = PatternOf(s)
      OBVIOUS
    <3>1. PatternOf(table.accepts[i][1]) = PatternOf(s)
      BY <1>17 DEF Refining, Respects
    <3> QED BY <3>1, PatternsAre
  <2>2. \A i \in D : partition[table.accepts[i][1]] = partition[s] =>
          PatternOf(s) # NoPattern /\ PatternsOf(table, s) = {PatternOf(s)}
    <3>1. \A i \in D : table.accepts[i][2] # NoPattern
      BY <1>17 DEF NoPattern, Word
    <3> QED BY <2>1, <3>1, PatternsAre
  <2>3. ASSUME NEW x \in PatternsOf(q, partition[s]) PROVE x \in PatternsOf(table, s)
    <3>1. PICK k \in DOMAIN m : m[k][1] = partition[s] /\ x = m[k][2]
      BY <1>5, <2>3 DEF PatternsOf, m
    <3>2. PICK i \in D : m[k] = mapped(i)
      BY <1>16
    <3> QED BY <2>1, <2>2, <3>1, <3>2
  <2>4. ASSUME NEW x \in PatternsOf(table, s) PROVE x \in PatternsOf(q, partition[s])
    <3>1. PICK i \in D : table.accepts[i][1] = s /\ x = table.accepts[i][2]
      BY <2>4 DEF PatternsOf
    <3>2. PICK k \in DOMAIN m : m[k] = mapped(i)
      BY <1>16
    <3>3. m[k][1] = partition[s] /\ m[k][2] = x
      BY <3>1, <3>2
    <3> QED BY <1>5, <3>3 DEF PatternsOf, m
  <2> QED BY <2>3, <2>4
<1> QED BY <1>2, <1>5, <1>6, <1>15, <1>20, <1>22, <1>23

------------------------------------------------------------------------------
(***************************************************************************)
(* The matches of the minimized table.                                     *)
(***************************************************************************)

\* The matches found depend only on those that end with each byte.
LEMMA SameFound ==
  ASSUME NEW p, NEW q, NEW w, Len(w) \in Nat,
         \A i \in 0 .. Len(w) - 1 : MatchesAt(p, w, i) = MatchesAt(q, w, i)
  PROVE  Found(p, w, Len(w)) = Found(q, w, Len(w))
<1> DEFINE n == Len(w)
           DefP(u) == [m \in 0 .. n |-> IF m = 0 THEN <<>> ELSE u[m - 1] \o MatchesAt(p, w, m - 1)]
           DefQ(u) == [m \in 0 .. n |-> IF m = 0 THEN <<>> ELSE u[m - 1] \o MatchesAt(q, w, m - 1)]
<1>1. ASSUME NEW u PROVE DefP(u) = DefQ(u)
  <2>1. \A m \in 0 .. n : m # 0 => m - 1 \in 0 .. n - 1
    OBVIOUS
  <2> QED BY <2>1
<1>2. Found(p, w, n) = (CHOOSE u : u = DefP(u))[n] /\ Found(q, w, n) = (CHOOSE u : u = DefQ(u))[n]
  BY DEF Found, MatchesAt
<1>3. (CHOOSE u : u = DefP(u)) = (CHOOSE u : u = DefQ(u))
  <2> HIDE DEF DefP, DefQ
  <2> QED BY <1>1, Zenon
<1> QED BY <1>2, <1>3

\* A scan of the minimized table goes through the classes of the states that a
\* scan of the table goes through, and finds the same matches.
LEMMA QuotientFinds ==
  ASSUME table \in Tables, ValidParts(table), Unflagged,
         Refining, Stable, numClasses < table.states, NEW q, q = Quotient,
         NEW k \in Nat, NEW w \in [1 .. k -> 0 .. table.classes - 1]
  PROVE  Found(table, w, Len(w)) = Found(q, w, Len(w))
<1> DEFINE S == State(table)
           C == table.classes
           long == Walk(table, w)
           short == Walk(q, w)
<1>1. /\ table \in ProgramType /\ table.links = <<>> /\ table.states > 1 /\ table.states \in Nat
      /\ S = 0 .. table.states - 1 /\ partition \in [S -> Nat]
  BY TableFacts DEF Refining
<1>2. /\ q \in ProgramType /\ ValidParts(q) /\ q.classes = C /\ q.lens = table.lens /\ q.links = <<>>
      /\ partition \in [S -> State(q)] /\ partition[0] = 0
      /\ \A s \in S, b \in 0 .. C - 1 : Step(q, partition[s], b) = TargetClass(s, b)
      /\ \A s \in S : PatternsOf(q, partition[s]) = PatternsOf(table, s)
  BY QuotientIs
<1>3. Len(w) = k /\ \A n \in 0 .. k - 1 : w[n + 1] \in 0 .. C - 1
  BY WordFacts
<1>4. \A p, s, n : Target(p, w, s, n) = Step(p, s, w[n + 1])
  BY WordFacts
<1>5. 0 \in S /\ 0 \in State(q)
  BY <1>1, <1>2
<1> HIDE DEF S
<1>6. \A n \in 0 .. k - 1, s \in S : Target(table, w, s, n) \in S
  BY <1>1, <1>3, <1>4, StepType DEF S
<1>7. \A n \in 0 .. k - 1, c \in State(q) : Target(q, w, c, n) \in State(q)
  BY <1>2, <1>3, <1>4, StepType
<1>8. ASSUME NEW n \in 0 .. k - 1, NEW s \in S
      PROVE  Target(q, w, partition[s], n) = partition[Target(table, w, s, n)]
  <2>1. TargetClass(s, w[n + 1]) = partition[Step(table, s, w[n + 1])]
    BY <1>1, <1>3, TargetClassIs DEF S
  <2> QED BY <1>2, <1>3, <1>4, <2>1
<1>9. ASSUME NEW s \in S
      PROVE  /\ s \in AcceptStates(table) <=> partition[s] \in AcceptStates(q)
             /\ s \in AcceptStates(table) => AcceptPattern(q)[partition[s]] = AcceptPattern(table)[s]
  <2>1. /\ s \in AcceptStates(table) <=> PatternsOf(table, s) # {}
        /\ s \in AcceptStates(table) => PatternsOf(table, s) = {AcceptPattern(table)[s]}
    BY <1>1, AcceptsAre DEF S
  <2>2. /\ partition[s] \in AcceptStates(q) <=> PatternsOf(q, partition[s]) # {}
        /\ partition[s] \in AcceptStates(q) => PatternsOf(q, partition[s]) = {AcceptPattern(q)[partition[s]]}
    BY <1>2, AcceptsAre
  <2> QED BY <1>2, <2>1, <2>2
<1>10. /\ long \in [0 .. k -> S] /\ long[0] = 0
       /\ \A n \in 0 .. k - 1 :
            LET t == Target(table, w, long[n], n)
            IN  long[n + 1] = IF t \in AcceptStates(table) THEN 0 ELSE t
  BY <1>3, <1>5, <1>6, WalkOf DEF S
<1>11. /\ short[0] = 0
       /\ \A n \in 0 .. k - 1 :
            LET t == Target(q, w, short[n], n)
            IN  short[n + 1] = IF t \in AcceptStates(q) THEN 0 ELSE t
  BY <1>3, <1>5, <1>7, WalkOf
<1> HIDE DEF long, short
<1> DEFINE class == [n \in 0 .. k |-> partition[long[n]]]
<1>12. short[0] = class[0]
  BY <1>2, <1>10, <1>11
<1>13. ASSUME NEW n \in 0 .. k - 1, short[n] = class[n] PROVE short[n + 1] = class[n + 1]
  <2> DEFINE t == Target(table, w, long[n], n)
  <2>1. n \in 0 .. k /\ n + 1 \in 0 .. k
    OBVIOUS
  <2>2. long[n] \in S /\ t \in S
    BY <1>6, <1>10, <2>1
  <2>3. Target(q, w, short[n], n) = partition[t]
    BY <1>8, <1>13, <2>1, <2>2
  <2>4. long[n + 1] = IF t \in AcceptStates(table) THEN 0 ELSE t
    BY <1>10
  <2>5. short[n + 1] = IF partition[t] \in AcceptStates(q) THEN 0 ELSE partition[t]
    BY <1>11, <2>3
  <2> HIDE DEF t
  <2> QED BY <1>2, <1>9, <2>1, <2>2, <2>4, <2>5
<1> HIDE DEF class
<1>14. \A n \in 0 .. k : short[n] = class[n]
  BY <1>12, <1>13, SameRecursion
<1>15. ASSUME NEW i \in 0 .. k - 1 PROVE MatchesAt(table, w, i) = MatchesAt(q, w, i)
  <2> DEFINE t == Target(table, w, long[i], i)
             c == Target(q, w, short[i], i)
  <2>1. i \in 0 .. k
    OBVIOUS
  <2>2. long[i] \in S /\ t \in S /\ short[i] = partition[long[i]]
    BY <1>6, <1>10, <1>14, <2>1 DEF class
  <2>3. c = partition[t] /\ c \in State(q)
    BY <1>2, <1>8, <2>2
  <2>4. OutputsOf(table)[t] = <<t>> /\ OutputsOf(q)[c] = <<c>>
    BY <1>1, <1>2, <2>2, <2>3, OwnOutput DEF S
  <2>5. MatchesAt(table, w, i) = IF t \in AcceptStates(table)
                                 THEN [j \in DOMAIN <<t>> |-> PatternMatch(table, <<t>>[j], i)] ELSE <<>>
    BY <2>4 DEF MatchesAt, long
  <2>6. MatchesAt(q, w, i) = IF c \in AcceptStates(q)
                             THEN [j \in DOMAIN <<c>> |-> PatternMatch(q, <<c>>[j], i)] ELSE <<>>
    BY <2>4 DEF MatchesAt, short
  <2> HIDE DEF t, c
  <2>7. t \in AcceptStates(table) => PatternMatch(table, t, i) = PatternMatch(q, c, i)
    BY <1>2, <1>9, <2>2, <2>3 DEF PatternMatch
  <2>8. DOMAIN <<t>> = {1} /\ DOMAIN <<c>> = {1} /\ <<t>>[1] = t /\ <<c>>[1] = c
    OBVIOUS
  <2>9. t \in AcceptStates(table) <=> c \in AcceptStates(q)
    BY <1>9, <2>2, <2>3
  <2>10. t \in AcceptStates(table) =>
           [j \in DOMAIN <<t>> |-> PatternMatch(table, <<t>>[j], i)] =
           [j \in DOMAIN <<c>> |-> PatternMatch(q, <<c>>[j], i)]
    BY <2>7, <2>8
  <2> QED BY <2>5, <2>6, <2>9, <2>10
<1> QED BY <1>3, <1>15, SameFound

\* The minimized table is one from_parts accepts, has fewer states and finds the
\* same matches as the table, for every table without flags.
THEOREM MinimizedFindsTheSame == Spec => []MinimizedEquivalent
<1>1. IInv => MinimizedEquivalent
  <2> SUFFICES ASSUME IInv, Minimized
               PROVE  /\ ValidParts(result) /\ result.states < table.states
                      /\ Unflagged => SameMatches(table, result)
    BY DEF MinimizedEquivalent
  <2>1. /\ table \in Tables /\ ValidParts(table) /\ Refining /\ Stable
        /\ numClasses < table.states /\ result = Quotient
    BY DEF IInv, Minimized
  <2>2. ValidParts(result) /\ result.states < table.states
    BY <2>1, QuotientIs
  <2>3. ASSUME Unflagged PROVE SameMatches(table, result)
    <3> SUFFICES ASSUME NEW w \in Words(table.states + result.states - 1)
                 PROVE  Found(table, w, Len(w)) = Found(result, w, Len(w))
      BY DEF SameMatches
    <3>1. PICK k \in 0 .. table.states + result.states - 1 : w \in [1 .. k -> 0 .. table.classes - 1]
      BY WordsAre
    <3>2. k \in Nat
      OBVIOUS
    <3> QED BY <2>1, <2>3, <3>1, <3>2, QuotientFinds
  <2> QED BY <2>2, <2>3
<1> QED BY <1>1, Invariant, PTL

\* The same matches, in inputs of every length: the property above looks no
\* further than two automata of their sizes need to be told apart.
THEOREM MinimizedFindsTheSameAnywhere ==
  Spec => [](Minimized /\ Unflagged =>
               \A k \in Nat : \A w \in [1 .. k -> 0 .. table.classes - 1] :
                 Found(result, w, Len(w)) = Found(table, w, Len(w)))
<1> DEFINE Same == \A k \in Nat : \A w \in [1 .. k -> 0 .. table.classes - 1] :
                     Found(result, w, Len(w)) = Found(table, w, Len(w))
<1>1. IInv => (Minimized /\ Unflagged => Same)
  <2> SUFFICES ASSUME IInv, Minimized, Unflagged,
                      NEW k \in Nat, NEW w \in [1 .. k -> 0 .. table.classes - 1]
               PROVE  Found(result, w, Len(w)) = Found(table, w, Len(w))
    OBVIOUS
  <2>1. /\ table \in Tables /\ ValidParts(table) /\ Refining /\ Stable
        /\ numClasses < table.states /\ result = Quotient
    BY DEF IInv, Minimized
  <2> QED BY <2>1, QuotientFinds
<1> QED BY <1>1, Invariant, PTL

\* From a class the minimized table reports what the table does from its states.
LEMMA QuotientReports ==
  ASSUME table \in Tables, ValidParts(table), Unflagged,
         Refining, Stable, numClasses < table.states, NEW q, q = Quotient,
         NEW k \in Nat, NEW w \in [1 .. k -> 0 .. table.classes - 1], NEW s \in State(table)
  PROVE  Reports(q, partition[s], w) = Reports(table, s, w)
<1> DEFINE S == State(table)
           long == Path(table, s, w)
           short == Path(q, partition[s], w)
           class == [n \in 0 .. k |-> partition[long[n]]]
<1>1. table \in ProgramType /\ partition \in [S -> Nat]
  BY TableFacts DEF Refining
<1>2. /\ q \in ProgramType /\ ValidParts(q) /\ q.classes = table.classes
      /\ partition \in [S -> State(q)]
      /\ \A t \in S, b \in 0 .. table.classes - 1 : Step(q, partition[t], b) = TargetClass(t, b)
      /\ \A t \in S : PatternsOf(q, partition[t]) = PatternsOf(table, t)
  BY QuotientIs
<1>3. Len(w) = k /\ \A n \in 0 .. k - 1 : w[n + 1] \in 0 .. table.classes - 1
  BY WordFacts
<1>4. /\ long \in [0 .. k -> S] /\ long[0] = s
      /\ \A n \in 0 .. k - 1 : long[n + 1] = Step(table, long[n], w[n + 1])
  BY <1>1, PathIs
<1>5. /\ short[0] = partition[s]
      /\ \A n \in 0 .. k - 1 : short[n + 1] = Step(q, short[n], w[n + 1])
  BY <1>2, PathIs
<1> HIDE DEF long, short
<1>6. short[0] = class[0]
  BY <1>4, <1>5
<1>7. ASSUME NEW n \in 0 .. k - 1, short[n] = class[n] PROVE short[n + 1] = class[n + 1]
  <2>1. n \in 0 .. k /\ n + 1 \in 0 .. k
    OBVIOUS
  <2>2. long[n] \in S /\ short[n] = partition[long[n]]
    BY <1>4, <1>7, <2>1
  <2>3. short[n + 1] = TargetClass(long[n], w[n + 1])
    BY <1>2, <1>3, <1>5, <2>2
  <2>4. TargetClass(long[n], w[n + 1]) = partition[Step(table, long[n], w[n + 1])]
    BY <1>1, <1>3, <2>2, TargetClassIs
  <2> QED BY <1>4, <2>1, <2>3, <2>4
<1> HIDE DEF class
<1>8. \A n \in 0 .. k : short[n] = class[n]
  BY <1>6, <1>7, SameRecursion
<1>9. k \in 0 .. k /\ long[k] \in S /\ short[k] = partition[long[k]]
  BY <1>4, <1>8 DEF class
<1> QED BY <1>2, <1>3, <1>9 DEF Reports, long, short

\* No two states of the minimized table are equivalent: words as long as it has
\* states tell them apart.  For every table without flags.
THEOREM MinimizedIsMinimal == Spec => []NoTwoStatesEquivalent
<1>1. IInv => NoTwoStatesEquivalent
  <2> SUFFICES ASSUME IInv, Minimized, Unflagged, NEW c \in State(result), NEW d \in State(result), c # d
               PROVE  \E w \in Words(result.states) : Reports(result, c, w) # Reports(result, d, w)
    BY DEF NoTwoStatesEquivalent
  <2>1. /\ table \in Tables /\ ValidParts(table) /\ Refining /\ Stable
        /\ numClasses < table.states /\ result = Quotient
    BY DEF IInv, Minimized
  <2>2. /\ result.states = numClasses
        /\ \A a \in State(result) : \E s \in State(table) : partition[s] = a
    BY <2>1, QuotientIs
  <2>3. PICK s \in State(table) : partition[s] = c
    BY <2>2
  <2>4. PICK t \in State(table) : partition[t] = d
    BY <2>2
  <2>5. Cardinality(ClassesOf(partition)) = numClasses
    BY <2>1 DEF Stable, NewCount, ClassesOf
  <2>6. PICK w \in Words(numClasses - 1) : Reports(table, s, w) # Reports(table, t, w)
    BY <2>1, <2>3, <2>4, <2>5 DEF Refining, Separates
  <2>7. PICK k \in 0 .. numClasses - 1 : w \in [1 .. k -> 0 .. table.classes - 1]
    BY WordsAre
  <2>8. k \in Nat /\ k \in 0 .. numClasses
    BY <2>1, RoundIs DEF Stable
  <2>9. Reports(result, c, w) = Reports(table, s, w) /\ Reports(result, d, w) = Reports(table, t, w)
    BY <2>1, <2>3, <2>4, <2>7, <2>8, QuotientReports
  <2>10. w \in Words(result.states)
    BY <2>2, <2>7, <2>8, WordsAre
  <2> QED BY <2>6, <2>9, <2>10
<1> QED BY <1>1, Invariant, PTL

==============================================================================
