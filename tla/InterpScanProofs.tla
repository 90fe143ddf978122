-------------------------- MODULE InterpScanProofs --------------------------
(***************************************************************************)
(* The interpreted scan, for every program the compiler accepts, every     *)
(* input and every buffer: it stays inside the buffer, writes each slot at *)
(* most once, and returns the matches the reference definition finds.      *)
(***************************************************************************)
EXTENDS InterpScan, ProgramProofs

\* The scan is at a byte while it is in a chain and past the last one when it
\* has returned; a chain goes through states with a pattern.
Control ==
  /\ pc = "chain" => pos < Len(input) /\ (cursor # NONE => AcceptPattern(prog)[cursor] # NONE)
  /\ pc = "done" => pos = Len(input) /\ ret = Returned(count)

\* The filled slots are the first ones.
SlotsFilled == \A i \in 0 .. cap - 1 : i < count <=> buf[i] # Untouched

IInv == TypeOK /\ Control /\ SlotsFilled

\* How many matches end before the byte at pos, and those that end with it.
Before == Len(Found(prog, input, pos))
Chain  == OutputsOf(prog)[CleanNext]

\* How far the scan has come: between two bytes it has all the matches up to
\* there; in a chain it has also those of the states before the cursor.
Progress ==
  /\ state = Walk(prog, input)[pos]
  /\ pc # "chain" => count = Before
  /\ pc = "chain" =>
       /\ CleanNext \in AcceptStates(prog)
       /\ count \in Before .. Before + Len(Chain)
       /\ cursor = IF count = Before + Len(Chain) THEN NONE ELSE Chain[count - Before + 1]

\* The filled slots hold the matches found, in order.
SlotsCorrect ==
  LET found == Found(prog, input, IF pc = "chain" THEN pos + 1 ELSE pos)
  IN  \A i \in 0 .. cap - 1 : i < count => buf[i] = found[i + 1]

ResultInv == Progress /\ SlotsCorrect

\* What a slot says of the bytes consumed so far.
SlotOffsets(i) ==
  /\ 0 < buf[i].end /\ buf[i].end <= pos + (IF pc = "chain" THEN 1 ELSE 0)
  /\ buf[i].start <= buf[i].end
  /\ \A j \in 0 .. i : buf[j].end <= buf[i].end

OffsetsInv == Len(input) < U32 => \A i \in 0 .. cap - 1 : i < count => SlotOffsets(i)

------------------------------------------------------------------------------
\* What the assumptions say of the arguments of a call.
LEMMA Arguments ==
  ASSUME prog \in Programs, input \in Inputs
  PROVE  /\ WellFormed(prog) /\ input \in Seq(Byte) /\ Len(input) \in Nat
         /\ prog.states \in Nat /\ 0 \in State(prog)
<1>1. WellFormed(prog) /\ input \in Seq(Byte)
  BY ProgramsAssumption, InputsAssumption
<1> QED BY <1>1 DEF WellFormed, ProgramType, Compilable, State

\* A slot the scan has not written does not look like a match.
LEMMA UntouchedIsNoMatch == \A m \in MatchType : m # Untouched
<1> SUFFICES ASSUME NEW m \in MatchType, m = Untouched PROVE FALSE
  OBVIOUS
<1>1. DOMAIN m = {"pid", "start", "end"}
  BY DEF MatchType
<1>2. DOMAIN Untouched = {"untouched"}
  BY DEF Untouched
<1> QED BY <1>1, <1>2

\* The table entry the for loop reads is the target of the reference walk.
LEMMA CleanNextIs ==
  ASSUME TypeOK, pos < Len(input)
  PROVE  /\ CleanNext = Target(prog, input, state, pos)
         /\ CleanNext \in State(prog) /\ CleanNext # NONE
         /\ pos \in 0 .. Len(input) - 1
<1>1. WellFormed(prog) /\ input \in Seq(Byte) /\ pos \in 0 .. Len(input) - 1 /\ state \in State(prog)
  BY Arguments DEF TypeOK
<1>2. CleanNext = Target(prog, input, state, pos)
  BY DEF CleanNext, Target
<1> QED BY <1>1, <1>2, TargetType

\* The match an iteration of the while loop may write is the reference one.
LEMMA ChainMatchIs ==
  ASSUME TypeOK, cursor \in State(prog), AcceptPattern(prog)[cursor] # NONE
  PROVE  /\ ChainMatch(cursor, pos) = PatternMatch(prog, cursor, pos)
         /\ ChainMatch(cursor, pos) \in MatchType
<1>1. WellFormed(prog) /\ pos \in Nat
  BY Arguments DEF TypeOK
<1> QED BY <1>1, PatternMatchType DEF ChainMatch, PatternMatch

------------------------------------------------------------------------------
\* The invariant holds when the scan is called.
LEMMA InitIInv == Init => IInv
<1> SUFFICES ASSUME Init PROVE IInv
  OBVIOUS
<1>1. prog \in Programs /\ input \in Inputs /\ cap \in Nat /\ call \in {"scan", "count", "first"}
  BY CapsAssumption DEF Init, CallInit
<1>2. buf \in [0 .. cap - 1 -> MatchType \cup {Untouched}] /\ \A i \in 0 .. cap - 1 : buf[i] = Untouched
  BY DEF Init, CallInit
<1>3. TypeOK
  BY <1>1, <1>2, Arguments DEF Init, CallInit, TypeOK, NoValue
<1>4. SlotsFilled
  BY <1>1, <1>2 DEF SlotsFilled, Init
<1> QED BY <1>3, <1>4 DEF IInv, Control, Init

\* One iteration of the while loop writes the first free slot, if there is one.
LEMMA RecordStep ==
  ASSUME IInv, RecordMatch
  PROVE  /\ cursor \in State(prog) /\ AcceptPattern(prog)[cursor] # NONE
         /\ pos < Len(input) /\ pc = "chain"
         /\ UNCHANGED <<params, pos, state, pc, ret>>
         /\ count' = count + 1 /\ cursor' = OutputLink(prog)[cursor]
         /\ buf' \in [0 .. cap - 1 -> MatchType \cup {Untouched}]
         /\ \A i \in 0 .. cap - 1 :
              buf'[i] = IF i = count THEN PatternMatch(prog, cursor, pos) ELSE buf[i]
         /\ PatternMatch(prog, cursor, pos) \in MatchType
<1> USE DEF IInv
<1>1. /\ pc = "chain" /\ cursor # NONE /\ count' = count + 1 /\ cursor' = OutputLink(prog)[cursor]
      /\ buf' = IF count < cap THEN Stored(buf, count, ChainMatch(cursor, pos)) ELSE buf
      /\ UNCHANGED <<params, pos, state, pc, ret>>
  BY DEF RecordMatch, Record
<1>2. cursor \in State(prog) /\ AcceptPattern(prog)[cursor] # NONE /\ pos < Len(input)
  BY <1>1 DEF TypeOK, Control
<1>3. /\ ChainMatch(cursor, pos) = PatternMatch(prog, cursor, pos)
      /\ PatternMatch(prog, cursor, pos) \in MatchType
  BY <1>2, ChainMatchIs
<1>4. count \in Nat /\ cap \in Nat /\ buf \in [0 .. cap - 1 -> MatchType \cup {Untouched}]
  BY DEF TypeOK
<1>5. CASE count < cap
  <2>1. DOMAIN buf \cup {count} = 0 .. cap - 1
    BY <1>4, <1>5
  <2>2. buf' = [i \in 0 .. cap - 1 |-> IF i = count THEN PatternMatch(prog, cursor, pos) ELSE buf[i]]
    BY <1>1, <1>3, <1>5, <2>1 DEF Stored
  <2>3. buf' \in [0 .. cap - 1 -> MatchType \cup {Untouched}]
    BY <1>3, <1>4, <2>2
  <2> QED BY <1>1, <1>2, <1>3, <2>2, <2>3
<1>6. CASE ~ (count < cap)
  BY <1>1, <1>2, <1>3, <1>4, <1>6
<1> QED BY <1>5, <1>6

\* Every step of the scan preserves it.
LEMMA NextIInv == IInv /\ [Next]_vars => IInv'
<1> SUFFICES ASSUME IInv, [Next]_vars PROVE IInv'
  OBVIOUS
<1> USE DEF IInv
<1>0. /\ prog \in Programs /\ input \in Inputs /\ cap \in Nat /\ pos \in Nat /\ pos <= Len(input)
      /\ WellFormed(prog) /\ Len(input) \in Nat /\ 0 \in State(prog)
  BY Arguments DEF TypeOK
<1>1. CASE StepPlain
  <2>1. CleanNext \in State(prog) /\ pos + 1 \in 0 .. Len(input)
    BY <1>0, <1>1, CleanNextIs DEF StepPlain
  <2>2. TypeOK'
    BY <1>1, <2>1 DEF StepPlain, TypeOK, params
  <2> QED BY <1>1, <2>2 DEF StepPlain, params, Control, SlotsFilled
<1>2. CASE EnterChain
  <2>1. CleanNext \in State(prog)
    BY <1>0, <1>2, CleanNextIs DEF EnterChain
  <2>2. TypeOK'
    BY <1>2, <2>1 DEF EnterChain, TypeOK, params
  <2> QED BY <1>2, <2>2 DEF EnterChain, params, Control, SlotsFilled
<1>3. CASE RecordMatch
  <2>1. /\ OutputLink(prog)[cursor] \in State(prog) \cup {NONE}
        /\ OutputLink(prog)[cursor] # NONE => AcceptPattern(prog)[OutputLink(prog)[cursor]] # NONE
    BY <1>0, <1>3, RecordStep, OutputLinkType
  <2>2. TypeOK'
    BY <1>3, <2>1, RecordStep DEF TypeOK, params
  <2>3. Control'
    BY <1>3, <2>1, RecordStep DEF Control, params
  <2>4. SlotsFilled'
    BY <1>0, <1>3, RecordStep, UntouchedIsNoMatch DEF SlotsFilled, params, TypeOK
  <2> QED BY <2>2, <2>3, <2>4
<1>4. CASE LeaveChain
  <2>1. pos + 1 \in 0 .. Len(input)
    BY <1>0, <1>4 DEF LeaveChain, LeaveTo, Control
  <2>2. TypeOK'
    BY <1>0, <1>4, <2>1 DEF LeaveChain, LeaveTo, TypeOK, params
  <2> QED BY <1>4, <2>2 DEF LeaveChain, LeaveTo, params, Control, SlotsFilled
<1>5. CASE Return
  <2>1. Returned(count) \in Nat
    BY DEF Returned, AtMost, TypeOK
  <2>2. TypeOK'
    BY <1>5, <2>1 DEF Return, TypeOK, params
  <2> QED BY <1>5, <2>2 DEF Return, params, Control, SlotsFilled, Returned
<1>6. CASE UNCHANGED vars
  BY <1>6 DEF vars, TypeOK, Control, SlotsFilled, Returned
<1> QED BY <1>1, <1>2, <1>3, <1>4, <1>5, <1>6 DEF Next

\* So it holds throughout.
LEMMA Invariant == Spec => []IInv
BY InitIInv, NextIInv, PTL DEF Spec

\* Type correctness; in particular the scan never stores outside the buffer.
THEOREM TypeCorrect == Spec => []TypeOK
<1>1. IInv => TypeOK
  BY DEF IInv
<1> QED BY <1>1, Invariant, PTL

\* A match that was written is not overwritten.
THEOREM SlotsKept == Spec => SlotsWrittenOnce
<1> DEFINE Kept == \A i \in DOMAIN buf : buf[i] # Untouched => buf'[i] = buf[i]
<1>1. IInv /\ [Next]_vars => [Kept]_vars
  <2> SUFFICES ASSUME IInv, Next PROVE Kept
    OBVIOUS
  <2>1. CASE UNCHANGED buf
    BY <2>1
  <2>2. CASE RecordMatch
    <3>1. DOMAIN buf = 0 .. cap - 1 /\ count \in Nat
      BY DEF IInv, TypeOK
    <3>2. \A i \in 0 .. cap - 1 : buf[i] # Untouched => i # count
      BY <3>1 DEF IInv, SlotsFilled
    <3> QED BY <2>2, <3>1, <3>2, RecordStep
  <2> QED BY <2>1, <2>2 DEF Next, StepPlain, EnterChain, LeaveChain, LeaveTo, Return
<1> HIDE DEF Kept
<1>2. Spec => [][Kept]_vars
  BY <1>1, Invariant, PTL DEF Spec
<1> QED BY <1>2 DEF SlotsWrittenOnce, Kept

------------------------------------------------------------------------------
(***************************************************************************)
(* Offsets, for inputs shorter than 2^32 bytes: the ends grow with the     *)
(* position, so the slot written last has the largest end.                 *)
(***************************************************************************)
LEMMA MatchOffsets ==
  ASSUME Len(input) < U32, input \in Inputs, prog \in Programs, pos \in Nat, pos < Len(input),
         NEW s \in State(prog), AcceptPattern(prog)[s] # NONE
  PROVE  /\ PatternMatch(prog, s, pos).end = pos + 1
         /\ PatternMatch(prog, s, pos).start <= PatternMatch(prog, s, pos).end
<1> DEFINE len == prog.lens[AcceptPattern(prog)[s] + 1]
           end == (pos + 1) % U32
           start == SaturatingSub(end, len)
           m == PatternMatch(prog, s, pos)
<1>1. m = [pid |-> AcceptPattern(prog)[s], start |-> start, end |-> end]
  BY DEF PatternMatch, MatchAt
<1>2. Len(input) \in Nat /\ pos + 1 \in Word
  BY Arguments, U32Facts DEF Word
<1>3. end = pos + 1
  BY <1>2, Wrap
<1>4. m.start = start /\ m.end = end
  BY <1>1
<1>5. len \in Word
  BY Arguments, PatternMatchType
<1> HIDE DEF len, end
<1>6. start <= end
  BY <1>2, <1>3, <1>5 DEF SaturatingSub, Word
<1> QED BY <1>3, <1>4, <1>6

\* A slot of the output buffer is written with sound offsets, and no step writes it
\* again otherwise.
LEMMA OffsetsStep == IInv /\ OffsetsInv /\ [Next]_vars => OffsetsInv'
<1> SUFFICES ASSUME IInv, OffsetsInv, [Next]_vars PROVE OffsetsInv'
  OBVIOUS
<1>0. /\ prog \in Programs /\ input \in Inputs /\ cap \in Nat /\ count \in Nat
      /\ pos \in Nat /\ Len(input) \in Nat
      /\ buf \in [0 .. cap - 1 -> MatchType \cup {Untouched}]
  BY Arguments DEF IInv, TypeOK
\* A step that writes no slot, counts nothing and does not go back.
<1>1. ASSUME UNCHANGED <<input, cap, buf, count>>, pos' \in Nat,
             pos + (IF pc = "chain" THEN 1 ELSE 0) <= pos' + (IF pc' = "chain" THEN 1 ELSE 0)
      PROVE  OffsetsInv'
  <2> SUFFICES ASSUME Len(input) < U32, NEW i \in 0 .. cap - 1, i < count PROVE SlotOffsets(i)'
    BY <1>1 DEF OffsetsInv
  <2>1. SlotOffsets(i)
    BY DEF OffsetsInv
  <2>2. buf[i] \in MatchType
    BY <1>0 DEF IInv, SlotsFilled
  <2>3. buf[i].end \in Nat
    BY <2>2, U32Facts DEF MatchType, Word
  <2>4. buf[i].end <= pos' + (IF pc' = "chain" THEN 1 ELSE 0)
    <3> DEFINE x == pos + (IF pc = "chain" THEN 1 ELSE 0)
               y == pos' + (IF pc' = "chain" THEN 1 ELSE 0)
    <3>1. x \in Nat /\ y \in Nat /\ x <= y
      BY <1>0, <1>1
    <3>2. buf[i].end <= x
      BY <2>1 DEF SlotOffsets
    <3> HIDE DEF x, y
    <3>3. buf[i].end <= y
      BY <2>3, <3>1, <3>2
    <3> QED BY <3>3 DEF y
  <2>5. buf' = buf
    BY <1>1
  <2> QED BY <2>1, <2>4, <2>5 DEF SlotOffsets
<1>2. CASE StepPlain
  BY <1>0, <1>1, <1>2 DEF StepPlain, params
<1>3. CASE EnterChain
  BY <1>0, <1>1, <1>3 DEF EnterChain, params
<1>4. CASE RecordMatch
  <2> SUFFICES ASSUME Len(input) < U32, NEW i \in 0 .. cap - 1, i < count + 1 PROVE SlotOffsets(i)'
    BY <1>4, RecordStep DEF OffsetsInv, params
  <2> DEFINE m == PatternMatch(prog, cursor, pos)
  <2>1. m.end = pos + 1 /\ m.start <= m.end
    BY <1>0, <1>4, RecordStep, MatchOffsets
  <2>2. \A j \in 0 .. cap - 1 : buf'[j] = IF j = count THEN m ELSE buf[j]
    BY <1>4, RecordStep
  <2>3. pc' = "chain" /\ pc = "chain" /\ pos' = pos
    BY <1>4, RecordStep
  <2> HIDE DEF m
  <2>4. \A j \in 0 .. cap - 1 : j < count => SlotOffsets(j) /\ buf[j].end <= pos + 1
    BY <2>3 DEF OffsetsInv, SlotOffsets
  <2>5. CASE i = count
    <3>1. \A j \in 0 .. i : buf'[j].end <= buf'[i].end
      BY <1>0, <2>1, <2>2, <2>4, <2>5
    <3> QED BY <1>0, <2>1, <2>2, <2>3, <2>5, <3>1 DEF SlotOffsets
  <2>6. CASE i < count
    <3>1. \A j \in 0 .. i : buf'[j] = buf[j]
      BY <1>0, <2>2, <2>6
    <3> QED BY <2>3, <2>4, <2>6, <3>1 DEF SlotOffsets
  <2> QED BY <1>0, <2>5, <2>6
<1>5. CASE LeaveChain
  BY <1>0, <1>1, <1>5 DEF LeaveChain, LeaveTo, params
<1>6. CASE Return
  BY <1>0, <1>1, <1>6 DEF Return, params
<1>7. CASE UNCHANGED vars
  BY <1>0, <1>1, <1>7 DEF vars
<1> QED BY <1>2, <1>3, <1>4, <1>5, <1>6, <1>7 DEF Next

\* At every moment the filled slots are the lowest, and their offsets lie in the
\* bytes consumed with ends that never decrease.
THEOREM OffsetsAreSound == Spec => []OffsetsSound
<1>1. Init => OffsetsInv
  BY DEF Init, CallInit, OffsetsInv
<1>2. IInv /\ OffsetsInv => OffsetsSound
  BY DEF IInv, SlotsFilled, OffsetsInv, SlotOffsets, OffsetsSound
<1> QED BY <1>1, <1>2, Invariant, OffsetsStep, PTL DEF Spec

------------------------------------------------------------------------------
(***************************************************************************)
(* The result.  accept_pattern keeps 0xFFFF_FFFF for "no pattern", so a    *)
(* program with a pattern of that id, which takes 2^32 pattern lengths,    *)
(* would lose its matches; the theorem is about the others.                *)
(***************************************************************************)
SentinelUnused == \A p \in Programs : SentinelFree(p)

\* The matches found up to the byte at pos, and the chain of an accept target.
LEMMA FoundNext ==
  ASSUME IInv, state = Walk(prog, input)[pos], pos < Len(input)
  PROVE  /\ Found(prog, input, pos) \in Seq(MatchType) /\ Found(prog, input, pos + 1) \in Seq(MatchType)
         /\ MatchesAt(prog, input, pos) \in Seq(MatchType)
         /\ Found(prog, input, pos + 1) = Found(prog, input, pos) \o MatchesAt(prog, input, pos)
         /\ CleanNext \notin AcceptStates(prog) => MatchesAt(prog, input, pos) = <<>>
         /\ CleanNext \in AcceptStates(prog) =>
              /\ IsChain(prog, CleanNext, Chain)
              /\ Len(MatchesAt(prog, input, pos)) = Len(Chain)
              /\ \A k \in 1 .. Len(Chain) : MatchesAt(prog, input, pos)[k] = PatternMatch(prog, Chain[k], pos)
<1>1. /\ WellFormed(prog) /\ input \in Seq(Byte) /\ Len(input) \in Nat
      /\ pos \in 0 .. Len(input) - 1 /\ pos \in 0 .. Len(input) /\ pos + 1 \in 0 .. Len(input)
  BY Arguments DEF IInv, TypeOK
<1>2. CleanNext = Target(prog, input, Walk(prog, input)[pos], pos) /\ CleanNext \in State(prog)
  BY CleanNextIs DEF IInv
<1>3. /\ Found(prog, input, pos) \in Seq(MatchType) /\ Found(prog, input, pos + 1) \in Seq(MatchType)
      /\ Found(prog, input, pos + 1) = Found(prog, input, pos) \o MatchesAt(prog, input, pos)
      /\ MatchesAt(prog, input, pos) \in Seq(MatchType)
  BY <1>1, FoundIs, MatchesAtType
<1>4. MatchesAt(prog, input, pos) =
        IF CleanNext \in AcceptStates(prog)
        THEN [k \in DOMAIN Chain |-> PatternMatch(prog, Chain[k], pos)] ELSE <<>>
  BY <1>2 DEF MatchesAt, Chain
<1>5. IsChain(prog, CleanNext, Chain)
  BY <1>1, <1>2, OutputsAreChains DEF Chain
<1>6. DOMAIN Chain = 1 .. Len(Chain) /\ Len(Chain) \in Nat
  BY <1>5 DEF IsChain
<1>7. CASE CleanNext \in AcceptStates(prog)
  <2> DEFINE m == MatchesAt(prog, input, pos)
  <2>1. m = [k \in 1 .. Len(Chain) |-> PatternMatch(prog, Chain[k], pos)]
    BY <1>4, <1>6, <1>7
  <2>2. DOMAIN m = 1 .. Len(m) /\ Len(m) \in Nat
    BY <1>3
  <2>3. Len(m) = Len(Chain)
    <3> HIDE DEF m
    <3>1. 1 .. Len(m) = 1 .. Len(Chain)
      BY <2>1, <2>2
    <3> DEFINE a == Len(m)
               b == Len(Chain)
    <3>2. a \in Nat /\ b \in Nat /\ 1 .. a = 1 .. b
      BY <1>6, <2>2, <3>1
    <3> HIDE DEF a, b
    <3>3. (a \in 1 .. a \/ a = 0) /\ (b \in 1 .. b \/ b = 0)
      BY <3>2
    <3>4. (a \in 1 .. b \/ a = 0) /\ (b \in 1 .. a \/ b = 0)
      BY <3>2, <3>3
    <3>5. a = b
      BY <3>2, <3>4
    <3> QED BY <3>5 DEF a, b
  <2> QED BY <1>3, <1>5, <1>7, <2>1, <2>3
<1>8. CASE CleanNext \notin AcceptStates(prog)
  BY <1>3, <1>4, <1>8
<1> QED BY <1>7, <1>8

\* Between two bytes, what was found before the next one is in the buffer.
LEMMA ResultStep ==
  ASSUME SentinelUnused PROVE IInv /\ ResultInv /\ [Next]_vars => ResultInv'
<1> SUFFICES ASSUME IInv, ResultInv, [Next]_vars PROVE ResultInv'
  OBVIOUS
<1> USE DEF ResultInv
<1> DEFINE found == Found(prog, input, pos)
           next  == Found(prog, input, pos + 1)
           here  == MatchesAt(prog, input, pos)
<1>0. /\ prog \in Programs /\ input \in Inputs /\ cap \in Nat /\ count \in Nat /\ pos \in Nat
      /\ pos <= Len(input) /\ WellFormed(prog) /\ SentinelFree(prog)
      /\ input \in Seq(Byte) /\ Len(input) \in Nat /\ 0 \in State(prog)
  BY Arguments DEF IInv, TypeOK, SentinelUnused
<1>1. state = Walk(prog, input)[pos]
  BY DEF Progress
<1>2. CASE pos < Len(input)
  <2>1. /\ CleanNext \in State(prog) /\ CleanNext # NONE /\ pos \in 0 .. Len(input) - 1
        /\ CleanNext = Target(prog, input, Walk(prog, input)[pos], pos)
    BY <1>1, <1>2, CleanNextIs DEF IInv
  <2>2. Walk(prog, input)[pos + 1] = IF CleanNext \in AcceptStates(prog) THEN 0 ELSE CleanNext
    BY <1>0, <2>1, WalkIs
  <2>3. CleanNext \in AcceptStates(prog) <=> AcceptPattern(prog)[CleanNext] # NONE
    BY <1>0, <2>1, AcceptMeans
  <2>4. /\ found \in Seq(MatchType) /\ next \in Seq(MatchType) /\ here \in Seq(MatchType)
        /\ next = found \o here
        /\ Len(found) \in Nat /\ Len(here) \in Nat
    BY <1>1, <1>2, FoundNext
  <2>5. /\ Len(next) = Len(found) + Len(here)
        /\ \A i \in 1 .. Len(found) : next[i] = found[i]
        /\ \A k \in 1 .. Len(here) : next[Len(found) + k] = here[k]
    <3> HIDE DEF found, next, here
    <3> QED BY <2>4
  <2>6. Before = Len(found)
    BY DEF Before
  <2>7. CASE StepPlain
    <3>1. pc = "loop" /\ pc' = "loop" /\ pos' = pos + 1 /\ state' = CleanNext
          /\ UNCHANGED <<prog, input, cap, count, buf>> /\ CleanNext \notin AcceptStates(prog)
      BY <2>3, <2>7 DEF StepPlain, params
    <3>2. here = <<>> /\ Len(here) = 0
      BY <1>1, <1>2, <3>1, FoundNext
    <3>3. next = found
      <4> HIDE DEF found, next, here
      <4> QED BY <2>4, <3>2
    <3>4. Progress'
      BY <2>2, <3>1, <3>3 DEF Progress, Before
    <3>5. SlotsCorrect'
      BY <3>1, <3>3 DEF SlotsCorrect
    <3> QED BY <3>4, <3>5
  <2>8. CASE EnterChain
    <3>1. pc = "loop" /\ pc' = "chain" /\ cursor' = CleanNext
          /\ UNCHANGED <<prog, input, cap, pos, state, count, buf>> /\ CleanNext \in AcceptStates(prog)
      BY <2>3, <2>8 DEF EnterChain, params
    <3>2. CleanNext' = CleanNext /\ Chain' = Chain /\ Before' = Before
      BY <3>1 DEF CleanNext, Chain, Before
    <3>3. IsChain(prog, CleanNext, Chain)
      BY <1>1, <1>2, <3>1, FoundNext
    <3>4. Len(Chain) \in Nat /\ Len(Chain) >= 1 /\ Chain[1] = CleanNext
      BY <3>3 DEF IsChain
    <3>5. count = Before /\ Before \in Nat
      BY <2>4, <2>6, <3>1 DEF Progress
    <3>6. Progress'
      BY <1>1, <3>1, <3>2, <3>4, <3>5 DEF Progress
    <3>7. \A i \in 0 .. cap - 1 : i < count => i + 1 \in 1 .. Len(found)
      BY <2>4, <2>6, <3>5
    <3>8. \A i \in 0 .. cap - 1 : i < count => buf[i] = found[i + 1]
      BY <3>1 DEF SlotsCorrect
    <3>9. SlotsCorrect'
      BY <2>5, <3>1, <3>7, <3>8 DEF SlotsCorrect
    <3> QED BY <3>6, <3>9
  <2>9. CASE RecordMatch
    <3>1. /\ pc = "chain" /\ pc' = "chain" /\ cursor \in State(prog) /\ cursor # NONE
          /\ UNCHANGED <<prog, input, cap, pos, state>>
          /\ count' = count + 1 /\ cursor' = OutputLink(prog)[cursor]
          /\ \A i \in 0 .. cap - 1 :
               buf'[i] = IF i = count THEN PatternMatch(prog, cursor, pos) ELSE buf[i]
      BY <2>9, RecordStep DEF params, RecordMatch, Record
    <3>2. CleanNext' = CleanNext /\ Chain' = Chain /\ Before' = Before
      BY <3>1 DEF CleanNext, Chain, Before
    <3> DEFINE k == count - Before + 1
    <3>3. /\ CleanNext \in AcceptStates(prog)
          /\ count \in Before .. Before + Len(Chain) /\ count # Before + Len(Chain)
          /\ cursor = Chain[k]
      BY <3>1 DEF Progress
    <3>4. /\ IsChain(prog, CleanNext, Chain) /\ Len(here) = Len(Chain)
          /\ \A j \in 1 .. Len(Chain) : here[j] = PatternMatch(prog, Chain[j], pos)
      BY <1>1, <1>2, <3>3, FoundNext
    <3>5. Before \in Nat /\ Len(Chain) \in Nat
      BY <2>4, <2>6, <3>4 DEF IsChain
    <3>6. k \in 1 .. Len(Chain)
      BY <1>0, <3>3, <3>5
    <3>7. cursor' = IF k = Len(Chain) THEN NONE ELSE Chain[k + 1]
      BY <3>1, <3>3, <3>4, <3>6 DEF IsChain
    <3>8. /\ count' \in Before .. Before + Len(Chain)
          /\ cursor' = IF count' = Before + Len(Chain) THEN NONE ELSE Chain[count' - Before + 1]
      BY <1>0, <3>1, <3>3, <3>5, <3>6, <3>7
    <3>9. Progress'
      BY <1>1, <3>1, <3>2, <3>3, <3>8 DEF Progress
    <3>10. next[count + 1] = PatternMatch(prog, cursor, pos)
      <4>1. count + 1 = Len(found) + k
        BY <1>0, <2>6, <3>5
      <4> QED BY <2>5, <3>3, <3>4, <3>6, <4>1
    <3>11. \A i \in 0 .. cap - 1 : i < count => buf[i] = next[i + 1]
      BY <3>1 DEF SlotsCorrect
    <3>12. \A i \in 0 .. cap - 1 : i < count + 1 => i = count \/ i < count
      BY <1>0
    <3>13. \A i \in 0 .. cap - 1 : i < count + 1 => buf'[i] = next[i + 1]
      BY <3>1, <3>10, <3>11, <3>12
    <3>14. SlotsCorrect'
      BY <3>1, <3>13 DEF SlotsCorrect
    <3> QED BY <3>9, <3>14
  <2>10. CASE LeaveChain
    <3>1. pc = "chain" /\ pc' = "loop" /\ cursor = NONE /\ state' = 0 /\ pos' = pos + 1
          /\ UNCHANGED <<prog, input, cap, count, buf>>
      BY <2>10 DEF LeaveChain, LeaveTo, params
    <3> DEFINE k == count - Before + 1
    <3>2. /\ CleanNext \in AcceptStates(prog) /\ count \in Before .. Before + Len(Chain)
          /\ cursor = IF count = Before + Len(Chain) THEN NONE ELSE Chain[k]
      BY <3>1 DEF Progress
    <3>3. IsChain(prog, CleanNext, Chain) /\ Len(here) = Len(Chain)
      BY <1>1, <1>2, <3>2, FoundNext
    <3>4. Before \in Nat /\ Len(Chain) \in Nat
      BY <2>4, <2>6, <3>3 DEF IsChain
    <3>5. \A j \in 1 .. Len(Chain) : Chain[j] # NONE
      BY <2>1, <3>3, <3>4 DEF IsChain
    <3>6. count = Before + Len(Chain)
      <4>1. count # Before + Len(Chain) => k \in 1 .. Len(Chain)
        BY <1>0, <3>2, <3>4
      <4> QED BY <3>1, <3>2, <3>5, <4>1
    <3>7. count = Len(next)
      BY <2>5, <2>6, <3>3, <3>6
    <3>8. Progress'
      BY <2>2, <3>1, <3>2, <3>7 DEF Progress, Before
    <3>9. SlotsCorrect'
      BY <3>1 DEF SlotsCorrect
    <3> QED BY <3>8, <3>9
  <2>11. CASE Return
    BY <1>2, <2>11, <1>0 DEF Return
  <2>12. CASE UNCHANGED vars
    BY <2>12 DEF vars, Progress, SlotsCorrect, Before, Chain, CleanNext
  <2> QED BY <2>7, <2>8, <2>9, <2>10, <2>11, <2>12 DEF Next
<1>3. CASE ~ (pos < Len(input))
  <2>1. pc # "chain"
    BY <1>3 DEF IInv, Control
  <2>2. CASE Return
    BY <2>1, <2>2 DEF Return, params, Progress, SlotsCorrect, Before
  <2>3. CASE UNCHANGED vars
    BY <2>3 DEF vars, Progress, SlotsCorrect, Before, Chain, CleanNext
  <2> QED BY <1>3, <2>1, <2>2, <2>3 DEF Next, StepPlain, EnterChain, RecordMatch, Record, LeaveChain, LeaveTo
<1> QED BY <1>2, <1>3

\* Nothing has been found yet when the scan is called.
LEMMA ResultStart == Init => ResultInv
<1> SUFFICES ASSUME Init PROVE ResultInv
  OBVIOUS
<1>1. WellFormed(prog) /\ input \in Seq(Byte)
  BY Arguments DEF Init, CallInit
<1>2. Walk(prog, input)[0] = 0 /\ Found(prog, input, 0) = <<>>
  BY <1>1, WalkIs, FoundIs
<1> QED BY <1>2 DEF Init, ResultInv, Progress, SlotsCorrect, Before

\* When it returns, all has been.
LEMMA ResultEnd == IInv /\ ResultInv => ResultCorrect
<1> SUFFICES ASSUME IInv, ResultInv, pc = "done" PROVE
      LET found == Found(prog, input, Len(input))
      IN  /\ ret = Returned(Len(found))
          /\ buf = [i \in 0 .. cap - 1 |-> IF i < Len(found) THEN found[i + 1] ELSE Untouched]
  BY DEF ResultCorrect
<1> DEFINE found == Found(prog, input, Len(input))
<1>1. pos = Len(input) /\ ret = Returned(count) /\ count = Len(found)
  BY DEF IInv, Control, ResultInv, Progress, Before
<1>2. \A i \in 0 .. cap - 1 : buf[i] = IF i < Len(found) THEN found[i + 1] ELSE Untouched
  BY <1>1 DEF IInv, SlotsFilled, ResultInv, SlotsCorrect
<1>3. buf = [i \in 0 .. cap - 1 |-> buf[i]]
  BY DEF IInv, TypeOK
<1> HIDE DEF found
<1> QED BY <1>1, <1>2, <1>3 DEF found

\* A call that returned gives back the number of matches in the whole input and
\* has filled the caller's buffer with the first of them, in order.
THEOREM ResultIsCorrect == ASSUME SentinelUnused PROVE Spec => []ResultCorrect
<1>1. IInv /\ ResultInv /\ [Next]_vars => ResultInv'
  BY ResultStep
<1> QED BY <1>1, ResultStart, ResultEnd, Invariant, PTL DEF Spec
==============================================================================
