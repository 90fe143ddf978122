---------------------------- MODULE JitScanProofs ----------------------------
(***************************************************************************)
(* For every program, input and buffer: the emitted code reads inside its  *)
(* tables, writes inside the caller's buffer, and implements InterpScan.   *)
(***************************************************************************)
EXTENDS JitScan, ProgramProofs

\* Where the position is at each label, and which registers hold a state.
Control ==
  /\ input = <<>> => pc \in {"call", "done"}
  /\ ~NotRun =>
       /\ r13 <= Len(input)
       /\ r13 = Len(input) <=> pc \in {"epilogue", "done"}
       /\ InChain => src \in State(prog)
       /\ ~InChain => r11 \in State(prog)
  /\ pc \in {"accept_loop", "skip_write_match"} =>
       r8 \in State(prog) /\ AcceptPattern(prog)[r8] # NONE

IInv == TypeOK /\ Control

------------------------------------------------------------------------------
\* What the assumptions say of the arguments of a call.
LEMMA Arguments ==
  ASSUME prog \in Programs, input \in Inputs
  PROVE  /\ WellFormed(prog) /\ prog.states \in Nat \ {0} /\ prog.states <= Bit31
         /\ prog.classes = ByteCount /\ prog.states * ByteCount <= U32
         /\ 0 \in State(prog)
         /\ \A s \in State(prog) : s \in Word /\ s # NONE
         /\ input \in Seq(Byte)
<1>1. WellFormed(prog) /\ prog.states <= MaxJitStates /\ input \in Seq(Byte)
  BY ProgramsAssumption, InputsAssumption
<1>2. prog.states \in Nat \ {0} /\ prog.classes = ByteCount
  BY <1>1 DEF WellFormed, ProgramType, Compilable
<1>3. prog.states <= Bit31 /\ Bit31 \in Nat
  BY <1>1, <1>2, MaxJitStatesAssumption, Bit31Assumption
<1>4. \A s \in State(prog) : s \in 0 .. Bit31 - 1
  BY <1>2, <1>3 DEF State
<1>5. prog.states * ByteCount <= U32
  <2> DEFINE k == MaxJitStates - prog.states
  <2>1. k \in Nat /\ MaxJitStates = prog.states + k /\ ByteCount \in Nat /\ U32 \in Nat
    BY <1>1, <1>2, MaxJitStatesAssumption, ByteCountAssumption, U32Facts
  <2>2. k * ByteCount \in Nat /\ prog.states * ByteCount \in Nat
    BY <1>2, <2>1
  <2>3. MaxJitStates * ByteCount = prog.states * ByteCount + k * ByteCount
    BY <1>2, <2>1
  <2> HIDE DEF k
  <2> QED BY <2>1, <2>2, <2>3, MaxJitStatesAssumption
<1>6. 0 \in State(prog)
  BY <1>2 DEF State
<1> QED BY <1>1, <1>2, <1>3, <1>4, <1>5, <1>6, U32Facts

\* The fetch at scan_top: the index does not wrap and stays in the transition
\* table, and the word there is the interpreter's clean target with its flag.
LEMMA Fetch ==
  ASSUME prog \in Programs, input \in Inputs,
         r11 \in State(prog), r13 \in Nat, r13 < Len(input)
  PROVE  LET ecx == Load(TransOffset(prog), TableIndex)
             target == Mask(prog.trans[r11 * prog.classes + input[r13 + 1] + 1])
         IN  /\ r11 * prog.classes + input[r13 + 1] = TableIndex
             /\ TableIndex < Len(prog.trans)
             /\ ecx \in Word /\ Mask(ecx) = target
             /\ target \in State(prog)
             /\ ecx >= Bit31 <=> AcceptPattern(prog)[target] # NONE
<1> DEFINE b == input[r13 + 1]
           i == r11 * prog.classes + b
<1>1. b \in Byte
  BY Arguments
<1>2. /\ i \in 0 .. Len(prog.trans) - 1
      /\ Mask(prog.trans[i + 1]) \in State(prog)
      /\ Flagged(prog)[i] \in Word
      /\ Mask(Flagged(prog)[i]) = Mask(prog.trans[i + 1])
      /\ Flagged(prog)[i] >= Bit31 <=> AcceptPattern(prog)[Mask(prog.trans[i + 1])] # NONE
  BY <1>1, Arguments, FlaggedEntry
<1>3. i \in Word
  <2>1. Len(prog.trans) = prog.states * ByteCount /\ Len(prog.trans) \in Nat
    BY Arguments, SectionSizes DEF WellFormed, Compilable
  <2> QED BY <1>2, <2>1, Arguments, U32Facts DEF Word
<1>4. TableIndex = i
  BY <1>3, Wrap DEF TableIndex
<1>5. Load(TransOffset(prog), TableIndex) = Flagged(prog)[i]
  BY <1>2, <1>4, Arguments, TransEntry DEF Load
<1> QED BY <1>2, <1>4, <1>5

\* The loads of the chain loop at an output state with a pattern.
LEMMA ChainLoads ==
  ASSUME prog \in Programs, input \in Inputs,
         r8 \in State(prog), AcceptPattern(prog)[r8] # NONE
  PROVE  LET eax == Load(AcceptOffset(prog), r8)
             r8n == Load(OutputOffset(prog), r8)
         IN  /\ eax = AcceptPattern(prog)[r8] /\ eax \in 0 .. Len(prog.lens) - 1
             /\ eax \in Word
             /\ Load(PatLenOffset(prog), eax) = prog.lens[eax + 1]
             /\ prog.lens[eax + 1] \in Word
             /\ r8n = OutputLink(prog)[r8] /\ r8n \in Word
             /\ r8n # NONE => r8n \in State(prog) /\ AcceptPattern(prog)[r8n] # NONE
<1> DEFINE pid == AcceptPattern(prog)[r8]
<1>1. pid \in Word /\ pid < Len(prog.lens)
  BY Arguments, AcceptPatternType
<1>2. pid \in 0 .. Len(prog.lens) - 1
  BY <1>1, Arguments, SectionSizes DEF Word
<1>3. Load(AcceptOffset(prog), r8) = pid
  BY Arguments, AcceptEntry, SectionSizes DEF Load
<1>4. Load(PatLenOffset(prog), pid) = prog.lens[pid + 1] /\ prog.lens[pid + 1] \in Word
  BY <1>2, Arguments, PatLenEntry, SectionSizes DEF Load
<1>5. Load(OutputOffset(prog), r8) = OutputLink(prog)[r8]
  BY Arguments, OutputEntry, SectionSizes DEF Load
<1> QED BY <1>1, <1>2, <1>3, <1>4, <1>5, Arguments, OutputLinkType

\* A store in a slot of the buffer keeps the buffer's type.
LEMMA StoredType ==
  ASSUME NEW n \in Nat, NEW T, NEW b \in [0 .. n - 1 -> T],
         NEW i \in 0 .. n - 1, NEW m \in T
  PROVE  Stored(b, i, m) \in [0 .. n - 1 -> T]
BY DEF Stored

------------------------------------------------------------------------------
\* The invariant holds before the first instruction.
LEMMA InitIInv == Init => IInv
<1> SUFFICES ASSUME Init PROVE IInv
  OBVIOUS
<1>1. cap \in Nat
  BY CapsAssumption DEF Init, Interp!CallInit
<1>2. buf \in [0 .. cap - 1 -> MatchType \cup {Untouched}]
  <2>1. Untouched \in MatchType \cup {Untouched}
    OBVIOUS
  <2>2. buf = [i \in 0 .. cap - 1 |-> Untouched]
    BY DEF Init, Interp!CallInit, Interp!Untouched, Untouched
  <2> QED BY <2>1, <2>2
<1>3. \A w \in Word : w \in Nat
  BY U32Facts DEF Word
<1>4. 0 \in Word
  BY U32Facts DEF Word
<1> QED
  BY <1>1, <1>2, <1>3, <1>4, JunkAssumption
     DEF Init, Interp!CallInit, Interp!NoValue, IInv, TypeOK, Control, Labels, NotRun

\* Every instruction preserves it.
LEMMA NextIInv == IInv /\ [Next]_vars => IInv'
<1> SUFFICES ASSUME IInv, [Next]_vars PROVE IInv'
  OBVIOUS
<1> USE DEF IInv, InChain, NotRun
<1>0. /\ prog \in Programs /\ input \in Inputs /\ cap \in Nat
      /\ Len(input) \in Nat /\ (input # <<>> => Len(input) > 0)
      /\ 0 \in State(prog)
      /\ \A s \in State(prog) : s \in Word /\ s # NONE
  BY Arguments DEF TypeOK
<1>1. CASE CallEmpty
  BY <1>0, <1>1 DEF CallEmpty, params, TypeOK, Control, Labels
<1>2. CASE Prologue
  BY <1>0, <1>2 DEF Prologue, params, TypeOK, Control, Labels
<1>3. CASE FetchPlain
  <2>1. r11 \in State(prog) /\ r13 \in Nat /\ r13 < Len(input)
    BY <1>0, <1>3 DEF FetchPlain, TypeOK, Control
  <2>2. r11' \in State(prog)
    BY <1>0, <1>3, <2>1, Fetch DEF FetchPlain
  <2> QED BY <1>0, <1>3, <2>1, <2>2 DEF FetchPlain, params, TypeOK, Control, Labels
<1>4. CASE FetchAccept
  <2>1. r11 \in State(prog) /\ r13 \in Nat /\ r13 < Len(input)
    BY <1>0, <1>4 DEF FetchAccept, TypeOK, Control
  <2>2. /\ r11' \in State(prog) /\ r8' \in State(prog)
        /\ AcceptPattern(prog)[r8'] # NONE
    BY <1>0, <1>4, <2>1, Fetch DEF FetchAccept
  <2> QED BY <1>0, <1>4, <2>1, <2>2 DEF FetchAccept, params, TypeOK, Control, Labels
<1>5. CASE WriteMatch
  <2> DEFINE eax == Load(AcceptOffset(prog), r8)
             m == MatchAt(eax, Load(PatLenOffset(prog), eax), r13)
  <2>1. m \in MatchType
    BY <1>0, <1>5, ChainLoads, MatchAtType DEF WriteMatch, WriteAt, LoadedPid, LoadedLen, TypeOK, Control
  <2>2. r15 \in 0 .. cap - 1
    BY <1>0, <1>5 DEF WriteMatch, WriteAt, LoadedPid, LoadedLen, TypeOK
  <2>3. buf' = Stored(buf, r15, m)
    BY <1>5 DEF WriteMatch, WriteAt, LoadedPid, LoadedLen
  <2> HIDE DEF m
  <2>4. buf' \in [0 .. cap - 1 -> MatchType \cup {Untouched}]
    BY <1>0, <2>1, <2>2, <2>3, StoredType DEF TypeOK
  <2> QED BY <1>0, <1>5, <2>4 DEF WriteMatch, WriteAt, LoadedPid, LoadedLen, params, TypeOK, Control, Labels
<1>6. CASE SkipWrite
  BY <1>0, <1>6 DEF SkipWrite, params, TypeOK, Control, Labels
<1>7. CASE NextOutput
  <2>1. /\ r8' \in Word
        /\ r8' # NONE => r8' \in State(prog) /\ AcceptPattern(prog)[r8'] # NONE
    BY <1>0, <1>7, ChainLoads DEF NextOutput, Control
  <2> QED BY <1>0, <1>7, <2>1 DEF NextOutput, params, TypeOK, Control, Labels
<1>8. CASE Reset
  BY <1>0, <1>8 DEF Reset, params, TypeOK, Control, Labels
<1>9. CASE Advance
  BY <1>0, <1>9 DEF Advance, params, TypeOK, Control, Labels
<1>10. CASE Epilogue
  BY <1>0, <1>10 DEF Epilogue, params, TypeOK, Control, Labels, AtMost
<1>11. CASE UNCHANGED vars
  BY <1>11 DEF vars, params, TypeOK, Control, Labels
<1> QED
  BY <1>1, <1>2, <1>3, <1>4, <1>5, <1>6, <1>7, <1>8, <1>9, <1>10, <1>11 DEF Next

\* The inductive invariant holds throughout every call.
THEOREM Invariant == Spec => []IInv
BY InitIInv, NextIInv, PTL DEF Spec

\* The types, for every program and input: no store leaves the caller's buffer.
THEOREM TypeCorrect == Spec => []TypeOK
<1>1. IInv => TypeOK
  BY DEF IInv
<1> QED BY <1>1, Invariant, PTL

\* Every load of the emitted code stays in its own table.
THEOREM LoadsSafe == Spec => []LoadsInTable
<1>1. IInv => LoadsInTable
  <2> SUFFICES ASSUME IInv PROVE LoadsInTable
    OBVIOUS
  <2>0. prog \in Programs /\ input \in Inputs /\ Len(input) \in Nat
    BY Arguments DEF IInv, TypeOK
  <2>1. CASE pc = "scan_top"
    <3>1. r11 \in State(prog) /\ r13 \in Nat /\ r13 < Len(input)
      BY <2>0, <2>1 DEF IInv, TypeOK, Control, NotRun, InChain
    <3> QED BY <2>0, <2>1, <3>1, Fetch DEF LoadsInTable
  <2>2. CASE pc \in {"accept_loop", "skip_write_match"}
    <3>1. r8 \in State(prog) /\ AcceptPattern(prog)[r8] # NONE
      BY <2>2 DEF IInv, Control
    <3>2. r8 < prog.states
      BY <2>0, <3>1, Arguments DEF State
    <3>3. Load(AcceptOffset(prog), r8) < Len(prog.lens)
      BY <2>0, <3>1, ChainLoads, Arguments, SectionSizes
    <3> QED BY <2>2, <3>2, <3>3 DEF LoadsInTable, LoadedPid
  <2> QED BY <2>1, <2>2 DEF LoadsInTable
<1> QED BY <1>1, Invariant, PTL

------------------------------------------------------------------------------
(***************************************************************************)
(* The refinement.  InterpScan's copies of the constant operators are the  *)
(* ones the machine code is described with.                                *)
(***************************************************************************)
LEMMA SameOperators ==
  /\ Interp!U32 = U32 /\ Interp!NONE = NONE /\ Interp!Untouched = Untouched
  /\ \A t \in Word : Interp!Mask(t) = Mask(t)
  /\ Interp!AcceptPattern(prog) = AcceptPattern(prog)
  /\ Interp!OutputLink(prog) = OutputLink(prog)
<1>1. Interp!U32 = U32 /\ Interp!NONE = NONE /\ Interp!Untouched = Untouched
  BY DEF U32, Interp!U32, NONE, Interp!NONE, Untouched, Interp!Untouched
<1>2. \A t \in Word : Interp!Mask(t) = Mask(t)
  BY DEF Mask, Interp!Mask
<1>3. Interp!State(prog) = State(prog) /\ Interp!AcceptStates(prog) = AcceptStates(prog)
  BY DEF State, Interp!State, AcceptStates, Interp!AcceptStates
<1>4. Interp!AcceptPattern(prog) = AcceptPattern(prog)
  BY <1>1, <1>3 DEF AcceptPattern, Interp!AcceptPattern
<1>5. Interp!OutputLink(prog) = OutputLink(prog)
  BY <1>1, <1>3 DEF OutputLink, Interp!OutputLink
<1> QED BY <1>1, <1>2, <1>4, <1>5

\* The matches both write.
LEMMA SameMatch ==
  ASSUME NEW pid, NEW len, NEW pos
  PROVE  Interp!MatchAt(pid, len, pos) = MatchAt(pid, len, pos)
BY SameOperators DEF MatchAt, Interp!MatchAt, SaturatingSub, Interp!SaturatingSub

\* The call of the machine code is a call of the interpreter.
LEMMA InitRefines == Init => Interp!Init
BY SameOperators DEF Init, Interp!Init, iPos, iState, iCount, iCursor, iPc, NotRun, InChain

\* A fetch is the interpreter's step on the same byte.
LEMMA FetchRefines ==
  ASSUME IInv, pc = "scan_top"
  PROVE  LET ecx == Load(TransOffset(prog), TableIndex)
         IN  /\ iPos = r13 /\ iState = r11 /\ iPc = "loop" /\ iCursor = NONE
             /\ iCount = r15 /\ iPos < Len(input) /\ r13 \in Nat
             /\ Interp!CleanNext = Mask(ecx)
             /\ ecx >= Bit31 <=> Interp!AcceptPattern(prog)[Interp!CleanNext] # Interp!NONE
             /\ ecx < Bit31 <=> ~(ecx >= Bit31)
<1>0. /\ prog \in Programs /\ input \in Inputs
      /\ r11 \in State(prog) /\ r13 \in Nat /\ r13 < Len(input)
  BY Arguments DEF IInv, TypeOK, Control, NotRun, InChain
<1>1. iPos = r13 /\ iState = r11 /\ iPc = "loop" /\ iCursor = NONE /\ iCount = r15
  BY <1>0 DEF iPos, iState, iCount, iCursor, iPc, NotRun, InChain, IInv, Control
<1> DEFINE i == r11 * prog.classes + input[r13 + 1]
<1>2. i \in Nat /\ i < Len(prog.trans) /\ Len(prog.trans) \in Nat
  <2>1. input[r13 + 1] \in Byte
    BY <1>0, Arguments
  <2>2. i \in 0 .. Len(prog.trans) - 1
    BY <1>0, <2>1, Arguments, FlaggedEntry
  <2> QED BY <2>2, Arguments, <1>0, SectionSizes
<1>3. prog.trans[i + 1] \in Word
  BY <1>0, <1>2, Arguments DEF WellFormed, ProgramType
<1>4. Interp!CleanNext = Mask(prog.trans[i + 1])
  BY <1>1, <1>3, SameOperators DEF Interp!CleanNext
<1>5. \A w \in Word : w < Bit31 <=> ~(w >= Bit31)
  BY Bit31Assumption DEF Word, U32
<1> QED BY <1>0, <1>1, <1>4, <1>5, Fetch, SameOperators

\* Every step of the code is a step of the interpreter or a stutter.
LEMMA NextRefines == IInv /\ [Next]_vars => [Interp!Next]_(Interp!vars)
<1> SUFFICES ASSUME IInv, [Next]_vars PROVE [Interp!Next]_(Interp!vars)
  OBVIOUS
<1> USE DEF InChain, NotRun
<1>0. /\ prog \in Programs /\ input \in Inputs /\ cap \in Nat /\ r13 \in Nat
      /\ r15 \in Nat /\ Len(input) \in Nat /\ (input = <<>> => Len(input) = 0)
      /\ \A s \in State(prog) : s # NONE
  BY Arguments DEF IInv, TypeOK
<1>1. CASE CallEmpty
  <2>1. Interp!Return
    BY <1>0, <1>1 DEF CallEmpty, params, Interp!Return, Interp!params,
       Interp!Returned, Interp!AtMost, iPos, iState, iCount, iCursor, iPc
  <2> QED BY <2>1 DEF Interp!Next
<1>2. CASE Prologue
  BY <1>0, <1>2 DEF Prologue, params, Interp!vars, Interp!params,
     iPos, iState, iCount, iCursor, iPc
<1>3. CASE FetchPlain
  <2>1. Interp!StepPlain
    BY <1>0, <1>3, FetchRefines DEF FetchPlain, params, Interp!StepPlain,
       Interp!params, iPos, iState, iCount, iCursor, iPc, IInv, Control
  <2> QED BY <2>1 DEF Interp!Next
<1>4. CASE FetchAccept
  <2>1. Interp!EnterChain
    BY <1>0, <1>4, FetchRefines DEF FetchAccept, params, Interp!EnterChain,
       Interp!params, iPos, iState, iCount, iCursor, iPc, IInv, Control
  <2> QED BY <2>1 DEF Interp!Next
<1>5. CASE WriteMatch \/ SkipWrite
  <2>1. /\ pc = "accept_loop" /\ pc' = "skip_write_match" /\ input # <<>>
        /\ r8 \in State(prog) /\ AcceptPattern(prog)[r8] # NONE /\ r8 # NONE
        /\ UNCHANGED <<params, r11, r13, r15, r8, src, ret>>
    BY <1>0, <1>5 DEF WriteMatch, WriteAt, LoadedPid, LoadedLen, SkipWrite, IInv, Control
  <2>2. /\ Load(AcceptOffset(prog), r8) = AcceptPattern(prog)[r8]
        /\ AcceptPattern(prog)[r8] \in 0 .. Len(prog.lens) - 1
        /\ Load(PatLenOffset(prog), AcceptPattern(prog)[r8])
             = prog.lens[AcceptPattern(prog)[r8] + 1]
    BY <1>0, <2>1, ChainLoads
  <2>3. /\ iPos = r13 /\ iCount = r15 /\ iCursor = r8 /\ iPc = "chain"
        /\ iState = src
        /\ iPos' = r13 /\ iCount' = r15 + 1 /\ iPc' = "chain" /\ iState' = src
        /\ iCursor' = OutputLink(prog)[r8]
    BY <2>1 DEF iPos, iState, iCount, iCursor, iPc, params
  <2>4. Interp!ChainMatch(iCursor, iPos)
          = MatchAt(AcceptPattern(prog)[r8], prog.lens[AcceptPattern(prog)[r8] + 1], r13)
    <3>1. AcceptPattern(prog)[r8] < Len(prog.lens)
      BY <1>0, <2>2, Arguments, SectionSizes
    <3> QED BY <2>3, <3>1, SameOperators, SameMatch DEF Interp!ChainMatch
  <2>5. buf' = IF r15 < cap
               THEN Stored(buf, r15, Interp!ChainMatch(iCursor, iPos)) ELSE buf
    BY <1>0, <1>5, <2>2, <2>4 DEF WriteMatch, WriteAt, LoadedPid, LoadedLen, SkipWrite
  <2>6. \A b, i, m : Interp!Stored(b, i, m) = Stored(b, i, m)
    BY DEF Stored, Interp!Stored
  <2>7. Interp!RecordMatch
    BY <2>1, <2>3, <2>5, <2>6, SameOperators DEF Interp!RecordMatch, Interp!Record, Interp!params, params
  <2> QED BY <2>7 DEF Interp!Next
<1>6. CASE NextOutput
  <2>1. /\ pc = "skip_write_match" /\ input # <<>>
        /\ r8 \in State(prog) /\ AcceptPattern(prog)[r8] # NONE
    BY <1>6 DEF NextOutput, IInv, Control
  <2>2. r8' = OutputLink(prog)[r8]
    BY <1>0, <1>6, <2>1, ChainLoads DEF NextOutput
  <2> QED BY <1>6, <2>1, <2>2 DEF NextOutput, params, Interp!vars, Interp!params,
             iPos, iState, iCount, iCursor, iPc
<1>7. CASE Reset
  <2>1. Interp!LeaveChain
    BY <1>0, <1>7, SameOperators DEF Reset, params, Interp!LeaveChain, Interp!LeaveTo, Interp!params,
       iPos, iState, iCount, iCursor, iPc, IInv, Control
  <2> QED BY <2>1 DEF Interp!Next
<1>8. CASE Advance
  BY <1>0, <1>8 DEF Advance, params, Interp!vars, Interp!params,
     iPos, iState, iCount, iCursor, iPc, IInv, Control
<1>9. CASE Epilogue
  <2>1. Interp!Return
    BY <1>0, <1>9 DEF Epilogue, params, Interp!Return, Interp!params, Interp!Returned,
       Interp!AtMost, AtMost, iPos, iState, iCount, iCursor, iPc, IInv, Control
  <2> QED BY <2>1 DEF Interp!Next
<1>10. CASE UNCHANGED vars
  BY <1>10 DEF vars, params, Interp!vars, Interp!params, iPos, iState, iCount, iCursor, iPc
<1> QED
  BY <1>1, <1>2, <1>3, <1>4, <1>5, <1>6, <1>7, <1>8, <1>9, <1>10 DEF Next

\* The emitted machine code implements the interpreted scan, for every program
\* the compiler accepts, every input and every buffer.
THEOREM Refinement == Spec => ImplementsInterp
<1>1. Spec => Interp!Init /\ [][Interp!Next]_(Interp!vars)
  BY Invariant, InitRefines, NextRefines, PTL DEF Spec
<1> QED BY <1>1 DEF ImplementsInterp, Interp!Spec

------------------------------------------------------------------------------
(***************************************************************************)
(* What the machine code returns.  The theorems of InterpScanProofs hold   *)
(* of the interpreter's variables under the refinement mapping.            *)
(***************************************************************************)
Scan == INSTANCE InterpScanProofs
          WITH pos <- iPos, state <- iState, count <- iCount,
               cursor <- iCursor, pc <- iPc

\* No pattern has the id that means "no pattern".
SentinelUnused == \A p \in Programs : SentinelFree(p)

\* A call that returned gives back the number of matches in the input, capped by
\* the buffer except for scan_count, and has filled the buffer with the first.
ResultCorrect ==
  pc = "done" =>
    LET found == Found(prog, input, Len(input))
    IN  /\ ret = IF call = "count" THEN Len(found) ELSE AtMost(Len(found), cap)
        /\ buf = [i \in 0 .. cap - 1 |->
                    IF i < Len(found) THEN found[i + 1] ELSE Untouched]

\* What InterpScanProofs assumes of the programs and inputs.
LEMMA SameArguments ==
  /\ \A p \in Programs : Scan!WellFormed(p)
  /\ \A w \in Inputs : w \in Seq(Scan!Byte)
  /\ SentinelUnused => Scan!SentinelUnused
<1>1. \A p : WellFormed(p) => Scan!WellFormed(p)
  BY DEF WellFormed, ProgramType, Compilable, LinksAccept, LinksDescend, Word, Byte, U32,
         NONE, Mask, State, AcceptStates, AcceptPattern, OutputLink,
         Scan!WellFormed, Scan!ProgramType, Scan!Compilable, Scan!LinksAccept,
         Scan!LinksDescend, Scan!Word, Scan!Byte, Scan!U32, Scan!NONE, Scan!Mask,
         Scan!State, Scan!AcceptStates, Scan!AcceptPattern, Scan!OutputLink
<1>2. \A p : SentinelFree(p) => Scan!SentinelFree(p)
  BY DEF SentinelFree, U32, NONE, Scan!SentinelFree, Scan!U32, Scan!NONE
<1>3. \A w \in Inputs : w \in Seq(Scan!Byte)
  BY InputsAssumption DEF Byte, Scan!Byte
<1> QED BY <1>1, <1>2, <1>3, ProgramsAssumption DEF SentinelUnused, Scan!SentinelUnused

\* The two instances of the interpreter are one specification.
LEMMA SameInit == Interp!Init => Scan!Init
BY DEF Interp!Init, Interp!CallInit, Interp!Untouched, Interp!NoValue, Interp!NONE, Interp!U32,
       Scan!Init, Scan!CallInit, Scan!Untouched, Scan!NoValue, Scan!NONE, Scan!U32

\* Their steps are the same.
LEMMA SameNext == [Interp!Next]_(Interp!vars) => [Scan!Next]_(Scan!vars)
<1>1. Interp!vars = Scan!vars /\ Interp!vars' = Scan!vars'
  BY DEF Interp!vars, Scan!vars
<1>2. Interp!Next => Scan!Next
  BY DEF Interp!Next, Interp!StepPlain, Interp!EnterChain, Interp!RecordMatch, Interp!Record,
         Interp!ChainMatch, Interp!LeaveChain, Interp!LeaveTo, Interp!Return, Interp!Returned,
         Interp!AtMost, Interp!params, Interp!MatchAt, Interp!SaturatingSub, Interp!Stored,
         Interp!AcceptPattern, Interp!OutputLink, Interp!State, Interp!AcceptStates,
         Interp!Mask, Interp!CleanNext, Interp!NONE, Interp!U32,
         Scan!Next, Scan!StepPlain, Scan!EnterChain, Scan!RecordMatch, Scan!Record,
         Scan!ChainMatch, Scan!LeaveChain, Scan!LeaveTo, Scan!Return, Scan!Returned,
         Scan!AtMost, Scan!params, Scan!MatchAt, Scan!SaturatingSub, Scan!Stored,
         Scan!AcceptPattern, Scan!OutputLink, Scan!State, Scan!AcceptStates,
         Scan!Mask, Scan!CleanNext, Scan!NONE, Scan!U32
<1> QED BY <1>1, <1>2

\* What the interpreter's result says of the registers' result.
LEMMA SameResult == Scan!ResultCorrect => ResultCorrect
BY DEF ResultCorrect, Found, OutputsOf, Walk, Target, PatternMatch, MatchAt, SaturatingSub,
       AtMost, Untouched, AcceptPattern, OutputLink, State, AcceptStates, Mask, NONE, U32,
       Scan!ResultCorrect, Scan!Found, Scan!OutputsOf, Scan!Walk, Scan!Target,
       Scan!PatternMatch, Scan!MatchAt, Scan!SaturatingSub, Scan!Returned, Scan!AtMost,
       Scan!Untouched, Scan!AcceptPattern, Scan!OutputLink, Scan!State, Scan!AcceptStates,
       Scan!Mask, Scan!NONE, Scan!U32, iPc, InChain

\* The emitted machine code returns the matches of the automaton: the number of
\* them, and the first in the caller's buffer, in order.
THEOREM ResultIsCorrect == ASSUME SentinelUnused PROVE Spec => []ResultCorrect
<1>1. Scan!Spec => []Scan!ResultCorrect
  BY SameArguments, Scan!ResultIsCorrect, ByteCountAssumption, Bit31Assumption, CapsAssumption
<1>2. Spec => Scan!Spec
  BY Refinement, SameInit, SameNext, PTL DEF ImplementsInterp, Interp!Spec, Scan!Spec
<1>3. Scan!ResultCorrect => ResultCorrect
  BY SameResult
<1> QED BY <1>1, <1>2, <1>3, PTL
==============================================================================
