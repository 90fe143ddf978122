------------------------------- MODULE JitScan -------------------------------
(***************************************************************************)
(* The machine code compile_x86_64 emits, run by scan_jit and              *)
(* scan_count_jit, one action per basic block.  Registers have the names   *)
(* of the code: r11 the DFA state, r13 the position, r15 the match count,  *)
(* r8 the output state; r12/rbp are the input and rbx the buffer's length. *)
(* Every table is read from the data section behind the code, where an     *)
(* index that leaves its table reads the next one.                         *)
(***************************************************************************)
EXTENDS Program

CONSTANTS Programs, Inputs, Caps,
          MaxJitStates,   \* MAX_JIT_STATES: larger programs are interpreted
          Junk            \* what the caller may leave in the registers

ASSUME ProgramsAssumption ==
  \A p \in Programs : WellFormed(p) /\ p.states <= MaxJitStates
ASSUME InputsAssumption == \A w \in Inputs : w \in Seq(Byte)
ASSUME CapsAssumption   == \A c \in Caps : c \in Nat
\* 4096 states leave bit 31 free, and 4096 * 256 table indices fit in edx.
ASSUME MaxJitStatesAssumption ==
  MaxJitStates \in Nat /\ MaxJitStates <= Bit31 /\ MaxJitStates * ByteCount <= U32
ASSUME JunkAssumption == Junk \subseteq Word

VARIABLES prog, input, call, cap,   \* the call's arguments, as in InterpScan
          buf,                      \* the caller's match buffer (r14)
          r11, r13, r15, r8,
          src,                      \* history: r11 when the byte was fetched
          pc,                       \* the label about to run
          ret

params == <<prog, input, call, cap>>
vars   == <<prog, input, call, cap, buf, r11, r13, r15, r8, src, pc, ret>>

\* The labels of the emitted code, its two ends, and the caller before and
\* after it.
Labels == {"call", "scan_top", "accept_loop", "skip_write_match", "reset",
           "skip_match", "epilogue", "done"}

(***************************************************************************)
(* The refinement mapping.  A byte is consumed when skip_match is reached, *)
(* a match counted when skip_write_match is; before the code runs, and     *)
(* when it never does, the registers hold the caller's values.             *)
(***************************************************************************)
NotRun  == pc = "call" \/ input = <<>>
InChain == pc \in {"accept_loop", "skip_write_match", "reset"}

iPos    == IF NotRun THEN 0 ELSE IF pc = "skip_match" THEN r13 + 1 ELSE r13
iState  == IF NotRun THEN 0 ELSE IF InChain THEN src ELSE r11
iCount  == IF NotRun THEN 0 ELSE IF pc = "skip_write_match" THEN r15 + 1 ELSE r15
iCursor == IF pc = "accept_loop" THEN r8
           ELSE IF pc = "skip_write_match" THEN OutputLink(prog)[r8] ELSE NONE
iPc     == IF InChain THEN "chain" ELSE IF pc = "done" THEN "done" ELSE "loop"

Interp == INSTANCE InterpScan
            WITH pos <- iPos, state <- iState, count <- iCount,
                 cursor <- iCursor, pc <- iPc

Init ==
  /\ Interp!CallInit
  /\ r11 \in Junk /\ r13 \in Junk /\ r15 \in Junk /\ r8 \in Junk
  /\ src = 0 /\ pc = "call"

------------------------------------------------------------------------------
\* A 32-bit load at base + 4 * i.  Behind the data section the page is zero.
Load(base, i) ==
  IF base + i < DataLength(prog) THEN DataSection(prog)[base + i] ELSE 0

\* scan_jit and scan_count_jit: an empty input does not reach the code.
CallEmpty ==
  /\ pc = "call" /\ input = <<>>
  /\ ret' = 0
  /\ pc' = "done"
  /\ UNCHANGED <<params, buf, r11, r13, r15, r8, src>>

\* Mutant: the prologue does not clear r11.
PrologueKeepsState ==
  /\ pc = "call" /\ input # <<>>
  /\ r13' = 0 /\ r15' = 0
  /\ pc' = "scan_top"
  /\ UNCHANGED <<params, buf, r11, r8, src, ret>>

\* The call and the prologue: r13, r15 and r11 are cleared; r8 is not.
Prologue ==
  /\ pc = "call" /\ input # <<>>
  /\ r13' = 0 /\ r15' = 0 /\ r11' = 0
  /\ pc' = IF r13' >= Len(input) THEN "epilogue" ELSE "scan_top"
  /\ UNCHANGED <<params, buf, r8, src, ret>>

\* edx after imul and add.
TableIndex == (r11 * prog.classes + input[r13 + 1]) % U32

\* scan_top, table entry without bit 31: jump to skip_match.
FetchPlain ==
  /\ pc = "scan_top"
  /\ LET ecx == Load(TransOffset(prog), TableIndex)
     IN  /\ ecx < Bit31
         /\ r11' = Mask(ecx)
  /\ src' = r11
  /\ pc' = "skip_match"
  /\ UNCHANGED <<params, buf, r13, r15, r8, ret>>

\* scan_top, table entry with bit 31: r8 is the first output state.
FetchAccept ==
  /\ pc = "scan_top"
  /\ LET ecx == Load(TransOffset(prog), TableIndex)
     IN  /\ ecx >= Bit31
         /\ r11' = Mask(ecx)
         /\ r8' = Mask(ecx)
  /\ src' = r11
  /\ pc' = "accept_loop"
  /\ UNCHANGED <<params, buf, r13, r15, ret>>

\* eax and ecx of accept_loop: the pattern of the output state and its length.
LoadedPid == Load(AcceptOffset(prog), r8)
LoadedLen == Load(PatLenOffset(prog), LoadedPid)

\* accept_loop with room in the buffer: the 16-byte store at r14 + 16 * r15.
WriteAt(room, match) ==
  /\ pc = "accept_loop" /\ room
  /\ buf' = Stored(buf, r15, match)
  /\ pc' = "skip_write_match"
  /\ UNCHANGED <<params, r11, r13, r15, r8, src, ret>>

\* Mutants: ja instead of jae; the start offset without the carry test.
WriteMatchOverrun == WriteAt(r15 <= cap, MatchAt(LoadedPid, LoadedLen, r13))
WriteMatchWrapsStart ==
  WriteAt(r15 < cap, LET end == (r13 + 1) % U32
                     IN  [pid |-> LoadedPid, start |-> (end - LoadedLen) % U32, end |-> end])

\* sub/jnc/xor is the saturating subtraction of MatchAt, add edx its wrap.
WriteMatch == WriteAt(r15 < cap, MatchAt(LoadedPid, LoadedLen, r13))

\* accept_loop with a full buffer: jae skip_write_match.
SkipWrite ==
  /\ pc = "accept_loop" /\ r15 >= cap
  /\ pc' = "skip_write_match"
  /\ UNCHANGED <<params, buf, r11, r13, r15, r8, src, ret>>

\* skip_write_match: count the match, take the next output state.
NextOutput ==
  /\ pc = "skip_write_match"
  /\ r15' = r15 + 1
  /\ r8' = Load(OutputOffset(prog), r8)
  /\ pc' = IF r8' = NONE THEN "reset" ELSE "accept_loop"
  /\ UNCHANGED <<params, buf, r11, r13, src, ret>>

\* xor r11d, r11d after the chain.
Reset ==
  /\ pc = "reset"
  /\ r11' = 0
  /\ pc' = "skip_match"
  /\ UNCHANGED <<params, buf, r13, r15, r8, src, ret>>

\* skip_match: advance and loop.
Advance ==
  /\ pc = "skip_match"
  /\ r13' = r13 + 1
  /\ pc' = IF r13' < Len(input) THEN "scan_top" ELSE "epilogue"
  /\ UNCHANGED <<params, buf, r11, r15, r8, src, ret>>

\* epilogue: rax = r15; scan_jit caps it at the buffer, scan_count_jit does not.
Epilogue ==
  /\ pc = "epilogue"
  /\ ret' = IF call = "count" THEN r15 ELSE AtMost(r15, cap)
  /\ pc' = "done"
  /\ UNCHANGED <<params, buf, r11, r13, r15, r8, src>>

Next ==
  \/ CallEmpty \/ Prologue \/ FetchPlain \/ FetchAccept \/ WriteMatch
  \/ SkipWrite \/ NextOutput \/ Reset \/ Advance \/ Epilogue

Spec == Init /\ [][Next]_vars

------------------------------------------------------------------------------
\* The variables have their types; in particular the code never stores a match
\* outside the caller's buffer.
TypeOK ==
  /\ prog \in Programs /\ input \in Inputs
  /\ call \in {"scan", "count", "first"} /\ cap \in Nat
  /\ buf \in [0 .. cap - 1 -> MatchType \cup {Untouched}]
  /\ r11 \in Word /\ r13 \in Nat /\ r15 \in Nat /\ r8 \in Word /\ src \in Word
  /\ pc \in Labels /\ ret \in Nat \cup {-1}

\* Every load about to run stays in its own table: the emitted code has no
\* bounds checks, and a neighbouring table or the end of the mapping is one
\* wrong index away.
LoadsInTable ==
  /\ pc = "scan_top" =>
       /\ r13 < Len(input)
       /\ r11 * prog.classes + input[r13 + 1] = TableIndex
       /\ TableIndex < Len(prog.trans)
  /\ pc \in {"accept_loop", "skip_write_match"} =>
       /\ r8 < prog.states
       /\ LoadedPid < Len(prog.lens)

\* The machine code computes what the interpreter computes: every block is a
\* step of the interpreter or leaves its variables alone.
ImplementsInterp == Interp!Spec
==============================================================================
