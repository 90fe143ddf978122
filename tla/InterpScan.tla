------------------------------ MODULE InterpScan -----------------------------
(***************************************************************************)
(* The table-driven scan of dfajit: ExecutableBuffer::scan_interpreted and *)
(* scan_count_interpreted (programs of more than 4096 states on x86_64,    *)
(* every program elsewhere), and the calls scan, scan_count and scan_first *)
(* made on them.  One behaviour is one call.                               *)
(***************************************************************************)
EXTENDS Language

CONSTANTS Programs,    \* the compiled programs scanned
          Inputs,      \* the inputs scanned
          Caps         \* the lengths of the match buffers passed to scan

ASSUME ProgramsAssumption == \A p \in Programs : WellFormed(p)
ASSUME InputsAssumption   == \A w \in Inputs : w \in Seq(Byte)
ASSUME CapsAssumption     == \A c \in Caps : c \in Nat

VARIABLES prog,    \* the program, fixed during the call
          input,   \* the input bytes, fixed
          call,    \* which entry point: "scan", "count" or "first", fixed
          cap,     \* matches.len(), fixed
          pos,     \* index of the byte the for loop is at
          state,   \* the local `state`
          count,   \* the local `count`
          buf,     \* the caller's match buffer
          cursor,  \* the local `output_state`; NONE outside the chain loop
          pc,      \* "loop" at the for loop, "chain" in the while loop, "done"
          ret      \* the value returned, NoValue before; 0 is scan_first's None

params == <<prog, input, call, cap>>
vars   == <<prog, input, call, cap, pos, state, count, buf, cursor, pc, ret>>

NoValue == -1

\* The arguments of a call: scan_count passes no buffer, scan_first a buffer of
\* one slot, and the caller of scan any buffer.
CallInit ==
  /\ prog \in Programs /\ input \in Inputs
  /\ \/ call = "scan"  /\ cap \in Caps
     \/ call = "count" /\ cap = 0
     \/ call = "first" /\ cap = 1
  /\ buf = [i \in 0 .. cap - 1 |-> Untouched]
  /\ ret = NoValue

Init ==
  /\ CallInit
  /\ pos = 0 /\ state = 0 /\ count = 0
  /\ cursor = NONE /\ pc = "loop"

------------------------------------------------------------------------------
\* The table entry for the byte at pos, bit 31 stripped.
CleanNext == Mask(prog.trans[state * prog.classes + input[pos + 1] + 1])

\* for loop, target without a pattern: state = clean_next.
StepPlain ==
  /\ pc = "loop" /\ pos < Len(input)
  /\ AcceptPattern(prog)[CleanNext] = NONE
  /\ state' = CleanNext
  /\ pos' = pos + 1
  /\ UNCHANGED <<params, count, buf, cursor, pc, ret>>

\* for loop, accept target: output_state = clean_next, enter the while loop.
EnterChain ==
  /\ pc = "loop" /\ pos < Len(input)
  /\ AcceptPattern(prog)[CleanNext] # NONE
  /\ cursor' = CleanNext
  /\ pc' = "chain"
  /\ UNCHANGED <<params, pos, state, count, buf, ret>>

\* The match of output state s after the byte at index i; the length of a
\* pattern id without one defaults to 0.
ChainMatch(s, i) ==
  LET pid == AcceptPattern(prog)[s]
  IN  MatchAt(pid, IF pid < Len(prog.lens) THEN prog.lens[pid + 1] ELSE 0, i)

\* One iteration of the while loop: write if there is room, count in any case.
Record(room, slot, next) ==
  /\ pc = "chain" /\ cursor # NONE
  /\ buf' = IF room THEN Stored(buf, slot, ChainMatch(cursor, pos)) ELSE buf
  /\ count' = count + 1
  /\ cursor' = next
  /\ UNCHANGED <<params, pos, state, pc, ret>>

\* Mutants: the bound check is off by one; the chain is not followed when the
\* buffer is full; a full buffer's last slot is overwritten; the link is not
\* read, so the loop never ends.
RecordMatchOverrun       == Record(count <= cap, count, OutputLink(prog)[cursor])
RecordMatchStopsWhenFull == Record(count < cap, count,
                                   IF count < cap THEN OutputLink(prog)[cursor] ELSE NONE)
RecordMatchOverLast      == Record(cap > 0, AtMost(count, cap - 1), OutputLink(prog)[cursor])
RecordMatchSameLink      == count <= cap /\ Record(count < cap, count, cursor)

RecordMatch == Record(count < cap, count, OutputLink(prog)[cursor])

\* After the while loop: on to the next byte.
LeaveTo(s) ==
  /\ pc = "chain" /\ cursor = NONE
  /\ state' = s
  /\ pos' = pos + 1
  /\ pc' = "loop"
  /\ UNCHANGED <<params, count, buf, cursor, ret>>

\* Mutant: the scan goes on from the accept state.
LeaveChainNoReset == LeaveTo(CleanNext)

\* Back to the start state.
LeaveChain == LeaveTo(0)

\* What the entry point makes of the count of n matches found.
Returned(n) == IF call = "count" THEN n ELSE AtMost(n, cap)

Return ==
  /\ pc = "loop" /\ pos = Len(input)
  /\ ret' = Returned(count)
  /\ pc' = "done"
  /\ UNCHANGED <<params, pos, state, count, buf, cursor>>

Next == StepPlain \/ EnterChain \/ RecordMatch \/ LeaveChain \/ Return

Spec     == Init /\ [][Next]_vars
FairSpec == Spec /\ WF_vars(Next)

------------------------------------------------------------------------------
\* The variables have their types; in particular no store leaves the buffer.
TypeOK ==
  /\ prog \in Programs /\ input \in Inputs
  /\ call \in {"scan", "count", "first"} /\ cap \in Nat
  /\ pos \in 0 .. Len(input) /\ state \in State(prog) /\ count \in Nat
  /\ buf \in [0 .. cap - 1 -> MatchType \cup {Untouched}]
  /\ cursor \in State(prog) \cup {NONE}
  /\ pc \in {"loop", "chain", "done"} /\ ret \in Nat \cup {NoValue}

\* A call that returned gives back the number of matches in the whole input
\* (capped by the buffer for scan and scan_first), has filled the buffer with
\* the first of them in order, pattern, start and end, and has left the rest of
\* the caller's buffer alone, whether or not the buffer filled up in the middle
\* of a chain of output links.
ResultCorrect ==
  pc = "done" =>
    LET found == Found(prog, input, Len(input))
    IN  /\ ret = Returned(Len(found))
        /\ buf = [i \in 0 .. cap - 1 |->
                    IF i < Len(found) THEN found[i + 1] ELSE Untouched]

\* At every moment of the scan the filled slots are the lowest ones and hold
\* matches whose offsets lie in the bytes consumed, 0 <= start <= end <= pos + 1,
\* with ends that never decrease along the buffer.
OffsetsSound ==
  Len(input) < U32 =>
    \A i \in 0 .. cap - 1 :
      /\ i < count <=> buf[i] # Untouched
      /\ i < count => /\ 0 < buf[i].end /\ buf[i].end <= pos + (IF pc = "chain" THEN 1 ELSE 0)
                      /\ buf[i].start <= buf[i].end
                      /\ \A j \in 0 .. i : buf[j].end <= buf[i].end

\* A slot that holds a match keeps it until the call returns.
SlotsWrittenOnce ==
  [][\A i \in DOMAIN buf : buf[i] # Untouched => buf'[i] = buf[i]]_vars

\* Every call returns: the for loop consumes the input and every chain of
\* output links reaches its end.
Terminates == <>(pc = "done")

------------------------------------------------------------------------------
\* README, quick start: scanning "xabxab" for "ab" into an empty buffer is said
\* to return 2, the number of matches found.  The code returns the number
\* stored.
ScanReturnsAllMatches ==
  (pc = "done" /\ call = "scan") => ret = Len(Found(prog, input, Len(input)))
==============================================================================
