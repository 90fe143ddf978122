------------------------------ MODULE TableApi -------------------------------
(***************************************************************************)
(* TransitionTable as its callers use it: new, from_parts and from_bytes   *)
(* make one, set_transition, add_accept and set_pattern_length fill it,    *)
(* the _mut accessors hand out its vectors, to_bytes stores it.            *)
(*                                                                         *)
(* Stored bytes are a sequence of u32 words: all offsets are multiples of  *)
(* four bytes, so the one to three bytes of an incomplete word change no   *)
(* check.  The products and sums of lengths are those of a 64-bit usize,   *)
(* which they do not overflow.                                             *)
(***************************************************************************)
EXTENDS Program, SequencesExt

CONSTANTS MaxStates,        \* MAX_STATES
          MaxTransitions,   \* MAX_TOTAL_TRANSITIONS
          Shapes,           \* the <<state_count, class_count>> passed to new
          Targets,          \* the next_state arguments, flagged ones included
          Pids, Lengths,    \* the pattern ids and lengths
          MaxAccepts        \* bound on the calls of add_accept

ASSUME TargetsAssumption == Targets \subseteq Word /\ Pids \subseteq Word /\ Lengths \subseteq Word
ASSUME ShapesAssumption  == Shapes \subseteq Nat \X Nat
\* 65536 states and 2^28 transitions in the code.
ASSUME LimitsAssumption  ==
  /\ MaxStates \in Nat /\ MaxStates < U32
  /\ MaxTransitions \in Nat /\ MaxAccepts \in Nat

VARIABLES table,     \* the table, or the error its constructor returned
          raw,       \* its vectors were changed through a _mut accessor
          cells,     \* what the caller set each of its cells to
          lengths    \* what the caller set each pattern's length to

vars == <<table, raw, cells, lengths>>

Error(kind) == [error |-> kind]
IsTable(t)  == "error" \notin DOMAIN t

Table(states, classes, trans, accepts, lens) ==
  [states |-> states, classes |-> classes, trans |-> trans,
   accepts |-> accepts, lens |-> lens, links |-> <<>>]

Rectangular(t) == Len(t.trans) = t.states * t.classes

------------------------------------------------------------------------------
(***************************************************************************)
(* Constructors and storage.                                               *)
(***************************************************************************)

New(states, classes) ==
  IF states > MaxStates THEN Error("TooManyStates")
  ELSE IF classes = 0 THEN Error("InvalidTable")
  ELSE IF states * classes > MaxTransitions THEN Error("TooManyStates")
  ELSE Table(states, classes, [i \in 1 .. states * classes |-> 0], <<>>, <<>>)

FromParts(p) ==
  IF p.states > MaxStates THEN Error("TooManyStates")
  ELSE IF ~ValidParts(p) THEN Error("InvalidTable")
  ELSE p

\* Mutant: an accept entry is stored pattern first.
ToBytesSwapped(t) ==
  <<t.states, t.classes % U32>> \o t.trans
    \o <<Len(t.accepts) % U32>>
    \o FlattenSeq([i \in DOMAIN t.accepts |-> <<t.accepts[i][2], t.accepts[i][1]>>])
    \o <<Len(t.lens) % U32>> \o t.lens

\* to_bytes; the counts are truncated to u32.
ToBytes(t) ==
  <<t.states, t.classes % U32>> \o t.trans
    \o <<Len(t.accepts) % U32>> \o FlattenSeq(t.accepts)
    \o <<Len(t.lens) % U32>> \o t.lens

\* Where from_bytes finds the accept count, the length count and the end.
AcceptsAt(data) == 3 + data[1] * data[2]
LensAt(data) == AcceptsAt(data) + 1 + 2 * data[AcceptsAt(data)]

\* Mutant: the last length is not asked for.
EndAtShort(data) == LensAt(data) + data[LensAt(data)] - 1

EndAt(data) == LensAt(data) + data[LensAt(data)]

\* The length checks of from_bytes, each before what it guards is read.  What
\* follows the end is ignored.
Complete(data) ==
  /\ Len(data) >= 2
  /\ Len(data) >= AcceptsAt(data)
  /\ Len(data) >= LensAt(data)
  /\ Len(data) >= EndAt(data)

FromBytes(data) ==
  IF ~Complete(data) THEN Error("InvalidTable")
  ELSE FromParts(Table(data[1], data[2],
                       SubSeq(data, 3, AcceptsAt(data) - 1),
                       [i \in 1 .. data[AcceptsAt(data)] |->
                          <<data[AcceptsAt(data) + 2 * i - 1], data[AcceptsAt(data) + 2 * i]>>],
                       SubSeq(data, LensAt(data) + 1, EndAt(data))))

------------------------------------------------------------------------------
(***************************************************************************)
(* The calls.                                                              *)
(***************************************************************************)
Cell(t, s, b) == t.trans[s * t.classes + b + 1]
CellsOf(t)    == [s \in State(t) |-> [b \in 0 .. t.classes - 1 |-> Cell(t, s, b)]]
LengthsOf(t)  == [pid \in Word |-> IF pid < Len(t.lens) THEN t.lens[pid + 1] ELSE 0]

\* The table is a constructor's result; what it holds counts as set.
Construct(result) ==
  /\ table' = result
  /\ raw' = FALSE
  /\ cells' = IF IsTable(result) THEN CellsOf(result) ELSE <<>>
  /\ lengths' = IF IsTable(result) THEN LengthsOf(result) ELSE <<>>

Init ==
  \E shape \in Shapes :
    /\ table = New(shape[1], shape[2])
    /\ raw = FALSE
    /\ cells = IF IsTable(table) THEN CellsOf(table) ELSE <<>>
    /\ lengths = IF IsTable(table) THEN LengthsOf(table) ELSE <<>>

\* set_transition: the index is compared with the length of the table; past it
\* a debug build panics and a release build goes on, both without a write.
SetTransition(s, b, target) ==
  /\ IsTable(table)
  /\ LET idx == s * table.classes + b + 1
     IN  table' = IF idx <= Len(table.trans)
                  THEN [table EXCEPT !.trans[idx] = target] ELSE table
  /\ cells' = IF ~raw /\ s < table.states /\ b < table.classes
              THEN [cells EXCEPT ![s][b] = target] ELSE cells
  /\ UNCHANGED <<raw, lengths>>

\* lens.resize(n, 0) when lens is shorter.
Padded(lens, n) == [i \in 1 .. (IF n > Len(lens) THEN n ELSE Len(lens)) |->
                      IF i <= Len(lens) THEN lens[i] ELSE 0]

\* Mutants: the table of lengths ends at the last pattern that accepts; it is
\* one short.
PaddedExactly(lens, n) == [i \in 1 .. n |-> IF i <= Len(lens) THEN lens[i] ELSE 0]
AddAcceptOneShort(s, pid) ==
  /\ IsTable(table) /\ Len(table.accepts) < MaxAccepts
  /\ table' = [table EXCEPT !.accepts = Append(@, <<s, pid>>), !.lens = Padded(@, pid)]
  /\ UNCHANGED <<raw, cells, lengths>>
AddAcceptCuts(s, pid) ==
  /\ IsTable(table) /\ Len(table.accepts) < MaxAccepts
  /\ table' = [table EXCEPT !.accepts = Append(@, <<s, pid>>), !.lens = PaddedExactly(@, pid + 1)]
  /\ UNCHANGED <<raw, cells, lengths>>

AddAccept(s, pid) ==
  /\ IsTable(table) /\ Len(table.accepts) < MaxAccepts
  /\ table' = [table EXCEPT !.accepts = Append(@, <<s, pid>>), !.lens = Padded(@, pid + 1)]
  /\ UNCHANGED <<raw, cells, lengths>>

SetPatternLength(pid, length) ==
  /\ IsTable(table)
  /\ table' = [table EXCEPT !.lens = [Padded(@, pid + 1) EXCEPT ![pid + 1] = length]]
  /\ lengths' = IF raw THEN lengths ELSE [lengths EXCEPT ![pid] = length]
  /\ UNCHANGED <<raw, cells>>

\* transitions_mut, accept_states_mut, pattern_lengths_mut: the caller changes a
\* vector as it likes; here, once, at its end.
Mutate ==
  /\ IsTable(table) /\ ~raw
  /\ \/ \E w \in Targets : table' = [table EXCEPT !.trans = Append(@, w)]
     \/ table.trans # <<>> /\ table' = [table EXCEPT !.trans = Front(@)]
     \/ table.accepts # <<>> /\ table' = [table EXCEPT !.accepts = Front(@)]
     \/ table.lens # <<>> /\ table' = [table EXCEPT !.lens = Front(@)]
  /\ raw' = TRUE /\ cells' = <<>> /\ lengths' = <<>>

\* from_bytes of what to_bytes gave.
Reload == IsTable(table) /\ Construct(FromBytes(ToBytes(table)))

Next ==
  \/ \E s \in 0 .. MaxStates :
       \/ \E b \in Byte, target \in Targets : SetTransition(s, b, target)
       \/ \E pid \in Pids : AddAccept(s, pid)
  \/ \E pid \in Pids, length \in Lengths : SetPatternLength(pid, length)
  \/ Mutate \/ Reload

Spec == Init /\ [][Next]_vars

------------------------------------------------------------------------------
\* A table filled through calls alone, in whatever order, with whatever
\* arguments, keeps its shape and the limits of its constructor, and every
\* pattern that accepts has a length.
BuilderConsistent ==
  (IsTable(table) /\ ~raw) =>
    /\ table \in ProgramType /\ Rectangular(table)
    /\ table.states <= MaxStates /\ Len(table.trans) <= MaxTransitions
    /\ \A i \in DOMAIN table.accepts : table.accepts[i][2] < Len(table.lens)

\* A byte-indexed table holds what was last set, whatever was called in between:
\* no call for one state, byte or pattern disturbs another.
LastCallWins ==
  (IsTable(table) /\ ~raw) =>
    /\ table.classes = ByteCount => CellsOf(table) = cells
    /\ LengthsOf(table) = lengths

\* The counts to_bytes truncates.
CountsFit(t) ==
  t.classes < U32 /\ Len(t.accepts) < U32 /\ Len(t.lens) < U32

\* Loading what was stored gives the table from_parts makes of the same parts,
\* errors included: no field moves, whatever the lengths of the others.
StorageLossless ==
  (IsTable(table) /\ Rectangular(table) /\ CountsFit(table)) =>
    FromBytes(ToBytes(table)) = FromParts(table)

\* from_bytes finds out when its input was cut short, wherever it was cut.
TruncationRejected ==
  (IsTable(table) /\ Rectangular(table) /\ CountsFit(table)) =>
    LET data == ToBytes(table)
    IN  \A n \in 0 .. Len(data) - 1 : ~IsTable(FromBytes(SubSeq(data, 1, n)))

\* compile and from_parts, which check the same table apart from each other, do
\* not drift: what compiles can be stored, even after a _mut accessor was used.
CompiledIsStorable ==
  (IsTable(table) /\ CountsFit(table) /\ Compilable(table)) =>
    FromBytes(ToBytes(table)) = table
==============================================================================
