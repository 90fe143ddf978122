------------------------------- MODULE Ranges --------------------------------
(***************************************************************************)
(* TransitionTable::compute_ranges, one action per turn of its loops, and  *)
(* transition_density.  The table may have lost or gained entries through  *)
(* transitions_mut.                                                        *)
(***************************************************************************)
EXTENDS Program, FiniteSets

CONSTANTS Tables     \* the tables analysed

ASSUME TablesAssumption == \A p \in Tables : p \in ProgramType /\ p.classes > 0

VARIABLES self,     \* the table, fixed
          state,    \* the state of the outer loop
          index,    \* the byte of the inner loop
          start,    \* the first byte of the range under way
          row,      \* state_ranges: the ranges of this state closed so far
          ranges,   \* the ranges of the states before
          phase     \* "row" at the head of the outer loop, "bytes", "done", "panic"

rangesVars == <<self, state, index, start, row, ranges, phase>>

RangesInit ==
  /\ self \in Tables
  /\ state = 0 /\ index = 0 /\ start = 0
  /\ row = <<>> /\ ranges = <<>> /\ phase = "row"

Minimum(a, b) == IF a <= b THEN a ELSE b

RowStart(s) == s * self.classes

\* Mutant: the end of the row is not clamped.
RowEndUnclamped(s) == RowStart(s) + self.classes

RowEnd(s) == Minimum(RowStart(s) + self.classes, Len(self.trans))
Limit(s)  == Minimum(RowEnd(s) - RowStart(s), ByteCount)

TargetOn(s, b) == self.trans[RowStart(s) + b + 1]

\* The range from start to the byte before the given one.
Closed(end) == [lo |-> start, hi |-> end - 1, target |-> TargetOn(state, start)]

\* &self.transitions[row_start..row_end] is out of range.
SlicePanics ==
  /\ phase = "row" /\ state < self.states
  /\ RowStart(state) > RowEnd(state) \/ RowEnd(state) > Len(self.trans)
  /\ phase' = "panic"
  /\ UNCHANGED <<self, state, index, start, row, ranges>>

SliceIsThere == RowStart(state) <= RowEnd(state) /\ RowEnd(state) <= Len(self.trans)

EmptyRow ==
  /\ phase = "row" /\ state < self.states /\ SliceIsThere /\ Limit(state) = 0
  /\ ranges' = Append(ranges, <<>>)
  /\ state' = state + 1
  /\ UNCHANGED <<self, index, start, row, phase>>

StartRow ==
  /\ phase = "row" /\ state < self.states /\ SliceIsThere /\ Limit(state) > 0
  /\ row' = <<>> /\ start' = 0 /\ index' = 1
  /\ phase' = "bytes"
  /\ UNCHANGED <<self, state, ranges>>

\* Mutant: start is not moved.
NextByteKeepsStart ==
  /\ phase = "bytes" /\ index < Limit(state)
  /\ row' = IF TargetOn(state, index) # TargetOn(state, start) THEN Append(row, Closed(index)) ELSE row
  /\ index' = index + 1
  /\ UNCHANGED <<self, state, start, ranges, phase>>

NextByte ==
  /\ phase = "bytes" /\ index < Limit(state)
  /\ IF TargetOn(state, index) # TargetOn(state, start)
     THEN row' = Append(row, Closed(index)) /\ start' = index
     ELSE UNCHANGED <<row, start>>
  /\ index' = index + 1
  /\ UNCHANGED <<self, state, ranges, phase>>

EndRow ==
  /\ phase = "bytes" /\ index = Limit(state)
  /\ ranges' = Append(ranges, Append(row, Closed(index)))
  /\ state' = state + 1
  /\ phase' = "row"
  /\ UNCHANGED <<self, index, start, row>>

Return ==
  /\ phase = "row" /\ state = self.states
  /\ phase' = "done"
  /\ UNCHANGED <<self, state, index, start, row, ranges>>

RangesNext == SlicePanics \/ EmptyRow \/ StartRow \/ NextByte \/ EndRow \/ Return

RangesSpec == RangesInit /\ [][RangesNext]_rangesVars

\* transition_density.
TransitionDensity(s) ==
  Cardinality({TargetOn(s, b) : b \in {c \in 0 .. self.classes - 1 :
                                       RowStart(s) + c < Len(self.trans)}})

------------------------------------------------------------------------------
\* Ranges rs are those of the first n bytes of state s: they tile them in order,
\* the bytes of each lead where it says, and no two neighbours could be one.
Describes(rs, s, n) ==
  /\ IF rs = <<>> THEN n = 0 ELSE rs[Len(rs)].hi = n - 1
  /\ \A k \in DOMAIN rs :
       /\ rs[k].lo <= rs[k].hi
       /\ \A b \in rs[k].lo .. rs[k].hi : TargetOn(s, b) = rs[k].target
       /\ IF k = 1 THEN rs[k].lo = 0
          ELSE rs[k].lo = rs[k - 1].hi + 1 /\ rs[k].target # rs[k - 1].target

\* The ranges returned describe every row, as much of it as there is and as a
\* byte can reach; and the other analysis agrees: the density of a state is the
\* number of targets its ranges name.
RangesCorrect ==
  phase = "done" =>
    /\ Len(ranges) = self.states
    /\ \A s \in State(self) :
         /\ Describes(ranges[s + 1], s, Limit(s))
         /\ self.classes <= ByteCount =>
              TransitionDensity(s) =
                Cardinality({ranges[s + 1][k].target : k \in DOMAIN ranges[s + 1]})

\* compute_ranges panics only when a whole row is missing; a table that lost part
\* of its last row, or gained entries, is analysed as far as it goes.
PanicsOnlyWithoutRow ==
  phase = "panic" => Len(self.trans) < (self.states - 1) * self.classes
==============================================================================
