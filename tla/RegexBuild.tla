------------------------------ MODULE RegexBuild -----------------------------
(***************************************************************************)
(* JitDfa::from_regex_patterns: the states of the regex DFA are discovered *)
(* breadth first from the start state and copied, row by row, into a       *)
(* byte-indexed table, which is compiled.                                  *)
(***************************************************************************)
EXTENDS Language, RegexDfa

CONSTANTS PatternLists,   \* the lists of patterns built
          MaxStates,      \* TransitionTable::MAX_STATES
          MaxText         \* the length of the texts the result is tried on

\* The patterns are those of RegexDfa; the crate numbers them in 31 bits.
ASSUME PatternListsAssumption ==
  \A pats \in PatternLists :
    /\ pats \in Seq([words : SUBSET Seq(Byte), first : BOOLEAN, last : BOOLEAN])
    /\ Len(pats) <= Bit31
    /\ \A i \in DOMAIN pats : IsFiniteSet(pats[i].words)
ASSUME LimitsAssumption == MaxStates \in Nat /\ MaxStates <= Bit31 /\ MaxText \in Nat

VARIABLES patterns,   \* the argument, fixed
          ids,        \* state_ids: the regex states in the order of discovery
          queue,      \* discovered and not yet expanded
          table,      \* the table under way; its rows are filled in order
          phase,      \* "start", "discover", "fill", "done"
          result      \* the program compiled, or an error

vars == <<patterns, ids, queue, table, phase, result>>

Nothing     == [none |-> TRUE]
Error(kind) == [error |-> kind]
IsProgram   == "states" \in DOMAIN result

Bytes == [i \in 1 .. ByteCount |-> i - 1]

\* state_map: the index of a discovered state.
IndexOf(id) == (CHOOSE i \in DOMAIN ids : ids[i] = id) - 1

Init ==
  /\ patterns \in PatternLists
  /\ ids = <<>> /\ queue = <<>> /\ table = Nothing
  /\ phase = "start" /\ result = Nothing

Stop(value) ==
  /\ phase' = "done" /\ result' = value
  /\ UNCHANGED <<patterns, ids, queue, table>>

RejectEmpty == phase = "start" /\ patterns = <<>> /\ Stop(Error("EmptyDfa"))

\* The crate does not compile the patterns or has no start state for them.
RegexFails == phase = "start" /\ patterns # <<>> /\ Stop(Error("InvalidTable"))

StartDiscovery ==
  /\ phase = "start" /\ patterns # <<>>
  /\ ids' = <<RegexStart>> /\ queue' = <<RegexStart>>
  /\ phase' = "discover"
  /\ UNCHANGED <<patterns, table, result>>

\* known with the successors of a state on the given bytes that are new.
WithSuccessors(known, id, bytes) ==
  FoldLeft(LAMBDA seen, b : IF NextState(patterns, id, b) \in ToSet(seen)
                            THEN seen ELSE Append(seen, NextState(patterns, id, b)),
           known, bytes)

\* One state leaves the queue, or, in a mutant, stays; its successors are added.
Expand(bytes, rest) ==
  /\ phase = "discover" /\ queue # <<>>
  /\ ids' = WithSuccessors(ids, Head(queue), bytes)
  /\ queue' = rest \o SubSeq(ids', Len(ids) + 1, Len(ids'))
  /\ UNCHANGED <<patterns, table, phase, result>>

\* Mutants: the last byte is left out; the queue is read and not popped.
DiscoverButLast == Expand(Front(Bytes), Tail(queue))
DiscoverPeeks   == Expand(Bytes, queue)

Discover == Expand(Bytes, Tail(queue))

TooManyStates ==
  /\ phase = "discover" /\ queue = <<>> /\ Len(ids) > MaxStates
  /\ Stop(Error("TooManyStates"))

NewTable ==
  /\ phase = "discover" /\ queue = <<>> /\ Len(ids) <= MaxStates
  /\ table' = [states |-> Len(ids), classes |-> ByteCount, trans |-> <<>>,
               accepts |-> <<>>, lens |-> <<>>, links |-> <<>>]
  /\ phase' = "fill"
  /\ UNCHANGED <<patterns, ids, queue, result>>

\* Mutants: the patterns are those of the state itself, a byte late; only the
\* first pattern of a state is kept.
AcceptedLate(id)  == Ascending(id.late)
AcceptedFirst(id) == SelectSeq(EoiPatterns(patterns, id),
                               LAMBDA pid : pid = Head(EoiPatterns(patterns, id)))

\* The patterns a state accepts, each entered once.
Accepted(id) == EoiPatterns(patterns, id)

\* One row of the table and the accept entries of its state.  add_accept makes
\* room for the lengths, which Finish sets.
FillRow ==
  /\ phase = "fill" /\ Len(table.trans) < table.states * ByteCount
  /\ LET state == Len(table.trans) \div ByteCount
         id    == ids[state + 1]
     IN  table' = [table EXCEPT
           !.trans = @ \o [i \in 1 .. ByteCount |-> IndexOf(NextState(patterns, id, i - 1))],
           !.accepts = @ \o [k \in DOMAIN Accepted(id) |-> <<state, Accepted(id)[k]>>]]
  /\ UNCHANGED <<patterns, ids, queue, phase, result>>

\* Every length is set to 0 and the table is compiled.
Finish ==
  /\ phase = "fill" /\ Len(table.trans) = table.states * ByteCount
  /\ LET complete == [table EXCEPT !.lens = [i \in DOMAIN patterns |-> 0]]
     IN  Stop(IF Compilable(complete) THEN complete ELSE Error("InvalidTable"))

Next ==
  \/ RejectEmpty \/ RegexFails \/ StartDiscovery \/ Discover
  \/ TooManyStates \/ NewTable \/ FillRow \/ Finish

Spec     == Init /\ [][Next]_vars
FairSpec == Spec /\ WF_vars(Next)

------------------------------------------------------------------------------
\* The states in the table are the reachable states of the regex DFA, each once,
\* the start state first, so that no successor is missing when rows are filled.
DiscoversReachable ==
  phase = "fill" =>
    /\ ids[1] = RegexStart
    /\ IsInjective(ids)
    /\ \A i \in DOMAIN ids, b \in Byte : NextState(patterns, ids[i], b) \in ToSet(ids)
    /\ \A i \in DOMAIN ids \ {1} :
         \E j \in 1 .. i - 1, b \in Byte : ids[i] = NextState(patterns, ids[j], b)

Texts == UNION {[1 .. n -> Byte] : n \in 0 .. MaxText}

\* The matches of the patterns in a text, told without an automaton: from the
\* end of each match the rest is searched as a text of its own, where ^ holds at
\* its start and $ holds everywhere; the first end of a match, but for the empty
\* one, is reported with width 0.
RegexMatches(text) ==
  LET Ends(from) == {n \in from + 1 .. Len(text) :
                       Matching(patterns, SubSeq(text, from + 1, n), TRUE) # {}}
      after[from \in 0 .. Len(text)] ==
        IF Ends(from) = {} THEN <<>>
        ELSE LET n    == Min(Ends(from))
                 pids == Matching(patterns, SubSeq(text, from + 1, n), TRUE)
             IN  <<MatchAt(CHOOSE pid \in pids : TRUE, 0, n - 1)>> \o after[n]
  IN  after[0]

\* A program that compiles reports what the patterns say.
FindsPatterns ==
  IsProgram => \A text \in Texts : Found(result, text, Len(text)) = RegexMatches(text)

\* Compiling succeeds exactly if no two patterns can end a match together: the
\* table has one pattern per state.
CompilesIffUnambiguous ==
  (phase = "done" /\ ids # <<>> /\ Len(ids) <= MaxStates) =>
    (IsProgram <=> \A text \in Texts : Cardinality(Matching(patterns, text, TRUE)) <= 1)

\* The build ends.
Terminates == <>(phase = "done")

------------------------------------------------------------------------------
\* from_regex_patterns is documented to use the literal pattern length as the
\* match width, and a test expects it.  The width is 0.
LiteralWidth ==
  IsProgram => \A text \in Texts :
    \A i \in DOMAIN Found(result, text, Len(text)) :
      LET m == Found(result, text, Len(text))[i]
      IN  \A w \in patterns[m.pid + 1].words :
            patterns[m.pid + 1].words = {w} => m.start = m.end - Len(w)
==============================================================================
