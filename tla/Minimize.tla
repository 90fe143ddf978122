------------------------------- MODULE Minimize ------------------------------
(***************************************************************************)
(* TransitionTable::minimize: partition refinement on a table without      *)
(* output links.  One action per round of the while loop.                  *)
(***************************************************************************)
EXTENDS Language, FiniteSets, FiniteSetsExt

CONSTANTS Tables      \* the tables minimized

\* A TransitionTable has no output links, and its constructors bound the states.
ASSUME TablesAssumption ==
  \A p \in Tables : p \in ProgramType /\ p.classes > 0 /\ p.links = <<>> /\ p.states <= Bit31

VARIABLES table,       \* self, fixed
          partition,   \* the class of every state
          numClasses,  \* num_classes
          phase,       \* "start", "refine", "build", "done", "panic"
          result       \* the minimized table, or NoTable for None

vars == <<table, partition, numClasses, phase, result>>

NoTable == [none |-> TRUE]

Init ==
  /\ table \in Tables
  /\ partition = <<>> /\ numClasses = 0
  /\ phase = "start" /\ result = NoTable

------------------------------------------------------------------------------
NoPattern == -1

\* state_to_pattern: the last entry of a state counts.
PatternOf(s) ==
  LET entries == {i \in DOMAIN table.accepts : table.accepts[i][1] = s}
  IN  IF entries = {} THEN NoPattern ELSE table.accepts[Max(entries)][2]

\* Numbers from 0 the values f takes on the states, in the order in which the
\* states first take them.
Numbered(f) ==
  LET first == {s \in DOMAIN f : \A t \in DOMAIN f : f[t] = f[s] => s <= t}
  IN  [s \in DOMAIN f |->
         Cardinality({t \in first : \A u \in DOMAIN f : f[u] = f[s] => t < u})]

\* A table of at most one state is returned as it is.
TooSmall ==
  /\ phase = "start" /\ table.states <= 1
  /\ phase' = "done"
  /\ UNCHANGED <<table, partition, numClasses, result>>

\* The classes of the accept states, by pattern.
InitialClasses(accepting) == Numbered([s \in accepting |-> PatternOf(s)])

\* Class 0 for the states without a pattern, 1, 2, ... for the patterns.
InitialPartition ==
  /\ phase = "start" /\ table.states > 1
  /\ LET accepting == {s \in State(table) : PatternOf(s) # NoPattern}
         class     == InitialClasses(accepting)
     IN  /\ partition' = [s \in State(table) |->
                            IF s \in accepting THEN class[s] + 1 ELSE 0]
         /\ numClasses' = 1 + Cardinality({PatternOf(s) : s \in accepting})
  /\ phase' = "refine"
  /\ UNCHANGED <<table, result>>

\* The class of the target of state s on class b.  The entry is compared with
\* its flag on, so a flagged target counts as class 0.
TargetClass(s, b) ==
  LET target == table.trans[s * table.classes + b + 1]
  IN  IF target < table.states THEN partition[target] ELSE 0

\* Mutants: the signature leaves out the state's own class; it lists the target
\* states, not their classes.
SignatureNoClass(s) == [b \in 0 .. table.classes - 1 |-> TargetClass(s, b)]
SignatureOfTargets(s) ==
  <<partition[s], [b \in 0 .. table.classes - 1 |-> table.trans[s * table.classes + b + 1]]>>

\* (current_class, [target_class for each byte])
Signature(s) ==
  <<partition[s], [b \in 0 .. table.classes - 1 |-> TargetClass(s, b)]>>

\* States with the same signature share a class, in the order of the states.
NewPartition == Numbered([s \in State(table) |-> Signature(s)])
NewCount     == Cardinality({NewPartition[s] : s \in State(table)})

\* Mutant: the partition is indexed with a target whose flag is on.
OutOfRangeFlagged ==
  Len(table.trans) < table.states * table.classes
    \/ \E i \in DOMAIN table.trans : table.trans[i] >= table.states

\* Reading the transitions of some state goes past the end of the table.
OutOfRange == Len(table.trans) < table.states * table.classes

RefinePanics ==
  /\ phase = "refine" /\ OutOfRange
  /\ phase' = "panic"
  /\ UNCHANGED <<table, partition, numClasses, result>>

Round(changed) ==
  /\ phase = "refine" /\ ~OutOfRange
  /\ IF changed
     THEN partition' = NewPartition /\ numClasses' = NewCount /\ UNCHANGED phase
     ELSE phase' = "build" /\ UNCHANGED <<partition, numClasses>>
  /\ UNCHANGED <<table, result>>

\* Mutants: the loop ends when a round leaves the number of classes alone, before
\* the classes are numbered anew; changed is not cleared.
RefineUntilCountStable == Round(NewCount # numClasses)
RefineForever          == Round(TRUE)

\* The loop ends with a round that changes nothing.
Refine == Round(NewCount # numClasses \/ NewPartition # partition)

\* The pairs <<class, pattern>> of the accept states, each once.
MappedAccepts ==
  LET mapped(i) == <<partition[table.accepts[i][1]], table.accepts[i][2]>>
      kept == {i \in DOMAIN table.accepts : \A j \in 1 .. i - 1 : mapped(j) # mapped(i)}
  IN  [k \in 1 .. Cardinality(kept) |->
         mapped(CHOOSE i \in kept : Cardinality({j \in kept : j <= i}) = k)]

\* An accept entry for a state the table does not have.
BuildPanics ==
  /\ phase = "build" /\ numClasses < table.states
  /\ \E i \in DOMAIN table.accepts : table.accepts[i][1] >= table.states
  /\ phase' = "panic"
  /\ UNCHANGED <<table, partition, numClasses, result>>

\* None if no state is saved; else one state per class, with the transitions of
\* its last member.
Build ==
  /\ phase = "build"
  /\ IF numClasses >= table.states THEN UNCHANGED result
     ELSE /\ \A i \in DOMAIN table.accepts : table.accepts[i][1] < table.states
          /\ LET member(c) == Max({s \in State(table) : partition[s] = c})
             IN  result' = [table EXCEPT
                   !.states  = numClasses,
                   !.trans   = [i \in 1 .. numClasses * table.classes |->
                                  TargetClass(member((i - 1) \div table.classes),
                                              (i - 1) % table.classes)],
                   !.accepts = MappedAccepts]
  /\ phase' = "done"
  /\ UNCHANGED <<table, partition, numClasses>>

Next == TooSmall \/ InitialPartition \/ RefinePanics \/ Refine \/ BuildPanics \/ Build

Spec     == Init /\ [][Next]_vars
FairSpec == Spec /\ WF_vars(Next)

------------------------------------------------------------------------------
Words(n) == UNION {[1 .. k -> 0 .. table.classes - 1] : k \in 0 .. n}

\* Two automata of m and n states that differ do so on fewer than m + n bytes.
SameMatches(p, q) ==
  \A w \in Words(p.states + q.states - 1) : Found(p, w, Len(w)) = Found(q, w, Len(w))

\* The patterns of state s.
PatternsOf(p, s) == {p.accepts[i][2] : i \in {k \in DOMAIN p.accepts : p.accepts[k][1] = s}}

\* The states w leads through from state s when matches do not reset the DFA.
Path(p, s, w) ==
  LET at[n \in 0 .. Len(w)] == IF n = 0 THEN s ELSE Target(p, w, at[n - 1], n - 1)
  IN  at

\* The patterns reached from state s by w.
Reports(p, s, w) == PatternsOf(p, Path(p, s, w)[Len(w)])

\* minimize returned a table for one from_parts accepts.
Minimized == phase = "done" /\ result # NoTable /\ ValidParts(table)

Unflagged == \A i \in DOMAIN table.trans : table.trans[i] < Bit31

\* The minimized table is one the constructor accepts, with fewer states: every
\* class has a member and no class gathers states of two patterns.  It finds the
\* same matches, with the same patterns and offsets, in every input; in particular
\* the class of the start state is 0.
MinimizedEquivalent ==
  Minimized =>
    /\ ValidParts(result) /\ result.states < table.states
    /\ Unflagged => SameMatches(table, result)

\* No two states of the minimized table are equivalent: refinement does not stop
\* before the coarsest stable partition is reached, nor splits beyond it.  With
\* flagged transitions it may: those count as transitions to class 0, which is the
\* class without a pattern in the first round and that of the start state later.
NoTwoStatesEquivalent ==
  Minimized /\ Unflagged =>
    \A s, t \in State(result) :
      (\A w \in Words(result.states) : Reports(result, s, w) = Reports(result, t, w)) => s = t

\* A round only ever splits classes, and never merges two states back.
OnlySplits ==
  [][phase = "refine" =>
       \A s, t \in State(table) :
         partition'[s] = partition'[t] => partition[s] = partition[t]]_vars

\* minimize never panics on a table from_parts accepts, flagged or not.
ValidNeverPanics == phase = "panic" => ~ValidParts(table)

\* The refinement loop ends, on every table.
Terminates == <>(phase \in {"done", "panic"})

------------------------------------------------------------------------------
\* minimize is documented to produce a table that accepts the same language, and
\* a transition may carry bit 31 to mark its target as an accept state.  On such
\* a table the minimized one has lost the transition.
SameLanguage == Minimized => SameMatches(table, result)
==============================================================================
