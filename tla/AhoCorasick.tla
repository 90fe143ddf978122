----------------------------- MODULE AhoCorasick -----------------------------
(***************************************************************************)
(* JitDfa::from_patterns: the patterns become a trie, the trie an          *)
(* Aho-Corasick automaton, and the automaton the program given to          *)
(* compile_with_output_links.  One behaviour is one construction; an       *)
(* action is one turn of a loop of the source.                             *)
(***************************************************************************)
EXTENDS Program, SequencesExt

CONSTANTS PatternLists,   \* the arguments: sequences of byte strings
          MaxStates       \* TransitionTable::MAX_STATES

ASSUME PatternListsAssumption == \A ps \in PatternLists : ps \in Seq(Seq(Byte))
ASSUME MaxStatesAssumption    == MaxStates \in Nat /\ MaxStates <= Bit31

VARIABLES patterns,     \* the argument, fixed
          phase,        \* "insert", "bfs", "link", "propagate", "table", "done"
          pid,          \* index of the pattern being inserted
          offset,       \* bytes of it inserted
          current,      \* the trie state they lead to
          stateCount,   \* number of trie states
          trans,        \* trans[state][byte], 0 where there is no child
          accepts,      \* <<state, pid>> in insertion order
          lengths,      \* lengths[pid + 1], 0 for an empty pattern
          fail,         \* failure links
          queue,        \* states the breadth-first walk has yet to expand
          accState,     \* acc_state: the pattern ids of each state
          outputLink,   \* output_link
          state,        \* loop index of the link and propagate passes
          result        \* the program, an error, or Pending

trieVars  == <<pid, offset, current, stateCount, trans, accepts, lengths>>
linkVars  == <<fail, queue, accState, outputLink, state>>
vars      == <<patterns, phase, trieVars, linkVars, result>>

Pending      == [pending |-> TRUE]
EmptyDfa     == [error |-> "EmptyDfa"]
InvalidTable == [error |-> "InvalidTable"]
TooMany      == [error |-> "TooManyStates"]

States == 0 .. stateCount - 1

Init ==
  /\ patterns \in PatternLists
  /\ phase = "insert"
  /\ pid = 0 /\ offset = 0 /\ current = 0
  /\ stateCount = 1
  /\ trans = [s \in {0} |-> [b \in Byte |-> 0]]
  /\ accepts = <<>>
  /\ lengths = [i \in DOMAIN patterns |-> 0]
  /\ fail = <<>> /\ queue = <<>> /\ accState = <<>> /\ outputLink = <<>> /\ state = 0
  /\ result = Pending

------------------------------------------------------------------------------
(***************************************************************************)
(* The trie.                                                               *)
(***************************************************************************)

\* No pattern at all.
RejectEmpty ==
  /\ phase = "insert" /\ patterns = <<>>
  /\ result' = EmptyDfa
  /\ phase' = "done"
  /\ UNCHANGED <<patterns, trieVars, linkVars>>

Inserting == phase = "insert" /\ pid < Len(patterns)
Pattern   == patterns[pid + 1]
Child     == trans[current][Pattern[offset + 1]]

\* The next byte of the pattern has a child already.
FollowByte ==
  /\ Inserting /\ offset < Len(Pattern)
  /\ Child # 0
  /\ current' = Child
  /\ offset' = offset + 1
  /\ UNCHANGED <<patterns, phase, pid, stateCount, trans, accepts, lengths, linkVars, result>>

\* The next byte of the pattern needs a new state.
AddState(count) ==
  /\ Inserting /\ offset < Len(Pattern)
  /\ Child = 0
  /\ trans' = [s \in 0 .. stateCount |->
                 IF s = stateCount THEN [b \in Byte |-> 0]
                 ELSE IF s = current
                      THEN [trans[s] EXCEPT ![Pattern[offset + 1]] = stateCount]
                      ELSE trans[s]]
  /\ stateCount' = count
  /\ current' = stateCount
  /\ offset' = offset + 1
  /\ UNCHANGED <<patterns, phase, pid, accepts, lengths, linkVars, result>>

\* Mutant: the new state is not counted.
NewStateUncounted == AddState(stateCount)

NewState == AddState(stateCount + 1)

\* The pattern is in the trie; an empty pattern is skipped and keeps length 0.
\* The next one starts from the given state.
FinishAt(root) ==
  /\ Inserting /\ offset = Len(Pattern)
  /\ IF Pattern = <<>> THEN UNCHANGED <<accepts, lengths>>
     ELSE /\ accepts' = Append(accepts, <<current, pid>>)
          /\ lengths' = [lengths EXCEPT ![pid + 1] = Len(Pattern)]
  /\ pid' = pid + 1 /\ offset' = 0 /\ current' = root
  /\ UNCHANGED <<patterns, phase, stateCount, trans, linkVars, result>>

\* Mutant: it starts where this one ended.
FinishPatternKeepsCurrent == FinishAt(current)

FinishPattern == FinishAt(0)

------------------------------------------------------------------------------
(***************************************************************************)
(* build_failure_links.                                                    *)
(***************************************************************************)

\* The elements of seq that are in S, in order: SelectSeq for a set, with a body
\* that proofs can expand.
Kept(seq, S) ==
  LET kept[n \in 0 .. Len(seq)] ==
        IF n = 0 THEN <<>>
        ELSE IF seq[n] \in S THEN Append(kept[n - 1], seq[n]) ELSE kept[n - 1]
  IN  kept[Len(seq)]

\* The children of trie state s, in byte order.
Children(s) == Kept([i \in 1 .. ByteCount |-> trans[s][i - 1]], States \ {0})

\* The pattern ids accepts lists for state s.
OwnPatterns(s) ==
  LET pairs == Kept(accepts, {s} \X Nat)
  IN  [i \in DOMAIN pairs |-> pairs[i][2]]

\* The arrays, and the depth-1 states in the queue.
StartLinks ==
  /\ phase = "insert" /\ patterns # <<>> /\ pid = Len(patterns)
  /\ fail' = [s \in States |-> 0]
  /\ accState' = [s \in States |-> OwnPatterns(s)]
  /\ outputLink' = [s \in States |-> NONE]
  /\ queue' = Children(0)
  /\ phase' = "bfs"
  /\ UNCHANGED <<patterns, trieVars, state, result>>

\* The child on b of the first state on the failure chain of s that has one;
\* 0 when not even the root has.
FailTarget(s, b) ==
  LET target[f \in States] ==
        IF f # 0 /\ trans[f][b] = 0 THEN target[fail[f]] ELSE trans[f][b]
  IN  target[fail[s]]

\* One turn of the queue loop: pop a state, enqueue its children and give each
\* its failure link.
ExpandHead(rest) ==
  /\ phase = "bfs" /\ queue # <<>>
  /\ queue' = rest
  /\ LET s == Head(queue)
     IN  fail' = [q \in States |->
                    IF \E b \in Byte : trans[s][b] = q /\ q # 0
                    THEN FailTarget(s, CHOOSE b \in Byte : trans[s][b] = q)
                    ELSE fail[q]]
  /\ UNCHANGED <<patterns, phase, trieVars, accState, outputLink, state, result>>

\* Mutant: depth first.
BfsStepDepthFirst == ExpandHead(Children(Head(queue)) \o Tail(queue))

BfsStep == ExpandHead(Tail(queue) \o Children(Head(queue)))

EndBfs ==
  /\ phase = "bfs" /\ queue = <<>>
  /\ phase' = "link"
  /\ state' = 0
  /\ UNCHANGED <<patterns, trieVars, fail, queue, accState, outputLink, result>>

\* The first state with a pattern on the failure chain of s, s excluded, or 0.
NearestPattern(s) ==
  LET nearest[f \in States] ==
        IF f = 0 \/ accState[f] # <<>> THEN f ELSE nearest[fail[f]]
  IN  nearest[fail[s]]

\* Output link of one state: only for a state with a pattern of its own.
LinkTo(target) ==
  /\ phase = "link" /\ state < stateCount
  /\ outputLink' = IF accState[state] # <<>> /\ target # 0
                   THEN [outputLink EXCEPT ![state] = target] ELSE outputLink
  /\ state' = state + 1
  /\ UNCHANGED <<patterns, phase, trieVars, fail, queue, accState, result>>

\* Mutant: the link is the failure link, with a pattern or not.
LinkStateToFail == LinkTo(fail[state])

LinkState == LinkTo(NearestPattern(state))

EndLink ==
  /\ phase = "link" /\ state = stateCount
  /\ phase' = "propagate"
  /\ state' = 0
  /\ UNCHANGED <<patterns, trieVars, fail, queue, accState, outputLink, result>>

\* A state without a pattern takes the first one of the given state.
PropagateFrom(source) ==
  /\ phase = "propagate" /\ state < stateCount
  /\ accState' = IF accState[state] = <<>> /\ source # 0
                 THEN [accState EXCEPT ![state] = <<Head(accState[source])>>]
                 ELSE accState
  /\ state' = state + 1
  /\ UNCHANGED <<patterns, phase, trieVars, fail, queue, outputLink, result>>

\* Mutant: only the failure link itself is looked at.
PropagateStateNoWalk ==
  PropagateFrom(IF accState[fail[state]] # <<>> THEN fail[state] ELSE 0)

\* The source is the nearest state on the failure chain that has a pattern by
\* now: states are visited in insertion order, and those visited before may hold
\* a pattern they were given.
PropagateState == PropagateFrom(NearestPattern(state))

EndPropagate ==
  /\ phase = "propagate" /\ state = stateCount
  /\ phase' = "table"
  /\ UNCHANGED <<patterns, trieVars, linkVars, result>>

------------------------------------------------------------------------------
(***************************************************************************)
(* build_dense_table and compile_with_output_links.                        *)
(***************************************************************************)

\* Mutant: every pattern of a state is listed.
FinalAcceptsEvery ==
  FlattenSeq([i \in 1 .. stateCount |->
                [k \in DOMAIN accState[i - 1] |-> <<i - 1, accState[i - 1][k]>>]])

\* final_accepts: one pattern per state, the first of its list.
FinalAccepts ==
  LET accepting == Kept([i \in 1 .. stateCount |-> i - 1],
                        {s \in States : accState[s] # <<>>})
  IN  [i \in DOMAIN accepting |-> <<accepting[i], Head(accState[accepting[i]])>>]

\* Mutant: a missing transition goes to the root.
DenseTargetToRoot(s, b) == trans[s][b]

\* The transition of state s on byte b, failure links followed.
DenseTarget(s, b) ==
  LET target[c \in States] ==
        IF trans[c][b] # 0 \/ c = 0 THEN trans[c][b] ELSE target[fail[c]]
  IN  target[s]

BuiltProgram ==
  [states  |-> stateCount,
   classes |-> ByteCount,
   trans   |-> [i \in 1 .. stateCount * ByteCount |->
                  DenseTarget((i - 1) \div ByteCount, (i - 1) % ByteCount)],
   accepts |-> FinalAccepts,
   lens    |-> lengths,
   links   |-> [i \in 1 .. stateCount |-> outputLink[i - 1]]]

\* TransitionTable::new refuses large tables, compile_with_output_links invalid
\* ones; a construction that ends well hands its program to the code generator.
BuildTable ==
  /\ phase = "table"
  /\ result' = IF stateCount > MaxStates THEN TooMany
               ELSE IF Compilable(BuiltProgram) THEN BuiltProgram ELSE InvalidTable
  /\ phase' = "done"
  /\ UNCHANGED <<patterns, trieVars, linkVars>>

Next ==
  \/ RejectEmpty \/ FollowByte \/ NewState \/ FinishPattern
  \/ StartLinks \/ BfsStep \/ EndBfs \/ LinkState \/ EndLink
  \/ PropagateState \/ EndPropagate \/ BuildTable

Spec == Init /\ [][Next]_vars

------------------------------------------------------------------------------
(***************************************************************************)
(* The strings the automaton is about.                                     *)
(***************************************************************************)

\* The string that leads from the root to each trie state.
Paths ==
  LET path[s \in States] ==
        IF s = 0 THEN <<>>
        ELSE LET e == CHOOSE e \in (0 .. s - 1) \X Byte : trans[e[1]][e[2]] = s
             IN  Append(path[e[1]], e[2])
  IN  path

NonEmpty == {p \in ToSet(patterns) : p # <<>>}

\* Their prefixes.
PrefixStrings == UNION {Prefixes(p) : p \in NonEmpty}

\* The longest string of S that is a suffix of w, <<>> when there is none.
LongestSuffixIn(S, w) ==
  LET suffixes == {v \in S : IsSuffix(v, w)} \cup {<<>>}
  IN  CHOOSE v \in suffixes : \A u \in suffixes : Len(u) <= Len(v)

\* The states whose failure link is final: not below a state still to expand.
Linked == LET path == Paths
          IN  {s \in States : phase # "insert" /\
                 \A i \in DOMAIN queue : ~ IsStrictPrefix(path[queue[i]], path[s])}

------------------------------------------------------------------------------
\* The variables have their types.
TypeOK ==
  /\ patterns \in PatternLists
  /\ phase \in {"insert", "bfs", "link", "propagate", "table", "done"}
  /\ pid \in 0 .. Len(patterns) /\ offset \in Nat /\ current \in States
  /\ stateCount \in Nat \ {0}
  /\ trans \in [States -> [Byte -> States]]
  /\ accepts \in Seq(States \X Nat)
  /\ lengths \in Seq(Nat) /\ Len(lengths) = Len(patterns)
  /\ phase \in {"bfs", "link", "propagate", "table"} =>
       /\ fail \in [States -> States]
       /\ accState \in [States -> Seq(0 .. Len(patterns) - 1)]
       /\ outputLink \in [States -> States \cup {NONE}]
  /\ queue \in Seq(States) /\ state \in 0 .. stateCount

\* Once all patterns are in, the trie has exactly one state per prefix of a
\* non-empty pattern, and accepts names the state of every one of them, in the
\* order in which they were given.
TrieIsPrefixTree ==
  phase # "insert" =>
    LET path == Paths
    IN  /\ {path[s] : s \in States} = PrefixStrings \cup {<<>>}
        /\ \A s, t \in States : path[s] = path[t] => s = t
        /\ {<<path[a[1]], a[2]>> : a \in ToSet(accepts)}
             = {<<patterns[i], i - 1>> : i \in {j \in DOMAIN patterns : patterns[j] # <<>>}}
        /\ \A i, j \in DOMAIN accepts : i < j => accepts[i][2] < accepts[j][2]

\* A failure link, from the moment the walk has set it, leads to the longest
\* proper suffix of the state's string that is in the trie: the walk reads the
\* links of shallower states only, which are final by then.
FailIsLongestSuffix ==
  phase \notin {"insert", "done"} =>
    LET path == Paths
    IN  \A s \in Linked \ {0} :
          path[fail[s]] = LongestSuffixIn({path[t] : t \in States}, Tail(path[s]))

\* After the link pass the output link of a pattern's state leads to the state
\* of its longest proper suffix that is a pattern; the other states have none.
LinksAreNextPattern ==
  phase \in {"propagate", "table"} =>
    LET path == Paths
    IN  \A s \in States :
          LET next == IF path[s] \in NonEmpty
                      THEN LongestSuffixIn(NonEmpty, Tail(path[s])) ELSE <<>>
          IN  IF next = <<>> THEN outputLink[s] = NONE
              ELSE outputLink[s] # NONE /\ path[outputLink[s]] = next

\* After the propagation pass a state has a pattern exactly when some pattern
\* is a suffix of its string, and the one it reports is the longest of them, the
\* first given if there are several: the order in which the pass visits the
\* states does not matter.
AcceptsLongestSuffix ==
  phase = "table" =>
    LET path == Paths
    IN  \A s \in States :
          LET longest == LongestSuffixIn(NonEmpty, path[s])
          IN  IF longest = <<>> THEN accState[s] = <<>>
              ELSE /\ accState[s] # <<>>
                   /\ Head(accState[s]) = SelectInSeq(patterns, LAMBDA p : p = longest) - 1

\* The program a construction ends with moves, from the state of v on byte b, to
\* the longest suffix of v b in the trie.
DenseIsLongestSuffix ==
  result \notin {Pending, EmptyDfa, InvalidTable, TooMany} =>
    LET path == Paths
    IN  \A s \in States, b \in Byte :
          path[result.trans[s * ByteCount + b + 1]]
            = LongestSuffixIn({path[t] : t \in States}, Append(path[s], b))

\* A construction fails only on an empty list or a trie of too many states; the
\* program it returns satisfies all that the scanners need, in particular every
\* chain of output links ends.
BuildsWellFormed ==
  phase = "done" =>
    IF patterns = <<>> THEN result = EmptyDfa
    ELSE IF stateCount > MaxStates THEN result = TooMany
    ELSE WellFormed(result)
==============================================================================
