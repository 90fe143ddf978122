------------------------------ MODULE RegexDfa -------------------------------
(***************************************************************************)
(* External: the DFA the crate regex-automata builds for a list of         *)
(* patterns, as from_regex_patterns sees it through start_state_forward,   *)
(* next_state, next_eoi_state and match_pattern.  The search is unanchored *)
(* and MatchKind::All keeps every pattern alive; the match states are one  *)
(* byte late, which next_eoi_state makes up for.                           *)
(*                                                                         *)
(* A pattern is a finite language [words, first, last]: a set of byte      *)
(* sequences, anchored by ^ if first and by $ if last.                     *)
(***************************************************************************)
EXTENDS Integers, Sequences, FiniteSets, FiniteSetsExt, SequencesExt

Longest(pats) == Max({0} \cup UNION {{Len(w) : w \in pats[i].words} : i \in DOMAIN pats})

\* Pattern p has a match that ends with the text, given the last bytes of the
\* text and whether they are the whole of it.
Matches(p, seen, whole) ==
  \E w \in p.words : IsSuffix(w, seen) /\ (p.first => whole /\ w = seen)

\* The patterns, numbered from 0, that match there.
Matching(pats, seen, whole) ==
  {pid \in 0 .. Len(pats) - 1 : Matches(pats[pid + 1], seen, whole)}

\* A state: the last bytes read, whether they are all, and the patterns whose
\* match is reported one byte late.
RegexStart == [seen |-> <<>>, whole |-> TRUE, late |-> {}]

NextState(pats, s, b) ==
  LET read == Append(s.seen, b)
      fits == Len(read) <= Longest(pats)
  IN  [seen  |-> IF fits THEN read ELSE Tail(read),
       whole |-> s.whole /\ fits,
       late  |-> {pid \in Matching(pats, s.seen, s.whole) : ~pats[pid + 1].last}]

\* The numbers in S, the smallest first.
Ascending(S) ==
  [k \in 1 .. Cardinality(S) |-> CHOOSE n \in S : Cardinality({m \in S : m <= n}) = k]

\* The patterns of the match state next_eoi_state leads to, in order.
EoiPatterns(pats, s) == Ascending(Matching(pats, s.seen, s.whole))
==============================================================================
