---------------------------- MODULE LiteralMatch -----------------------------
(***************************************************************************)
(* from_patterns followed by one scan: AhoCorasick builds the program and  *)
(* InterpScan runs it.  JitScan implements InterpScan, so what is said of  *)
(* the scan here holds of the machine code.  The promise is stated on      *)
(* strings: which occurrences of the patterns in the input are reported.   *)
(***************************************************************************)
EXTENDS AhoCorasick

CONSTANTS Inputs,   \* the inputs scanned
          Caps      \* the lengths of the match buffers passed to scan

ASSUME InputsAssumption == \A w \in Inputs : w \in Seq(Byte)
ASSUME CapsAssumption   == \A c \in Caps : c \in Nat

VARIABLES prog, input, call, cap, pos, scanState, count, buf, cursor, pc, ret

scanVars  == <<prog, input, call, cap, pos, scanState, count, buf, cursor, pc, ret>>
matchVars == <<vars, scanVars>>

Scan == INSTANCE InterpScan WITH Programs <- {}, state <- scanState

\* Before the scan is called.
Unset == "unset"

MatchInit ==
  /\ Init
  /\ prog = Unset /\ input = <<>> /\ call = Unset /\ cap = 0
  /\ pos = 0 /\ scanState = 0 /\ count = 0 /\ buf = <<>>
  /\ cursor = NONE /\ pc = "build" /\ ret = Scan!NoValue

BuildStep == Next /\ UNCHANGED scanVars

\* The caller of a JitDfa that from_patterns returned scans an input.
StartScan ==
  /\ pc = "build"
  /\ phase = "done"
  /\ result \notin {EmptyDfa, InvalidTable, TooMany}
  /\ prog' = result
  /\ input' \in Inputs
  /\ \/ call' = "scan"  /\ cap' \in Caps
     \/ call' = "first" /\ cap' = 1
  /\ buf' = [i \in 0 .. cap' - 1 |-> Untouched]
  /\ pc' = "loop"
  /\ UNCHANGED <<vars, pos, scanState, count, cursor, ret>>

ScanStep == Scan!Next /\ UNCHANGED vars

MatchNext == BuildStep \/ StartScan \/ ScanStep
MatchSpec == MatchInit /\ [][MatchNext]_matchVars

------------------------------------------------------------------------------
(***************************************************************************)
(* Matching on strings, without an automaton.                              *)
(***************************************************************************)
IdOf(p) == SelectInSeq(patterns, LAMBDA q : q = p) - 1

\* The patterns that end w, longest first.
Ending(w) ==
  LET E == {p \in NonEmpty : IsSuffix(p, w)}
  IN  [k \in 1 .. Cardinality(E) |->
         CHOOSE p \in E : Cardinality({q \in E : Len(q) >= Len(p)}) = k]

\* The patterns reported where the segment w, that began after the last match,
\* ends: every pattern that ends w, when the longest of them is also the longest
\* end of w that begins a pattern; else the longest alone, since only a pattern's
\* own state has output links.
Reported(w) ==
  LET ending   == Ending(w)
      begun    == {v \in PrefixStrings : IsSuffix(v, w)}
      ownState == \A v \in begun : Len(v) <= Len(ending[1])
  IN  IF ending = <<>> \/ ownState THEN ending ELSE <<ending[1]>>

\* The match that says that the n bytes read so far end with pattern p.
Occurrence(p, n) == [pid |-> IdOf(p), start |-> n - Len(p), end |-> n]

\* All matches in w: leftmost end first, and on from there.
NaiveMatches(w) ==
  LET at[n \in 0 .. Len(w)] ==
        IF n = 0 THEN [from |-> 0, found |-> <<>>]
        ELSE LET here == Reported(SubSeq(w, at[n - 1].from + 1, n))
             IN  [from  |-> IF here = <<>> THEN at[n - 1].from ELSE n,
                  found |-> at[n - 1].found
                              \o [k \in DOMAIN here |-> Occurrence(here[k], n)]]
  IN  at[Len(w)].found

------------------------------------------------------------------------------
\* scan fills the buffer with the occurrences NaiveMatches names and returns how
\* many of them it stored: trie, failure links, output links, propagation, the
\* dense table, the accept flags and the reset after a match work together.
ScanIsNaive ==
  (pc = "done" /\ call = "scan") =>
    LET found == NaiveMatches(input)
    IN  /\ ret = AtMost(Len(found), cap)
        /\ \A i \in 0 .. cap - 1 :
             buf[i] = IF i < Len(found) THEN found[i + 1] ELSE Untouched

\* has_match answers the question on the patterns: is one of them, other than
\* the empty one, somewhere in the input?
HasMatchIffOccurs ==
  (pc = "done" /\ call = "first") =>
    (ret > 0 <=> \E i, j \in 0 .. Len(input) : SubSeq(input, i + 1, j) \in NonEmpty)
==============================================================================
