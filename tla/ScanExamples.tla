----------------------------- MODULE ScanExamples ----------------------------
(***************************************************************************)
(* Small programs for the models of the scanners: every table of two       *)
(* states without output links, as JitDfa::compile passes them on, and     *)
(* programs with chains of output links, as from_patterns builds them.     *)
(***************************************************************************)
EXTENDS Program

\* The program of two byte values with states in rows of targets.
Table(rows, accepts, lens, links) ==
  [states |-> Len(rows), classes |-> 2,
   trans |-> [i \in 1 .. 2 * Len(rows) |-> rows[(i + 1) \div 2][2 - (i % 2)]],
   accepts |-> accepts, lens |-> lens, links |-> links]

Flag(t) == t + Bit31

TwoStateAccepts == {<<>>, <<<<1, 0>>>>, <<<<0, 1>>>>, <<<<0, 1>>, <<1, 0>>>>}

\* Every unflagged table of two states; pattern 0 is longer than pattern 1.
TwoState == {Table(<<r, q>>, a, <<2, 1>>, <<>>) :
               r, q \in {0, 1} \X {0, 1}, a \in TwoStateAccepts}

\* The caller may set bit 31 itself on transitions into accept states.
FlaggedTable == Table(<<<<0, Flag(1)>>, <<Flag(1), 0>>>>, <<<<1, 0>>>>, <<2>>, <<>>)

\* No accept state and no pattern: the pattern-length table is one padding word.
NoPatterns == Table(<<<<1, 0>>, <<0, 1>>>>, <<>>, <<>>, <<>>)

\* from_patterns(a, ba), bytes a = 0 and b = 1: on "ba" both match.
ChainOfTwo ==
  Table(<<<<1, 2>>, <<1, 2>>, <<3, 2>>, <<1, 2>>>>,
        <<<<1, 0>>, <<3, 1>>>>, <<1, 2>>, <<NONE, NONE, NONE, 1>>)

\* from_patterns(a, ba, bba): three matches end with the last byte of "bba".
ChainOfThree ==
  Table(<<<<1, 2>>, <<1, 2>>, <<3, 4>>, <<1, 2>>, <<5, 4>>, <<1, 2>>>>,
        <<<<1, 0>>, <<3, 1>>, <<5, 2>>>>, <<1, 2, 3>>,
        <<NONE, NONE, NONE, 1, NONE, 3>>)

SmallPrograms == TwoState \cup {FlaggedTable, NoPatterns, ChainOfTwo, ChainOfThree}

\* Every string of at most n bytes.
Strings(n) == UNION {[1 .. k -> {0, 1}] : k \in 0 .. n}
==============================================================================
