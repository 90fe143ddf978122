--------------------------- MODULE MC_AhoCorasick ----------------------------
\* AhoCorasick on every list of at most two patterns of at most three bytes, and
\* on lists of three patterns chosen from those of at most two bytes plus the
\* ones that need long failure chains.
EXTENDS AhoCorasick

Strings(n) == UNION {[1 .. k -> {0, 1}] : k \in 0 .. n}

MCLists ==
  UNION {[1 .. k -> Strings(3)] : k \in 0 .. 2}
    \cup [1 .. 3 -> Strings(2)]
    \cup {<<<<0, 0, 1, 0>>, <<0, 1, 0>>, <<0>>>>,
          <<<<1, 0, 1, 0>>, <<0, 1>>, <<1, 0>>, <<0, 1, 0, 1>>>>,
          <<<<0, 0, 0, 0>>, <<0, 0>>, <<0, 0, 1>>, <<1>>>>,
          <<<<0, 1, 1, 0>>, <<1, 1>>, <<1>>, <<0>>>>,
          \* the failure chain of 0110 passes a state of the other subtree
          <<<<0, 1, 1, 0>>, <<1, 1>>, <<1, 0>>>>,
          \* 001 inherits a pattern through 01, which inherits it later
          <<<<0, 0, 1, 0>>, <<0, 1, 1>>, <<1>>>>,
          <<<<0, 0, 0, 0>>, <<1, 1, 1, 1>>, <<0, 1>>>>}
==============================================================================
