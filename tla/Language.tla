------------------------------- MODULE Language ------------------------------
(***************************************************************************)
(* What a program finds in an input, without a scanning loop: the states   *)
(* the DFA goes through when every accept state is left for the start      *)
(* state, and the patterns of each accept state with those its chain of    *)
(* output links leads to.  The reference the scanners and minimize are     *)
(* compared with.                                                          *)
(***************************************************************************)
EXTENDS Program

\* The output states of s: s, its link, the link of that state, ...
OutputsOf(p) ==
  LET outputs[s \in State(p)] ==
        IF OutputLink(p)[s] = NONE
        THEN <<s>> ELSE <<s>> \o outputs[OutputLink(p)[s]]
  IN  outputs

\* The state the byte at index i of w leads to when the scan is in state s.
Target(p, w, s, i) == Mask(p.trans[s * p.classes + w[i + 1] + 1])

\* The state of the scan before each byte of w, and after the last.
Walk(p, w) ==
  LET at[n \in 0 .. Len(w)] ==
        IF n = 0 THEN 0
        ELSE LET t == Target(p, w, at[n - 1], n - 1)
             IN  IF t \in AcceptStates(p) THEN 0 ELSE t
  IN  at

\* The match of output state s that ends with the byte at index i.
PatternMatch(p, s, i) ==
  LET pid == AcceptPattern(p)[s] IN MatchAt(pid, p.lens[pid + 1], i)

\* All the matches in the first n bytes of w, in order.
Found(p, w, n) ==
  LET walk    == Walk(p, w)
      outputs == OutputsOf(p)
      \* the matches that end with the byte at index i
      Ending(i) == LET t == Target(p, w, walk[i], i)
                   IN  IF t \in AcceptStates(p)
                       THEN [k \in DOMAIN outputs[t] |-> PatternMatch(p, outputs[t][k], i)]
                       ELSE <<>>
      upTo[m \in 0 .. n] == IF m = 0 THEN <<>> ELSE upTo[m - 1] \o Ending(m - 1)
  IN  upTo[n]
==============================================================================
