---------------------------- MODULE MC_RegexBuild ----------------------------
\* RegexBuild on lists of up to two patterns over two bytes: alternatives, the
\* empty match, anchors, words inside one another, too many states.
EXTENDS RegexBuild

Regex(words, first, last) == [words |-> words, first |-> first, last |-> last]
Literal(w) == Regex({w}, FALSE, FALSE)

Single ==
  {Regex(words, first, last) :
     words \in {{<<0>>}, {<<0, 1>>}, {<<0>>, <<0, 0>>}, {<<1>>, <<0, 1>>}, {<<>>, <<0>>}, {<<0, 1, 0>>}},
     first \in BOOLEAN, last \in BOOLEAN}

MCLists ==
  {<<>>} \cup {<<p>> : p \in Single} \cup {<<p, q>> : p, q \in Single}
         \cup {<<Literal(<<0, 0, 1, 1>>)>>}

\* One literal.
OneLiteral == {<<Literal(<<0, 1>>)>>}
==============================================================================
