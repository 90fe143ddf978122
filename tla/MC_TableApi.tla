----------------------------- MODULE MC_TableApi -----------------------------
\* TableApi with two-bit words: two states and two classes of transitions, ids
\* up to the largest, a class count that does not fit a word.
EXTENDS TableApi

MCShapes == {<<0, 2>>, <<0, U32>>, <<1, 0>>, <<1, 2>>, <<2, 1>>, <<2, 2>>, <<2, 3>>, <<3, 1>>}
==============================================================================
