--------------------------- MODULE MC_LiteralMatch ---------------------------
\* LiteralMatch on lists of at most three patterns over two byte values, with
\* every input of at most five bytes and buffers that fill up or do not.
EXTENDS LiteralMatch

Strings(n) == UNION {[1 .. k -> {0, 1}] : k \in 0 .. n}

MCLists ==
  (Strings(3) \X {<<1>>, <<0, 1>>, <<1, 0>>, <<0, 1, 0>>, <<>>})
    \cup [1 .. 3 -> {<<0>>, <<1, 0>>, <<0, 1>>, <<1, 1, 0>>}]
    \cup {<<<<0, 0, 1, 0>>, <<0, 1, 0>>, <<0>>>>,
          <<<<1, 0, 1, 0>>, <<0, 1>>, <<1, 0>>, <<0, 1, 0, 1>>>>,
          <<<<0, 0, 1, 0>>, <<0, 1, 1>>, <<1>>>>,
          <<<<0, 1, 1, 0>>, <<1, 1>>, <<1>>>>}

MCInputs == Strings(5)
MCCaps   == {2, 15}
==============================================================================
