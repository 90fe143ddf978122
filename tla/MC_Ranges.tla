------------------------------ MODULE MC_Ranges ------------------------------
\* Ranges on every table of one or two states and up to four classes, one more
\* than there are bytes, with rows or parts of rows missing or added.
EXTENDS Ranges

MCTable(states, classes, trans) ==
  [states |-> states, classes |-> classes, trans |-> trans,
   accepts |-> <<>>, lens |-> <<>>, links |-> <<>>]

MCTables ==
  UNION {UNION {{MCTable(s, c, t) : t \in [1 .. n -> {0, 1, 1 + Bit31}]} :
                  n \in 0 .. (IF s * c < 6 THEN s * c + 1 ELSE 6)} :
           <<s, c>> \in ({1, 2} \X (1 .. 4)) \cup {<<3, 2>>}}
==============================================================================
