----------------------------- MODULE MC_Minimize -----------------------------
\* Minimize on every table of three states over two classes with two patterns,
\* on tables of five states that need several rounds, and on invalid ones.
EXTENDS Minimize

\* At most one pattern per state, in state order.
AcceptLists(n, pids) ==
  {SelectSeq([i \in 1 .. n |-> <<i - 1, f[i]>>], LAMBDA a : a[2] # NONE) :
     f \in [1 .. n -> pids \cup {NONE}]}

Parts(n, trans, accepts) ==
  [states |-> n, classes |-> 2, trans |-> trans, accepts |-> accepts,
   lens |-> <<1, 2>>, links |-> <<>>]

\* A line of states that all loop on 1: the accept state's distance is found one
\* round at a time.
Line(accepts) == Parts(5, <<1, 0, 2, 1, 3, 2, 4, 3, 4, 4>>, accepts)
\* Pairs of states that mirror each other.
Mirror(accepts) == Parts(5, <<1, 2, 3, 0, 4, 0, 3, 3, 4, 4>>, accepts)

\* State 1 accepts and is only reached through a flagged transition.
FlaggedTables ==
  {Parts(3, <<1 + Bit31, 0, 0, 0, 2, 2>>, <<<<1, 0>>>>),
   Parts(3, <<1 + Bit31, 2, 0, 0, 0, 2>>, <<<<1, 0>>>>),
   Parts(4, <<0, 0, 0 + Bit31, 0, 0, 0, 0, 0>>, <<<<0, 0>>>>)}

\* Tables the other calls can leave: entries too few or too many, an accept
\* entry for a state that is not there, two patterns for one state.
MutatedTables ==
  {[Parts(2, t, a) EXCEPT !.states = n] :
     n \in 1 .. 3, t \in {<<0, 0, 0>>, <<0, 1, 0, 0>>, <<0, 0, 0, 0, 0>>, <<0, 1, 1, 0, 2, 2>>},
     a \in {<<>>, <<<<1, 0>>>>, <<<<3, 0>>>>, <<<<1, 0>>, <<1, 1>>>>}}

MCTables ==
  {Parts(3, t, a) : t \in [1 .. 6 -> 0 .. 2], a \in AcceptLists(3, {0, 1})}
    \cup {Parts(1, <<0, 0>>, a) : a \in AcceptLists(1, {0})}
    \cup {Line(a) : a \in AcceptLists(5, {0, 1})}
    \cup {Mirror(a) : a \in AcceptLists(5, {0, 1})}
    \cup FlaggedTables \cup MutatedTables
==============================================================================
