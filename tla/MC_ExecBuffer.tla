---------------------------- MODULE MC_ExecBuffer ----------------------------
\* ExecBuffer with two threads and three DFAs: one for the JIT, of two pages,
\* one for the interpreter, one too large; four pages, so that addresses are
\* reused and mmap finds no room between other mappings.
EXTENDS ExecBuffer

CONSTANTS t1, t2, large, interpreted, huge

MCStateCount == [d \in Dfas |->
                   CASE d = large -> 2 [] d = interpreted -> 3 [] d = huge -> 9]
\* The large one ends inside its second page.
MCCodeLength == [d \in Dfas |-> IF d = large THEN 6 ELSE 4]
==============================================================================
