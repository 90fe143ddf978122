---------------------------- MODULE MC_JitScan -----------------------------
\* JitScan on every table of two states and on chained programs, with short
\* inputs and with two whose last ends are past 2^32.
EXTENDS JitScan, ScanExamples

LongInputs == {[i \in 1 .. U32 + 1 |-> IF i < U32 THEN 0 ELSE 1],
               [i \in 1 .. U32 + 2 |-> IF i < U32 + 2 THEN 0 ELSE 1]}

MCInputs == Strings(4) \cup LongInputs
MCCaps   == 0 .. 3
==============================================================================
