---------------------------- MODULE MC_InterpScan ----------------------------
\* InterpScan on every table of two states and on chained programs.
EXTENDS InterpScan, ScanExamples

MCInputs == Strings(4)
MCCaps   == 0 .. 3

\* The README's table for "ab" and an input with two occurrences.
QuickStart == {Table(<<<<1, 0>>, <<0, 2>>, <<0, 0>>>>, <<<<2, 0>>>>, <<2>>, <<>>)}
QuickStartInput == {<<0, 1, 0, 1>>}
==============================================================================
