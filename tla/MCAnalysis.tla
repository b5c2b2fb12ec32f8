----------------------------- MODULE MCAnalysis -----------------------------
\* Instances of Analysis for TLC.
EXTENDS Analysis

CONSTANTS t1, t2

NoneSimilar == {}

\* As riscv-simulator-register and riscv-simulator-registerfile.
FirstInSecond == {<<t1, t2>>}
=============================================================================
