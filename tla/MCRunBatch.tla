----------------------------- MODULE MCRunBatch -----------------------------
\* Instance of RunBatch for TLC: two targets of one repository, in order.
EXTENDS RunBatch

CONSTANTS t1, t2

FirstSecond == <<t1, t2>>
=============================================================================
