----------------------------- MODULE MCRunTarget -----------------------------
\* Instance of RunTarget for TLC: two targets of one repository, told apart by
\* nothing but their name.
EXTENDS RunTarget

CONSTANTS t1, t2
=============================================================================
