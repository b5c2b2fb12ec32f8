---------------------------- MODULE MCEvaluation ----------------------------
\* Instance of Evaluation and Failures for TLC: a target of two files in a
\* repository with one more tracked file.
EXTENDS Failures

CONSTANTS hdr, src, fixture

TwoFiles == <<hdr, src>>
=============================================================================
