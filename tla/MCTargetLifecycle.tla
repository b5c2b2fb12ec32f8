-------------------------- MODULE MCTargetLifecycle --------------------------
\* Instance of TargetLifecycle for TLC: one target, three run ids.
EXTENDS TargetLifecycle

CONSTANTS t1
=============================================================================
