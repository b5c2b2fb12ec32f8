------------------------- MODULE MCMinimalExperiment -------------------------
\* Instance of MinimalExperiment for TLC.
EXTENDS MinimalExperiment
=============================================================================
