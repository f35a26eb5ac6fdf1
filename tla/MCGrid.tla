------------------------------- MODULE MCGrid -------------------------------
\* Instances of Grid for TLC.
EXTENDS Grid
=============================================================================
