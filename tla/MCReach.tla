------------------------------- MODULE MCReach -------------------------------
EXTENDS Reach, TLC

\* The frame tells two addresses, one of them link-local; the other device none.
MCRanks == (Frame :> {0, 2}) @@ (Other :> {})
==============================================================================
