----------------------------- MODULE MCDialRace -----------------------------
EXTENDS DialRace, TLC

\* The servers are interchangeable (used where no liveness is checked).
ServerSymmetry == Permutations(Servers)
=============================================================================
