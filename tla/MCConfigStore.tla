---------------------------- MODULE MCConfigStore ----------------------------
EXTENDS ConfigStore, TLC

\* Frames are interchangeable, and so are processes.
Symmetry == Permutations(Peers) \cup Permutations(Procs)
=============================================================================
