SPECIFICATION Spec
CONSTANTS
  Procs = {p1, p2}
  Peers = {a, b}
  NoPeer = NoPeer
  Partial = Partial
  NameBound = 2
  KeyBound = 2
  RunBound = 1
SYMMETRY Symmetry
CHECK_DEADLOCK FALSE
INVARIANTS UsableAtRest
