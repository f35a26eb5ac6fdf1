SPECIFICATION Spec
CONSTANTS
  Servers = {g1, g2, g3}
  NoServer = NoServer
SYMMETRY ServerSymmetry
CHECK_DEADLOCK FALSE
INVARIANTS StoppedWatcherIsHarmless
