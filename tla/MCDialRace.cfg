SPECIFICATION FairSpec
CONSTANTS
  Servers = {g1, g2, g3}
  NoServer = NoServer
CHECK_DEADLOCK FALSE
INVARIANTS FailsOnlyIfAllFail WinnerOutlivesRace
PROPERTIES RaceSettles
