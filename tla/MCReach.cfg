SPECIFICATION FairSpec
CONSTANTS
  Frame = frame
  Other = other
  NoOne = nobody
  Ranks <- MCRanks
  PacketCap = 1
  MaxHold = 2
CHECK_DEADLOCK FALSE
INVARIANTS RightFrame LookupIsTrue
PROPERTIES CallerKeepsIt ReachSettles
