SPECIFICATION FairSpec
CONSTANTS
  Calls = {c1, c2}
  NoCall = NoCall
  IdBound = 2
  MsgBound = 1
CHECK_DEADLOCK FALSE
INVARIANTS ChannelsSafe OwnReply WokenReportCause TableForgets
PROPERTIES EverybodyLeaves ImplementsService
