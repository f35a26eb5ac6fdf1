SPECIFICATION FairSpec
CONSTANTS
  Senders = {s1, s2}
  NoSender = NoSender
  SendBound = 2
  Count = 3
  Absorbed = {2}
  RecvCap = 1
  FramesCap = 1
  WindowCap = 1
CHECK_DEADLOCK FALSE
INVARIANTS DeliveredInOrder WireReadable
PROPERTIES SendReturns LoopsEnd
