SPECIFICATION Spec
CONSTANTS
  Senders = {s1}
  NoSender = NoSender
  SendBound = 2
  Count = 4
  Absorbed = {2}
  RecvCap = 1
  FramesCap = 1
  WindowCap = 1
CHECK_DEADLOCK FALSE
INVARIANTS ArrivedIsDelivered
