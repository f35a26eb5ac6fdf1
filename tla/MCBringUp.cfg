SPECIFICATION BringUpSpec
CONSTANTS
  me = me
  server = server
  frame = frame
  stranger = stranger
  c1 = c1
  c2 = c2
  Me = me
  Server = server
  Frame = frame
  Ends = {server, frame}
  Stranger = stranger
  Codes = {c1, c2}
  CodeOf <- MCCodeOf
  Plans <- MCPlans
  MesgBound = 1
  SeqMod = 3
  MaxReads = 2
  Outstanding = 2
  WireCap = 2
  PingBound = 4
CHECK_DEADLOCK FALSE
INVARIANTS RttOfOnePing NonceOnce CountersRise TunnelAgrees PairedTogether
PROPERTIES SetupEnds
