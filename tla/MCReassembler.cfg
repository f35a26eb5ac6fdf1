SPECIFICATION PartsSpec
CONSTANTS
  w = w
  x = x
  y = y
  z = z
  Messages = {w, x, y, z}
  Length <- MCLength
  ChunkSize = 2
  MaxPartial = 2
  MaxTotal = 6
  IntMax = 7
INVARIANTS ReturnedWhole HeldAddsUp
PROPERTY NotPushedOut
