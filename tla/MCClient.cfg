SPECIFICATION FairSpec
CONSTANTS
  a = a
  b = b
  Photos = {a, b}
  NoPhoto = NoPhoto
  Size <- MCSize
  Extra <- MCExtra
  Programs <- MCPrograms
  Chunk = 2
  Attempts = 2
  QueueCap = 1
CHECK_DEADLOCK FALSE
INVARIANTS TypeOK RightPhoto NoFalseRefusal AnsweredIsDone
PROPERTIES BatchEnds
