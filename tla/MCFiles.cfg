SPECIFICATION Spec
CONSTANTS
  Procs = {p1, p2}
  Commands <- MCCommands
  Photos <- MCPhotos
  TakenAt <- MCTakenAt
  Whole = 2
  MaxBytes = 2
  Bodies <- MCBodies
CHECK_DEADLOCK FALSE
INVARIANTS FinishedIsWhole SavedIsThere SentIsWhole DiskGivenBack
