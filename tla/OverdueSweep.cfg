CONSTANTS
  Instance = {i1, i2}
  Task = {1, 2, 3}
  BatchSize = 2
  Seeds <- Tables
  MaxClock = 2
  Moves = {"TODO", "DONE"}
  MaxEdits = 1
  MaxFaults = 1
SPECIFICATION FairSpec
INVARIANTS TypeOK CompleteSweep FlaggedOnce
PROPERTIES OverdueIsFlagged
