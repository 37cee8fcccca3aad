CONSTANTS
  Admins = {"admin"}
  Managers = {"pm1", "pm2"}
  Developers = {"dev1"}
  SeedDb <- SeedDb_MC
  Chips <- Chips_MC
  HandLists <- HandLists_MC
  HandOffsets <- HandOffsets_MC
  Days = {0, 1}
  PageSize = 2
  Slot = {1, 2}
  Now = 2
  Week = 14
  UpcomingLimit = 2
  MaxEdits = 3
  MaxChanges = 1
  MaxFaults = 1
  NewTask = {4}
SPECIFICATION Spec
INVARIANTS TypeOK LatestWins PagesPartition EmptyMeansNone ErrorNamesValue SummaryTrue
CHECK_DEADLOCK FALSE
