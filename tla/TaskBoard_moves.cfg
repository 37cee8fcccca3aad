CONSTANTS
  dev1 = dev1
  dev2 = dev2
  pm1 = pm1
  Admins = {}
  Managers = {pm1}
  Developers = {dev1}
  Request = {r1, r2, r3}
  SeedProject = {p1}
  SeedTask = {t1}
  Unsteady = {dev1}
  Patches <- Moves
SPECIFICATION Spec
SYMMETRY Symmetry
INVARIANTS CompletionInStep TrailMatches
PROPERTIES SweepRecordsReplaced
CHECK_DEADLOCK FALSE
