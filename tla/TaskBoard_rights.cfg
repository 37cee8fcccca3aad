CONSTANTS
  dev1 = dev1
  dev2 = dev2
  pm1 = pm1
  Admins = {admin}
  Managers = {pm1, pm2}
  Developers = {dev1, dev2}
  Request = {r1, r2}
  SeedProject = {p1}
  SeedTask = {t1}
  Unsteady = {}
  Patches <- Handovers
SPECIFICATION Spec
SYMMETRY Symmetry
INVARIANTS TypeOK NoOrphans
PROPERTIES RightsAtWrite NewAssigneeTold
CHECK_DEADLOCK FALSE
