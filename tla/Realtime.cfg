CONSTANTS
  Role <- Role_MC
  TTL = 2
  MaxMounts = 2
  MaxTime = 4
  MaxFaults = 1
  MaxChanges = 1
SPECIFICATION Spec
INVARIANTS TypeOK StaleRoomBounded NoGhostSocket
PROPERTY ComesBack
CHECK_DEADLOCK FALSE
