CONSTANTS
  Request = {r1, r2, r3}
  TTL = 1
  MaxClock = 1
SPECIFICATION FairSpec
PROPERTIES Answered
CHECK_DEADLOCK FALSE
