CONSTANTS
  Request = {r1, r2, r3, r4}
  TTL = 1
  MaxClock = 2
SPECIFICATION Spec
SYMMETRY Symmetry
INVARIANT LogoutEndsSession
CHECK_DEADLOCK FALSE
