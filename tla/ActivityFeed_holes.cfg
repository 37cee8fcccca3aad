CONSTANTS
  Entry = {e1, e2, e3}
  Limit = 2
  Req = {q1, q2}
  MaxClock = 3
  MaxFaults = 3
SPECIFICATION Spec
SYMMETRY Symmetry
CONSTRAINT TicksThatCount
INVARIANTS TypeOK FeedHasNoHoles OnlyEntitled
CHECK_DEADLOCK FALSE
