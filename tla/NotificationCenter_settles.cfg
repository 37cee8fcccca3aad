CONSTANTS
  Tab = {a, b}
  Note = {m, n}
  Req = {q1}
  MaxQueue = 1
  MaxFaults = 1
SPECIFICATION Spec
SYMMETRY Symmetry
INVARIANTS TypeOK OnlyCommitted BadgeSettles
CHECK_DEADLOCK FALSE
