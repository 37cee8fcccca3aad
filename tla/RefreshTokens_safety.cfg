\* Four requests: one opens the session, three race on its tokens.
CONSTANTS
  Request = {r1, r2, r3, r4}
  TTL = 1
  MaxClock = 2
SPECIFICATION Spec
SYMMETRY Symmetry
INVARIANTS TypeOK SingleUse OneLivePerFamily ReplayEndsSuccessor RevocationEndsFamily WaitsAreOrdered
PROPERTIES ImplementsChain
\* Requests are used once: when all are answered only SetActive is left.
CHECK_DEADLOCK FALSE
