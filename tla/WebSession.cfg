CONSTANTS
  Tab = {tab1, tab2}
  Call = {c1, c2}
  Auth = {a1, a2}
  MaxToken = 3
  MaxFaults = 1
SPECIFICATION Spec
SYMMETRY Symmetry
INVARIANTS TypeOK ReuseNeedsCause JarIsCurrent StaysOut WaitsForRefresh
CHECK_DEADLOCK FALSE
