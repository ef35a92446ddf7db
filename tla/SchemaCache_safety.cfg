SPECIFICATION Spec
CONSTANTS
  Files = {f1, f2}
  Editors = {e1}
  Pullers = {p1}
  Worker = worker
  MaxRev = 2
  MaxBuilds = 3
  MaxFaults = 2
SYMMETRY Symmetry
INVARIANTS TypeOK SchemaReadYourWrites StaleCacheIsOwed
CHECK_DEADLOCK FALSE
