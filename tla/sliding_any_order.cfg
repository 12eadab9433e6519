CONSTANTS
  Requests = {r1, r2, r3, r4}
  Limit = 2
  WindowSec = 2
  MaxTime = 3
SPECIFICATION Spec
SYMMETRY RequestSymmetry
CHECK_DEADLOCK FALSE
INVARIANTS WindowCapacity
