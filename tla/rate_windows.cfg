CONSTANTS
  Requests = {r1, r2, r3, r4}
  Limit = 2
  WindowSec = 2
  MaxTime = 5
SPECIFICATION Spec
SYMMETRY RequestSymmetry
CHECK_DEADLOCK FALSE
INVARIANTS TypeOK SlidingCapacity FixedCapacity
PROPERTIES RejectedOnlyWhenFull
