CONSTANTS
  Requests = {r1, r2, r3}
  NoRequest = NoRequest
  MinRequestCount = 1
  RateNum = 1
  RateDen = 2
  WindowSec = 1
  OpenTimeoutSec = 1
  ProbeTtlSec = 2
  MaxTime = 3
  MaxAborts = 0
SPECIFICATION Spec
SYMMETRY RequestSymmetry
CHECK_DEADLOCK FALSE
PROPERTIES ProbeSuccessCloses
