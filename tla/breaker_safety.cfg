CONSTANTS
  Requests = {r1, r2, r3}
  NoRequest = NoRequest
  MinRequestCount = 1
  RateNum = 1
  RateDen = 2
  WindowSec = 1
  OpenTimeoutSec = 1
  ProbeTtlSec = 2
  MaxTime = 4
  MaxAborts = 1
SPECIFICATION FairSpec
CHECK_DEADLOCK FALSE
INVARIANTS TypeOK ProbeExclusive FreshFailuresCounted OpenDeadlineBounded
PROPERTIES OnlyProbeMovesOpenDeadline TripJustified LockoutEnds
