CONSTANTS
  Requests = {r1, r2}
  Keys = {k1}
  Fingerprints = {f1, f2}
  NoRequest = NoRequest
  PendingTtlSec = 1
  IdemTtlSec = 2
  MaxTime = 3
  MaxFaults = 2
  MaxAborts = 1
SPECIFICATION FixedBodySpec
CHECK_DEADLOCK FALSE
INVARIANTS ReplayFaithful
PROPERTIES ImplementsOrderOnce PendingEnds VerdictStable
