CONSTANTS
  Requests = {r1, r2}
  Keys = {k1}
  Fingerprints = {f1}
  NoRequest = NoRequest
  PendingTtlSec = 1
  IdemTtlSec = 2
  MaxTime = 2
  MaxFaults = 0
  MaxAborts = 0
SPECIFICATION Spec
CHECK_DEADLOCK FALSE
SYMMETRY RequestSymmetry
PROPERTIES SuccessIsTerminal
