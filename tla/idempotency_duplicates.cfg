CONSTANTS
  Requests = {r1, r2, r3}
  Keys = {k1}
  Fingerprints = {f1, f2}
  NoRequest = NoRequest
  PendingTtlSec = 1
  IdemTtlSec = 2
  MaxTime = 3
  MaxFaults = 0
  MaxAborts = 1
SPECIFICATION Spec
CHECK_DEADLOCK FALSE
SYMMETRY RequestSymmetry
INVARIANTS TypeOK ExactlyOnce
 
