CONSTANTS
  Workers = {w1, w2, w3}
  Experiments = {e1}
  NoExperiment = NoExperiment
  Duration = 1
  BufferSec = 1
  MaxTime = 0
  MaxInjections = 0
SPECIFICATION Spec
CHECK_DEADLOCK FALSE
SYMMETRY WorkerSymmetry
INVARIANTS ActiveGaugeCounts
