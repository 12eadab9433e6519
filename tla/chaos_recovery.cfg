CONSTANTS
  Workers = {w1, w2}
  Experiments = {e1}
  NoExperiment = NoExperiment
  Duration = 1
  BufferSec = 1
  MaxTime = 3
  MaxInjections = 1
SPECIFICATION FairSpec
CHECK_DEADLOCK FALSE
PROPERTIES AutoRecovers
