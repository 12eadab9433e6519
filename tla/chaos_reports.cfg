CONSTANTS
  Workers = {w1, w2, w3}
  Experiments = {e1}
  NoExperiment = NoExperiment
  Duration = 1
  BufferSec = 1
  MaxTime = 2
  MaxInjections = 0
  FaultWorkers = {v1, v2}
  FaultIds = {f1, f2}
  FaultTypes = {"exception"}
  Durations = {1, 2}
  FaultClockEnd = 2
  AdminToken = "right"
  ChaosEnabled = TRUE
SPECIFICATION ChaosSpec
SYMMETRY ChaosSymmetry
CHECK_DEADLOCK FALSE
INVARIANTS TypeOK ReportSound GaugeAccurate EndedStaysOff
INVARIANTS ClearTakesHold RecordCoversFault
