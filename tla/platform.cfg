CONSTANTS
  Configs <- SampleConfigs
  RunPlans <- SamplePlans
  RunRetries = 1
  MaxRuns = 3
  Suites <- SampleSuites
  EvalPolicy <- SamplePolicy
  LlmPlans <- SampleLlmPlans
  EvalRetries = 1
  Samples <- SampleRuns
  BenchmarkRuns = 2
  Worlds <- SampleWorlds
  Scores <- SampleScores
  Settings <- SampleSettings
  Definitions <- SampleDefinitions
  OldReports <- SampleReports
  MaxAge = 1
  TrendWindow = 1
  HistoryKeep = 2
  MaxTime = 2
  MaxJobs = 3
SPECIFICATION AllSpec
CHECK_DEADLOCK FALSE
INVARIANTS OnlyBlockedRunsLeak TracesAttributed TracesFinished OnlyPermittedSent
INVARIANTS ScoreTellsTheTruth VerdictFromOwnRun PassRestsOnReports
