SPECIFICATION Spec
CONSTANTS
  Base = 3
  MaxConfigs = 4
  MaxInputs = 2
  Patterns = 4
  Files <- CompleteFiles
INVARIANTS
  MetricIsMean
CHECK_DEADLOCK FALSE
