SPECIFICATION Spec
CONSTANTS
  Base = 2
  MaxConfigs = 4
  MaxInputs = 2
  Patterns = 4
  Files <- MCFiles
INVARIANTS
  TypeOK
  DetectionsAsRecorded
  CompleteRowsOnly
  CutHeaderUndetected
  FirstRowsNumbered
  FailsOnlyWhenDiverse
  MetricOfOneDetection
  MetricCountsRows
CHECK_DEADLOCK FALSE
