SPECIFICATION Spec
CONSTANTS
  Answers <- ShortAnswers
  Rands = {111349}
  Tails <- MCTails
  ScanWhileClearing = "1"
  MaxRuns = 2
  Levels = {"1"}
INVARIANT
  StringEndsWithLine
CHECK_DEADLOCK FALSE
