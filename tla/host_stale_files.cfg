SPECIFICATION Spec
CONSTANTS
  Answers <- MCAnswers
  Rands <- MCRands
  Tails <- MCTails
  ScanWhileClearing = "1"
  MaxRuns = 2
  Levels = {"1"}
INVARIANT
  FilesAreCreated
CHECK_DEADLOCK FALSE
