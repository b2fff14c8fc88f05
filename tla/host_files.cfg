SPECIFICATION Spec
CONSTANTS
  Answers <- MCAnswers
  Rands <- MCRands
  Tails <- MCTails
  ScanWhileClearing = "1"
  MaxRuns = 2
  Levels = {"1"}
INVARIANTS
  TypeOK
  NoReadPastEnd
  GoldenFirst
  WordAsNamed
  EachUnderItsHeader
  MatrixWhenEnded
  FileOfOneCampaign
PROPERTIES
  ImplementsCampaign
CHECK_DEADLOCK FALSE
