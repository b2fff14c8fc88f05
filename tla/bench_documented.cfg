SPECIFICATION Spec
CONSTANTS
  Width = 16
  Settle = 17
  EdgeOrder = "registered"
  ScanWhileClearing = "0"
  Answers <- Campaigns
  Rands <- TwoRands
  Tails <- NoTail
  MaxRuns = 1
INVARIANTS
  ConfigLoaded
PROPERTIES
  ImplementsCampaign
