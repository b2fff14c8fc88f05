SPECIFICATION FairSpec
CONSTANTS
  Width = 16
  Settle = 17
  EdgeOrder = "ctrl_first"
  ScanWhileClearing = "0"
  Answers <- SmallCampaign
  Rands <- OneRand
  Tails <- NoTail
  MaxRuns = 2
PROPERTIES
  StableWhileDriven
  ImplementsScanChain
  ScanCompletes
  ImplementsCampaign
