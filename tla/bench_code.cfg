SPECIFICATION Spec
CONSTANTS
  Width = 16
  Settle = 17
  EdgeOrder = "registered"
  ScanWhileClearing = "1"
  Answers <- SmallCampaign
  Rands <- OneRand
  Tails <- NoTail
  MaxRuns = 1
INVARIANTS
  TypeOK
PROPERTIES
  ImplementsScanChain
  NearerTheEnd
