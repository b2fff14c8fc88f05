SPECIFICATION Spec
CONSTANTS
  Width = 4
  Settle = 5
  Configs <- AllConfigs
  ScanWhileClearing = "1"
  EdgeOrder = "registered"
INVARIANTS
  ConfigLoaded
