SPECIFICATION Spec
CONSTANTS
  Base = 10
  MaxConfigs = 12
  MaxInputs = 1
  Patterns = 2
  Files <- TwelveConfigs
INVARIANTS
  NumberedAsPrinted
CHECK_DEADLOCK FALSE
