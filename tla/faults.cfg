SPECIFICATION Spec
INVARIANTS
  CopiesAgree
  StuckAtFaults
