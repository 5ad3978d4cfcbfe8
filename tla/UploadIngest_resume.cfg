SPECIFICATION Spec
CONSTANTS
  Calls = {c1, c2}
  Expected = 3
  MaxTokens = 2
  MaxFaults = 1
SYMMETRY Symmetry
INVARIANTS AcknowledgedIsStored AcceptedIsWhole
CHECK_DEADLOCK FALSE
