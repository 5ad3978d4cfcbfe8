SPECIFICATION Spec
CONSTANTS
  Operators = {op}
  Reporters = {r1}
  Counts = {0, 4}
  MaxOutputs = 2
INVARIANTS EndedIsDark LiveIsOnAir AuthorityIsCurrent
CHECK_DEADLOCK FALSE
