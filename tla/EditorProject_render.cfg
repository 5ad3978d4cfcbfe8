SPECIFICATION Spec
CONSTANTS
  Requests = {r1, r2}
  Exports = {e1}
  Filled = {"versions", "tracks"}
  Together = 1
INVARIANTS ReadyIsRendered  
SYMMETRY Symmetry
CHECK_DEADLOCK FALSE
