SPECIFICATION Spec
CONSTANTS
  Files = {1, 2}
  Html = {1}
  Scans = {s1, s2}
  MaxChanges = 3
INVARIANTS KeptAreAlive
CHECK_DEADLOCK FALSE
