SPECIFICATION Spec
CONSTANTS
  Files = {1, 2, 3}
  Html = {1}
  Scans = {s1, s2}
  MaxChanges = 3
INVARIANTS ShowsFolder
PROPERTIES  FolderSettles
CHECK_DEADLOCK FALSE
