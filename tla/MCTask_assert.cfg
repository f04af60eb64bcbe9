SPECIFICATION Spec
CONSTANTS
  Tasks = {t1, t2}
  Required = {t1}
  Owner = Owner
  Idle = Idle
CHECK_DEADLOCK FALSE
INVARIANTS
  NoAssertFailure
