SPECIFICATION FairSpec
CONSTANTS
  Tasks = {t1, t2, f1}
  Required = {t1, t2}
  Owner = Owner
  Idle = Idle
CHECK_DEADLOCK FALSE
INVARIANTS
  TypeOK
  Handshake
  FreedWhenDone
  AwaitedToCompletion
  ReturnsToThread
PROPERTIES
  CallerProceeds
  Reclaimed
