SPECIFICATION FairSpec
CONSTANTS
  p1 = p1
  p2 = p2
  Profiles = {p1, p2}
  Default = p1
  Pages = {page}
  Queue = queue
  Remove = remove
  Reset = reset
  ViewCount <- OneAndTwo
  MaxInputs = 3
INVARIANTS TypeOK ProfileIsolation Restartable Settled
PROPERTIES QueueDrains SavingResumes ShutdownEnds
CHECK_DEADLOCK FALSE
