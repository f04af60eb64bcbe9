SPECIFICATION FairSpec
CONSTANTS
  ui = ui
  pool = pool
  UI = ui
  Threads = {ui, pool}
  Emissions = {1, 2}
  Connections = {c1}
  Owner <- OwnedByUI
  MaxDelay <- DelaysOnUI
  Handles = {1, 2}
  NoHandle = 0
  Blockers = {b1}
  Self = self
INVARIANTS TypeOK CountsHold
PROPERTIES EventsAreOver BlocksAreOver NoCallAfterRemoval QueuedIsDelivered ExitCompletes
CHECK_DEADLOCK FALSE
