SPECIFICATION Spec
CONSTANTS
  None = None
  Requests <- MCRequests
  Snapshots <- MCSnapshots
  Shippers = {s1}
  Final = 1
  MaxChunk = 1
  MaxSize = 2
  MaxIncarnations = 3
  MaxTears = 0
  MaxFailures = 1
  MaxCrashes = 0
  MaxRestarts = 1
  MaxDeletes = 1
  LateDelivery = TRUE
  JoinMayTimeOut = FALSE
CHECK_DEADLOCK FALSE
ACTION_CONSTRAINTS RotatedOrDeleted OneTrouble
INVARIANTS OldFileNeverAfterNew
PROPERTIES HistoryIsACopy
