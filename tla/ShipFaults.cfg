SPECIFICATION FairSpec
CONSTANTS
  None = None
  Requests <- MCRequests
  Snapshots <- MCSnapshots
  Shippers = {s1}
  Final = 2
  MaxChunk = 2
  MaxSize = 3
  MaxIncarnations = 1
  MaxTears = 1
  MaxFailures = 1
  MaxCrashes = 1
  MaxRestarts = 1
  MaxDeletes = 0
  LateDelivery = TRUE
  JoinMayTimeOut = FALSE
CHECK_DEADLOCK FALSE
INVARIANTS StopDelivers ShippedStatusIsShown AckedIsStored StoredOnceInOrder
PROPERTIES HostIsAStore EventuallyCaughtUp
