SPECIFICATION FairSpec
CONSTANTS
  Requests = {r1, r2}
  Batches <- OneRequest
  Readers = {q1}
  Initial = 1
  MaxBatches = 2
  MaxResets = 1
  MaxFaults = 1
  MaxCrashes = 1
  None = None
INVARIANTS
  StockMatchesOrders
  EventsMatchOrders
  CompletedMeansDeleted
  StaleCopyHasReason
PROPERTIES
  SettledEventsAreFinal
  OpenEventSettles
CHECK_DEADLOCK FALSE
