SPECIFICATION FairSpec
CONSTANTS
  Users = {u1}
  Gifts = {g1}
  Count <- OneOfEach
  Handlers = {h1, h2}
  Consumers = {w1}
  MaxOrders = 1
  MaxRuns = 1
  MaxFaults = 1
  MaxCrashes = 1
  MaxExpiries = 0
  None = None
PROPERTIES
  UnpaidUnitIsReleased
  CancellationReachesLedger
CHECK_DEADLOCK FALSE
