SPECIFICATION Spec
CONSTANTS
  Users = {u1}
  Gifts = {g1}
  Count <- OneOfEach
  Handlers = {h1, h2}
  Consumers = {w1}
  MaxOrders = 2
  MaxRuns = 1
  MaxFaults = 1
  MaxCrashes = 1
  MaxExpiries = 1
  None = None
SYMMETRY Symmetry
INVARIANTS
  StockConserved
  PaidKeepsUnit
  LedgerFollowsVerdict
  LedgerMatchesAdmission
  PendingOrderHasItsMessages
  CancellationIsCarried
PROPERTY VerdictsAreFinal
CHECK_DEADLOCK FALSE
