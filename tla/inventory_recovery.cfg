SPECIFICATION RecoverySpec
CONSTANTS
  Users = {u1, u2}
  Gifts = {g1}
  Count <- OneOfEach
  Handlers = {h1}
  Consumers = {w1}
  MaxOrders = 2
  MaxRuns = 1
  MaxFaults = 1
  MaxCrashes = 1
  MaxExpiries = 1
  None = None
SYMMETRY Symmetry
INVARIANT NeverOversold
CHECK_DEADLOCK FALSE
