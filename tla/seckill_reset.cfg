SPECIFICATION Spec
CONSTANTS
  Users = {u1}
  Gifts = {g1}
  Count <- OneOfEach
  Handlers = {h1, h2}
  Consumers = {w1}
  MaxOrders = 2
  MaxRuns = 2
  MaxFaults = 1
  MaxCrashes = 0
  MaxExpiries = 0
  None = None
SYMMETRY Symmetry
INVARIANT NothingSurvivesReset
PROPERTY ImplementsLifecycle
CHECK_DEADLOCK FALSE
