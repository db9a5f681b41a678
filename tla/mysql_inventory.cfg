SPECIFICATION Spec
CONSTANTS
  Users = {u1, u2}
  Gifts = {g1}
  Count <- OneUnit
  Workers = {w1, w2}
  GateCapacity = 1
  MaxEpochs = 1
  MaxFaults = 1
  None = None
SYMMETRY Symmetry
INVARIANTS
  UnitsAddUp
  UnpaidHasItsTimeout
PROPERTIES
  VerdictsStand
  RollbackIsOwn
