SPECIFICATION Spec
CONSTANTS
  Workers = {w1, w2}
  Burst = 4
  Cost = 2
  MaxClock = 5
  TripThreshold = 2
  HalfOpenMax = 1
  HalfOpenSuccess = 2
SYMMETRY Symmetry
INVARIANTS
  RateIsKept
  StuckHasReason
