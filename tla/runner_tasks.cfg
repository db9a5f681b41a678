SPECIFICATION Spec
CONSTANTS
  Tasks = {t1, t2}
  Experiments = {"burst", "breakdown"}
  Evictors = {e1, e2}
  Pages = {}
  Window = 2
  MaxStored = 1
  MaxTicks = 1
  MaxFaults = 1
  MaxCrashes = 1
  None = None
SYMMETRY Symmetry
INVARIANTS
  OneActiveTask
  ChildHasItsTask
  StoppedMeansOver
  EvictedOncePerAnswer
PROPERTY StatusHistory
