SPECIFICATION FairSpec
CONSTANTS
  Tasks = {t1}
  Experiments = {"read", "burst", "penetration"}
  Evictors = {}
  Pages = {p1}
  Window = 2
  MaxStored = 2
  MaxTicks = 1
  MaxFaults = 1
  MaxCrashes = 1
  None = None
INVARIANT EachEventReachesThePage
PROPERTIES
  EveryTaskEnds
  PageLearnsTheEnd
CHECK_DEADLOCK FALSE
