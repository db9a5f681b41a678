SPECIFICATION Spec
CONSTANTS
  Requests = {r1, r2}
  Pages = {p1}
  Self = self
  StoreEvery = 1
  MaxRuns = 2
  MaxResets = 1
  MaxFaults = 1
  None = None
SYMMETRY Symmetry
INVARIANTS
  TypeOK
  PublisherIsReleased
  ReportMatchesLedger
  CompletedIsTrue
  UnfinishedHasReason
CHECK_DEADLOCK FALSE
