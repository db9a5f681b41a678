SPECIFICATION Spec
CONSTANTS
  Tasks = {t1, t2}
  Workers = {w1, w2}
  MaxFaults = 1
  None = None
SYMMETRY Symmetry
INVARIANTS
  StampedeIsMerged
  IsolatedTask
  LocksComeBack

