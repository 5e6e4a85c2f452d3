CONSTANTS
  e1 = e1
  e2 = e2
  v1 = v1
  k1 = k1
  k2 = k2
  Executors = {e1, e2}
  Previewers = {v1}
  Keys = {k1, k2}
  NoExecutor = NoExecutor
  Phases = 2
  MaxDecision = 2
  MaxPreviews = 2
  MaxStarts = 3
  MaxFaults = 2
SPECIFICATION Spec
SYMMETRY Symmetric
CHECK_DEADLOCK FALSE
INVARIANTS PhasesExact OneFate
PROPERTIES EndsForGood
