SPECIFICATION FairSpec
CONSTANTS
  s1 = s1
  f1 = f1
  f2 = f2
  w1 = w1
  w2 = w2
  None = None
  Sources = {s1}
  Bound = {s1}
  Reviewable = {s1}
  Facts = {f1, f2}
  Workers = {w1, w2}
  MaxRuns = 3
  MaxDisturbances = 2
CHECK_DEADLOCK FALSE
INVARIANTS RunsAgree HistoryExact
PROPERTIES LateWorkersHarmless ImplementsLifecycle JobsSettle
