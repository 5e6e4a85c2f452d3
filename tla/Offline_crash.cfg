SPECIFICATION OfflineSpec
SYMMETRY Symmetric
CHECK_DEADLOCK FALSE
CONSTANTS
  Copies = {c1}
  Sources = {s1}
  Objects = {o1, o2, o3}
  Contexts = {x1}
  Requests = {q1}
  Keys = {k1, k2}
  Previews = {p1}
  Edits = {e1, e2}
  Jobs = {j1}
  MaxModel = 2
  MaxStates = 2
  MaxVersions = 3
  MaxFails = 1
  MaxFaults = 2
INVARIANTS StoreExplained SentCurrent DoneOnce
