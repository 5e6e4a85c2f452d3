SPECIFICATION FairSpec
CONSTANTS
  n1 = n1
  n2 = n2
  s1 = s1
  c1 = c1
  None = None
  Notebooks = {n1, n2}
  Sources = {s1}
  Clients = {c1}
  MaxRequests = 2
  MaxFaults = 1
CHECK_DEADLOCK FALSE
INVARIANTS CleanupSafe NotebookGone
PROPERTIES SourcesKept DeletionDecided
