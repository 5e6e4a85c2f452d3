CONSTANTS
  r1 = r1
  r2 = r2
  r3 = r3
  k2 = k2
  k3 = k3
  Reqs = {r1, r2, r3}
  Keys = {k2, k3}
  Lineage = {k3}
  NoReq = NoReq
  MaxSelection = 2
  MaxFaults = 1
SPECIFICATION FairSpec
CHECK_DEADLOCK FALSE
INVARIANTS BackupsKept OneBackup
PROPERTIES EndsMarked
