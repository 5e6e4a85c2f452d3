SPECIFICATION FairSpec
CONSTANTS
  a = a
  f = f
  i1 = i1
  Users = {a, f}
  Founders = {f}
  Invitations = {i1}
  Issued = {}
  MaxRequests = 2
  MaxUses = 1
  MaxOrg = 4
  MaxAdmin = 2
  Page = 1
  MaxLoopFaults = 1
CHECK_DEADLOCK FALSE
INVARIANTS AccessExplained
PROPERTIES SweepReaches
