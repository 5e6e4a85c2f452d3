SPECIFICATION FairSpec
CONSTANTS
  r1 = r1
  r2 = r2
  Requests = {r1, r2}
  Initial <- MCInitial
  External <- MCExternal
  MaxModel = 2
  MaxPolicy = 2
  MaxChanges = 2
  NoRequest = NoRequest
CHECK_DEADLOCK FALSE
INVARIANTS CallsApproved AnswersAgree
PROPERTIES OwnersDecide
