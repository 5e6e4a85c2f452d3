\* Uploads of two actors under the same key, one of them sent again with other bytes;
\* two threads that share one worker_id and come and go, one crash or premature expiry,
\* one reprocess.
SPECIFICATION FairSpec
CONSTANTS
  None = None
  o1 = o1  o2 = o2  j1 = j1  j2 = j2  a1 = a1  a2 = a2  k1 = k1
  b1 = b1  b2 = b2  r1 = r1  c1 = c1  p1 = p1  p2 = p2  w1 = w1
  Objects = {o1, o2}
  FreshIds = {}
  Jobs = {j1, j2}
  Actors = {a1, a2}
  Keys = {k1}
  Bytes = {b1, b2}
  Size <- MCSize
  IdOf <- UploadIds
  ReprocessKeys = {r1}
  Clients = {c1}
  Procs = {p1, p2}
  WorkerIds = {w1}
  IdOfWorker <- SharedWorkerId
  MaxAttempts = 2
  MaxDisturbances = 1
  MaxSent = 2
INVARIANTS LeasesFenced TablesFollow CompletedExplained
PROPERTIES SettleForGood
