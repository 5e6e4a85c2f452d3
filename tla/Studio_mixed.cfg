SPECIFICATION FairSpec
CONSTANTS
  t1 = t1
  l1 = l1
  w1 = w1
  w2 = w2
  None = None
  Typed = {t1}
  Legacy = {l1}
  StepUp = {t1}
  Workers = {w1, w2}
  MaxAttempts = 3
  MaxChanges = 1
  MaxDisturbances = 1
CHECK_DEADLOCK FALSE
INVARIANTS SentAtMostOnce RecordsTrue
PROPERTIES SettleForGood
