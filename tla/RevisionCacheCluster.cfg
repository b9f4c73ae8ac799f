SPECIFICATION FairSpec
CONSTANTS
  Nodes = {n1, n2}
  Keys = {k1}
  Txs = {t1, t2}
  RepeatableRead = TRUE
  EarlierReads = FALSE
  Rowless = {}
  MaxGets = 2
  MaxClears = 0
INVARIANTS
  TypeOK
  StaleOnlyWhilePending
PROPERTY StaleEventuallyGone
CHECK_DEADLOCK FALSE
