SPECIFICATION Spec
CONSTANTS
  Nodes = {n1}
  Keys = {k1}
  Txs = {t1, t2}
  RepeatableRead = FALSE
  EarlierReads = FALSE
  Rowless = {}
  MaxGets = 1
  MaxClears = 0
INVARIANT NoStaleObjectCached
CHECK_DEADLOCK FALSE
SYMMETRY Symmetry
