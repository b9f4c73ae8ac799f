SPECIFICATION Spec
CONSTANTS
  Nodes = {n1}
  Keys = {k1, k2}
  Txs = {t1, t2}
  RepeatableRead = TRUE
  EarlierReads = TRUE
  Rowless = {2}
  MaxGets = 1
  MaxClears = 1
INVARIANT OnlyCommittedRowsCached
CHECK_DEADLOCK FALSE
SYMMETRY Symmetry
