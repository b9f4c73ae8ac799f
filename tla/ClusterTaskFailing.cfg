SPECIFICATION TimedSpec
CONSTANTS
  Nodes = {n1, n2}
  Callers = {c1, c2, c3}
  AsyncSets = {{c1}}
  FirstNode = n1
  NoCaller = NoCaller
  CacheModes = {FALSE}
  MayFail = TRUE
  Attempts = 2
  MayThrow = TRUE
  MaxCrashes = 1
INVARIANTS
  TypeOK
  MutualExclusion
PROPERTY CallsReturn
CHECK_DEADLOCK FALSE
