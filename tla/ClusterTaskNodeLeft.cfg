SPECIFICATION Spec
CONSTANTS
  Nodes = {n1, n2, n3}
  Callers = {c1, c2}
  AsyncSets = {{}, {c1}, {c1, c2}}
  FirstNode = n1
  NoCaller = NoCaller
  CacheModes = {FALSE}
  MayFail = FALSE
  Attempts = 1
  MayThrow = FALSE
  MaxCrashes = 1
INVARIANT FutureTrueOnlyIfFinished
CHECK_DEADLOCK FALSE
