SPECIFICATION FairSpec
CONSTANTS
  Nodes = {n1, n2}
  Callers = {c1, c2, c3}
  AsyncSets = {{}, {c1}, {c1, c2}, {c1, c2, c3}}
  FirstNode = n1
  NoCaller = NoCaller
  CacheModes = {TRUE, FALSE}
  MayFail = FALSE
  Attempts = 1
  MayThrow = FALSE
  MaxCrashes = 1
PROPERTIES
  WaitersReleased
  LockEventuallyReleased
CHECK_DEADLOCK FALSE
