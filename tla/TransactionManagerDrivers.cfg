SPECIFICATION Spec
CONSTANTS
  Participants = {p1, p2, p3, p4}
  Drivers = {"request", "job", "scheduled"}
  MayError = FALSE
  HandlerCommits = TRUE
  HandlerRestarts = FALSE
INVARIANTS
  NoneLeftOpen
  NeverRefused
  RollbackOnlyHonoured
CHECK_DEADLOCK FALSE
SYMMETRY Symmetry
