SPECIFICATION Spec
CONSTANTS
  Participants = {p1, p2, p3, p4}
  Drivers = {"request"}
  MayError = TRUE
  HandlerCommits = TRUE
  HandlerRestarts = TRUE
INVARIANTS
  TypeOK
  AfterOnlyIfMainCommitted
  SuccessMeansCommitted
CHECK_DEADLOCK FALSE
SYMMETRY Symmetry
