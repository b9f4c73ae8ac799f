SPECIFICATION Spec
CONSTANTS
    NumLogins = 3
    NumUsers = 2
    TransactionSize = 1
    Factors = {2}
    MaxChanges = 1
    MaxFaults = 1
INVARIANTS
    TypeOK
    CountAccurate
    EachEventOnce
    LockedAtFactor
PROPERTIES
    LoginsReleased
    ShutdownEnds
CHECK_DEADLOCK FALSE
