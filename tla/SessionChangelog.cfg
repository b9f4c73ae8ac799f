SPECIFICATION Spec
CONSTANTS
    t1 = t1
    t2 = t2
    t3 = t3
    Txs = {t1, t2, t3}
    Local = {t1, t2}
    First = First
    Absent = Absent
    Retries = 2
    MaxTasks = 3
    Brief = {t3}
INVARIANTS
    TypeOK
    DroppedOnlyAfterRaces
    RunOncePerRace
PROPERTY ImplementsStore
CHECK_DEADLOCK FALSE
SYMMETRY Symmetry
