SPECIFICATION Spec
CONSTANTS
    c1 = c1
    s1 = s1
    s2 = s2
    Calls = {c1}
    InitCall = InitCall
    Sessions = {s1, s2}
    NoSession = NoSession
    Options <- MCOptions
INVARIANTS
    TypeOK
    QueuesMatchRequests
    RejectedMeansNoToken
PROPERTIES
    GoodTokenKept
    CallsSettle
    InitSettles
    SessionEndNoticed
CHECK_DEADLOCK FALSE
