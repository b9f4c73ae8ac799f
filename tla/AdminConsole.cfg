SPECIFICATION ConsoleSpec
CONSTANTS
    r1 = r1
    r2 = r2
    s1 = s1
    s2 = s2
    Calls = {r1, r2}
    InitCall = InitCall
    Sessions = {s1, s2}
    NoSession = NoSession
    Options <- MCOptions
    MaxQuiet = 2
INVARIANTS
    ConsoleTypeOK
    SpinnerMatchesRequests
    TimeoutOfShown
PROPERTIES
    HeaderHasToken
    RequestsEnd
CHECK_DEADLOCK FALSE
