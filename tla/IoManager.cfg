SPECIFICATION Spec
CONSTANTS
    p1 = p1
    p2 = p2
    stdin1 = stdin1
    stdout1 = stdout1
    Proc = {p1, p2}
    Device = {stdin1, stdout1}
    NoDevice = NoDevice
    Type <- InAndOut
    Program <- Calls
    Priority <- ByName
    MaxCalls <- TwoAndOne
    Fixed = {stdout1}
    MaxSuspensions = 1
    MaxUpdates = 1
INVARIANTS
    TypeOK
    OneRequest
    NoIdleWhilePending
    ReadyOnce
    ListedForState
    NotSwappedOut
CHECK_DEADLOCK FALSE
