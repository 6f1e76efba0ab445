SPECIFICATION FairSpec
CONSTANTS
    p1 = p1
    p2 = p2
    stdin1 = stdin1
    stdout1 = stdout1
    Proc = {p1, p2}
    Device = {stdin1, stdout1}
    NoDevice = NoDevice
    Type <- InAndOut
    Program <- Transfers
    Priority <- ByName
    MaxCalls <- OneEach
    Fixed = {stdout1}
    MaxSuspensions = 1
    MaxUpdates = 0
PROPERTY IoIsServed
CHECK_DEADLOCK FALSE
