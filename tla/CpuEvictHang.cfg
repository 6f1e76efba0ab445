SPECIFICATION FairSpec
CONSTANTS
    Proc = {p1, p2}
    NoProc = NoProc
    Ctx = {0, 1}
    Ctx0 = 0
    PromptEvict = FALSE
    MaxCreate = 1
    MaxHandled = 1
PROPERTIES
    EvictIsConfirmed
CHECK_DEADLOCK FALSE
