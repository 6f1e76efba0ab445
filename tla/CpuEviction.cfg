SPECIFICATION FairSpec
CONSTANTS
    Proc = {p1, p2}
    NoProc = NoProc
    Ctx = {0, 1}
    Ctx0 = 0
    PromptEvict = TRUE
    MaxCreate = 1
    MaxHandled = 1
INVARIANTS
    TypeOK
    ContextIsCurrent
    NothingLeftOver
PROPERTIES
    ImplementsContract
    EvictIsConfirmed
CHECK_DEADLOCK FALSE
