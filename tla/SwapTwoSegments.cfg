SPECIFICATION Spec
CONSTANTS
    Proc = {p1, p2}
    Ids = {0, 1}
    Sizes = {1, 2}
    Total = 5
    Strategy = "WORST"
    BlockSize = 2
    NumBlocks = 3
    SerialAllocation = TRUE
    OneSegmentSwaps = FALSE
    QuietCompaction = TRUE
    PromptStdin = TRUE
INVARIANTS
    SuspendedDataIntact
CHECK_DEADLOCK FALSE
