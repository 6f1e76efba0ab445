SPECIFICATION Spec
CONSTANTS
    Proc = {p1, p2}
    Ids = {0, 1}
    Sizes = {1, 2, 3}
    Total = 5
    Strategy = "BEST"
    BlockSize = 2
    NumBlocks = 3
    SerialAllocation = TRUE
    OneSegmentSwaps = TRUE
    QuietCompaction = TRUE
    PromptStdin = TRUE
SYMMETRY ProcSymmetry
INVARIANTS
    TypeOK
    NoOverlap
    DataIntact
    SuspendedDataIntact
    CompactionSuffices
CHECK_DEADLOCK FALSE
