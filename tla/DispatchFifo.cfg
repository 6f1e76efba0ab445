SPECIFICATION Spec
CONSTANTS
    p0 = p0
    Proc = {p0, p1, p2}
    Cpu = {c1, c2}
    NoProc = NoProc
    NoCpu = NoCpu
    Root = p0
    Algorithm = "FIFO"
    NumQueues = 1
    Priority <- SamePriority
    QueueAlgorithm <- AllFifo
    QueuePreemption = FALSE
    Program <- Everything
    PromptSend = FALSE
    PromptAnswer = FALSE
    Crashes = FALSE
    Compaction = FALSE
    MaxWakeups = 1
SYMMETRY CpuSymmetry
INVARIANTS
    ListsAgree
PROPERTIES
    ExitIsFinal
CHECK_DEADLOCK FALSE
