SPECIFICATION Spec
CONSTANTS
    p0 = p0
    Proc = {p0, p1, p2}
    Cpu = {c1, c2}
    NoProc = NoProc
    NoCpu = NoCpu
    Root = p0
    Algorithm = "CMN"
    NumQueues = 2
    Priority <- RootFirst
    QueueAlgorithm <- AllFifo
    QueuePreemption = TRUE
    Program <- Allocating
    PromptSend = TRUE
    PromptAnswer = TRUE
    Crashes = FALSE
    Compaction = TRUE
    MaxWakeups = 1
SYMMETRY CpuSymmetry
INVARIANTS
    ListsAgree
CHECK_DEADLOCK FALSE
