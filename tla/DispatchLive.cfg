SPECIFICATION FairSpec
CONSTANTS
    p0 = p0
    Proc = {p0, p1}
    Cpu = {c1}
    NoProc = NoProc
    NoCpu = NoCpu
    Root = p0
    Algorithm = "RR"
    NumQueues = 1
    Priority <- SamePriority
    QueueAlgorithm <- AllFifo
    QueuePreemption = FALSE
    Program <- WithStdout
    PromptSend = TRUE
    PromptAnswer = FALSE
    Crashes = FALSE
    Compaction = FALSE
    MaxWakeups = 1
PROPERTIES
    ReadyIsDispatched
CHECK_DEADLOCK FALSE
