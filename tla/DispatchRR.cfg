SPECIFICATION Spec
CONSTANTS
    p0 = p0
    Proc = {p0, p1}
    Cpu = {c1, c2}
    NoProc = NoProc
    NoCpu = NoCpu
    Root = p0
    Algorithm = "RR"
    NumQueues = 1
    Priority <- SamePriority
    QueueAlgorithm <- AllFifo
    QueuePreemption = FALSE
    Program <- WithStdout
    PromptSend = TRUE
    PromptAnswer = FALSE
    Crashes = TRUE
    Compaction = FALSE
    MaxWakeups = 1
SYMMETRY CpuSymmetry
INVARIANTS
    TypeOK
    ExecListMatchesCpus
    ReadyQueuesMatchStates
    RunsWhereAssigned
    ExecutedOnce
    AvailableCpuIsFree
    EvictionHandshake
CHECK_DEADLOCK FALSE
