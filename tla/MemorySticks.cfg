SPECIFICATION FairSpec
CONSTANTS
    Stick = {s1, s2}
    NoStick = NoStick
    Size <- TwoEach
    Cpu = {c1}
    KM = KM
    SegmentTable <- Crossing
    segment_max_size = 3
    KmRegion = {0, 3}
    MaxSize = 2
    Byte = {0, 1, 2}
    Payload <- Numbered
    Word = 16
    SerialJoin = TRUE
    PromptCredentials = TRUE
    Disconnects = {s2}
    MaxAccesses <- CpuTwice
INVARIANTS
    TypeOK
    AddressMapsAgree
PROPERTIES
    ImplementsFlat
    AccessEnds
CHECK_DEADLOCK FALSE
