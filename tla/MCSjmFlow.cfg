SPECIFICATION MCSpec
CONSTANTS
    NPorts = 2
    Kinds = {"RD"}
    QueueBound = 1
    DeadCycle = TRUE
    FlowControl = TRUE
    Traffics <- SnoopsOnly
    AddrLimit = 4
    DataLimit = 7
    MemSize = 36
    DataSize = 63
    SnoopSize = 36
    ResultSize = 36
    PackSize = 4
INVARIANT PacksFit
