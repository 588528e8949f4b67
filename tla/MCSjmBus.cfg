SPECIFICATION MCSpec
CONSTANTS
    NPorts = 2
    Kinds = {"RD", "RDWB", "WR16", "RET64"}
    QueueBound = 1
    DeadCycle = TRUE
    FlowControl = TRUE
    Traffics <- MemoryTraffic
    AddrLimit = 4
    DataLimit = 7
    MemSize = 7
    DataSize = 11
    SnoopSize = 20
    ResultSize = 20
    PackSize = 4
INVARIANTS OneDriver NoOverflow
PROPERTIES ReturnsDrain FlowResumes
