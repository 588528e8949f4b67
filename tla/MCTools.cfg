CONSTANTS
    GfPrograms <- MCGfPrograms
    LineWords = 2
    PaSpan = 4096
    IndexUnit = 2
    IndexSpan = 4
    TagUnit = 2
    DataBase = 1000
    SpLines <- MCSpLines
    SpLength = 4
    Threads = {0, 1}
    Regs = {1, 8, 16, 24, 32, 35, 40, 89, 108}
    Floats = {0, 1}
    Windows = {0}
    ScPrograms <- MCScPrograms
    CMD_BUFSIZE = 4
    SEND_MAX = 3
    NODE_SIZE = 3
    SsLengths = {1, 2, 5}
    SsBytes = 11
    SlThreads = {0, 1}
    SlWrites <- MCSlWrites
    SlCommands <- MCSlCommands
    SlNodes = 4
    SlPushes = 4
    Calls <- MCCalls
    MaxCalls = 3
    MaxTrans = 2
    MaxResets = 1
    NumDev = 2
    PipeCap = 4
    TreeKeys = {1, 2, 3, 4, 5}
    Items = {1, 2, 3, 4}
    Addrs = {0, 1, 2, 4, 5, 7, 8}
    Data = {1, 2}
    Lo = 1
    Hi = 7
    Radix = 3
    Slots = 3
    QueueSize = 3
    Lines <- MCLines
SPECIFICATION Spec
INVARIANTS SourceToImage VerdictExact WireInOrder ListsExact AnswersMatch
PROPERTIES CallsReturn Collections
CHECK_DEADLOCK FALSE
