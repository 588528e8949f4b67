CONSTANTS
    IobCpus = {0, 1}
    IobMenu <- MCIobMenu
    IobEvents <- MCIobEvents
    IobRequests = 2
    ReqWaits = {0}
    UcbWords = 1
    DmCases <- MCDmCases
    DmProbes <- MCDmProbes
    DmWords = {"x"}
    Hundred = 3
    DmAccesses = 2
    SmImages <- MCSmImages
    SmKeys = {1, 2, 11, 19, 40}
    SmThreads = {0, 1}
    SmValues = {50}
    SmWrites = 2
    WordBytes = 2
    LineWords = 2
    SsiRequests <- MCSsiRequests
    SsiErrors <- MCSsiErrors
    FrameBits = 2
    SsiWaits = {0, 2}
    EcErrors = {{1}, {0, 2}, {0, 1, 2, 3}}
    AvKeys = {1, 2, 3, 4, 5, 6}
    AvData = {0, 1}
    AvSteps = 7
    WmModes <- MCWmModes
    WmMemory <- MCWmMemory
    WmLists <- MCWmLists
    WmRows <- MCWmRows
    L2Ways = 2
    WmFlips = {3, 7}
    WmCycles = 3
    EvFiles <- MCEvFiles
    EvPorts = {0, 1}
    EvCalls = 8
SPECIFICATION Spec
INVARIANTS IobAnswers DramKeeps SysMemExact EccCorrects AvlFinds WarmedExact ErrorsCorrectable HeldAsAsked
CHECK_DEADLOCK FALSE
