CONSTANTS
    MonPorts = {0, 4}
    MonAgents = {0, 12}
    MonLines = {12}
    MonTids = {0}
    MonTypes <- MCTypes
    FifoDepth = 3
    SnoopTimeout = 2
    Bells = {TRUE, FALSE}
    TimedOutLines = {}
    MaxCommands <- MCCommands
    MaxFlow = 1
    MAXUNITS = 2
    DmUnits = {"u", "v"}
    DmTags = {5, 15, 48, 49}
    DmOptions <- MCOptions
    MaxOptions = 2
    DmPolicies <- MCPolicies
    MaxMessages = 3
    Instances <- MCInstances
    ChPorts = {0, 6}
    ChLocal = {0, 6}
    ChModes = {"nodead", "dead", "arthur"}
    ChLengths = {1, 2, 5}
    MaxCycles = 10
    Main = "main"
    Forked = {"reqs"}
    EventTimeout = 1
    MaxClocks = 4
SPECIFICATION Spec
INVARIANTS MonitorExact ShownAsAsked ArbitrationExact AtBarrier
PROPERTY ClocksEnd
CHECK_DEADLOCK FALSE
