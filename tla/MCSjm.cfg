CONSTANTS
    FrSetups <- Setups
    OutqMax = 512
    QueueMax = 36
    AddrOverflow = 4
    DataOverflow = 7
    MaxLines = 4
    Ports = {1, 2}
    Files <- Programs
    PostRst = 1
    ChangeInitiate = 1
    ChangeWait = 2
    CmdTimeout = 9
    OrbTimeout = 3
    IntTimeout = 3
    OutqDepth = 2
    OrbSize = 2
    LastTarget = 1
    Targets = {1}
    RetryDelay = 1
    MaxCycle = 11
    MaxPulses = 1
    CohPorts = {1, 2}
    Addrs = {1, 2}
    Home <- MCHome
    Index <- MCIndex
    Cmds <- MCCmds
    CohOrbSize = 2
    MaxCmds = 2
INIT MCInit
NEXT MCNext
INVARIANTS StartedAsAsked AcceptedIsExecutable CountersCover SyncRendezvous Coherent
