CONSTANTS
    mouse = mouse
    log = log
    net = net
    NoHandler = NoHandler
    Devices <- OneDevice
    Debuggers <- OneLog
    Servers <- OneServer
    Watchers = {}
    Windowed <- OneDevice
    PollTicks = 3
    AcceptTicks = 2
    JoinTicks = 8
    MaxBusy = 4
    MaxSignals = 2
SPECIFICATION FairSpec
INVARIANTS
    IInv
    TypeOK
    NeverAborted
    WaitsAreLongEnough
    NoWriteAfterClose
    CleanRestart
PROPERTIES
    TerminatingIsSeen
    ImplementsDaemon
    TermEndsDaemon
    HupComesBack
