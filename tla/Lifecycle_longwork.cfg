CONSTANTS
    mouse = mouse
    log = log
    net = net
    NoHandler = NoHandler
    Devices <- OneDevice
    Debuggers = {}
    Servers <- OneServer
    Watchers = {}
    Windowed <- OneDevice
    PollTicks = 3
    AcceptTicks = 2
    JoinTicks = 8
    MaxBusy = 11
    MaxSignals = 2
SPECIFICATION Spec
INVARIANTS
    NeverAborted
