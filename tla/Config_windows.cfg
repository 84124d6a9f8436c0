CONSTANTS
    HandlerElements <- AllHandlerElements
    GroupElements <- AllGroups
    WindowElements <- AllWindowElements
    Devices <- AllDevices
    Ids <- AllIds
    Windows <- AllWindows
    FirstWindow <- NoTitle
    MaxHandlers = 2
    MaxElements = 3
    MaxDepth = 2
SPECIFICATION Spec
INVARIANTS
    TypeOK
    OutputsFit
    SendsTheInnermost
    OnlyMisfitsAreIdle
    UndefinedOnlyIfFlawed
CHECK_DEADLOCK FALSE
