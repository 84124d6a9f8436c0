CONSTANTS
    HandlerElements <- SomeHandlerElements
    GroupElements <- TildeGroups
    WindowElements <- TildeWindows
    Devices <- AllDevices
    Ids <- AllIds
    Windows <- AllWindows
    FirstWindow <- NoTitle
    MaxHandlers = 2
    MaxElements = 3
    MaxDepth = 2
SPECIFICATION Spec
INVARIANTS
    InheritsFromNearest
CHECK_DEADLOCK FALSE
