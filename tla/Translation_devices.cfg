CONSTANTS
    Junk = Junk
    Buttons <- AllButtons
    MiscButtons <- AllMisc
    LateKeys <- AllLate
    Devices = {"two outputs", "one output", "mouse", "shortcuts", "burst"}
    About <- DeviceTable
    Windows <- TwoWindows
    Untitled <- NoTitle
    FirstWindow = "editor"
    JunkEvents <- AnyJunk
SPECIFICATION FairSpec
INVARIANTS
    TypeOK
    AllReleased
    PassThroughMirrors
    SimpleMirrors
PROPERTIES
    ReleasedInTheEnd
    QueueIsServed
