CONSTANTS
    Junk = Junk
    Buttons <- AllButtons
    MiscButtons <- AllMisc
    LateKeys <- AllLate
    Devices = {"macro"}
    About <- DeviceTable
    Windows <- TwoWindows
    Untitled <- NoTitle
    FirstWindow = "editor"
    JunkEvents <- AnyJunk
SPECIFICATION Spec
INVARIANTS
    NeverCrashes
