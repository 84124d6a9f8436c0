CONSTANTS
    Chars <- ThreeChars
    Outputs <- Names
    Unmapped = Unmapped
    Charmaps <- GoodCharmaps
    Pieces <- UpToThree
    MaxText = 7
SPECIFICATION FairSpec
INVARIANTS
    TypeOK
    ChunksDoNotMatter
    NothingLost
    BufferIsShort
    StartsAreKnown
PROPERTIES
    CallsEnd
