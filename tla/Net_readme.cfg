CONSTANTS
    Chars <- ThreeChars
    Outputs <- Names
    Unmapped = Unmapped
    Charmaps <- ReadmeCharmaps
    Pieces <- UpToTwo
    MaxText = 4
SPECIFICATION Spec
INVARIANTS
    MaxIsLongest
