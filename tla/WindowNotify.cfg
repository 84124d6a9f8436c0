SPECIFICATION Spec
CONSTANTS
    A = A
    B = B
    NoClient = NoClient
    Clients = {A, B}
    ClassOf <- MCClassOf
    Captions <- MCCaptions
    Glob <- MCGlob
    MaxCalls = 3
INVARIANTS
    TypeOK
    NeverMixed
PROPERTIES
    SeesCurrentWindow
