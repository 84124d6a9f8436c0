SPECIFICATION Spec
CONSTANTS
    Processes = {daemon, other}
    Last = 2
    MaxTries = 2
    Parallel = TRUE
INVARIANTS
    OneHolder
