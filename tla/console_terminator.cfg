\* The initial malloc(capacity) leaves no room for the terminator.
CONSTANTS
    InitCapacity = 2
    MaxSizes = {1, 4, 9, 16}
    ArgLens = {0, 1, 2, 5}
    MaxArgs = 2
    ReallocMayFail = FALSE
SPECIFICATION Spec
INVARIANT TerminatorInBounds
