\* Buffer growth and clipping with realloc always succeeding.
CONSTANTS
    InitCapacity = 2
    MaxSizes = {1, 4, 9, 16}
    ArgLens = {0, 1, 2, 5}
    MaxArgs = 2
    ReallocMayFail = FALSE
SPECIFICATION Spec
INVARIANT TypeOK
INVARIANT ConsoleFaithful
INVARIANT ContentInBounds
