\* A script that catches the fetch error hides the callback's exception.
CONSTANTS
    s1 = s1
    s2 = s2
    Sandboxes = {s1}
    NULL = NULL
    Handler = Handler
    blocked = blocked
    boom = boom
    HostExceptions = {blocked, boom}
    HTTPErrors = {blocked}
    TimeoutOf <- MCTimeoutOf
    MaxSizeOf <- MCMaxSizeOf
    MaxDepth = 1
    BadCode = FALSE
    Malformed = FALSE
    GCRuns = FALSE
    CallbackHeldElsewhere = TRUE
    DropsSandboxes = FALSE
    InitCapacity = 2
    ArgLens = {2}
    MaxArgs = 1
    ReallocMayFail = FALSE
    EpilogueScript = FALSE
SPECIFICATION FairSpec
INVARIANT HostExceptionReported
