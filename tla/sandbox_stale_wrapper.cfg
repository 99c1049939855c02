\* A callback evaluates rejected code on another sandbox and drops it; the collector frees it while current_wrapper still names it.
CONSTANTS
    s1 = s1
    s2 = s2
    Sandboxes = {s1, s2}
    NULL = NULL
    Handler = Handler
    blocked = blocked
    boom = boom
    HostExceptions = {blocked, boom}
    HTTPErrors = {blocked}
    TimeoutOf <- MCTimeoutOf
    MaxSizeOf <- MCMaxSizeOfOne
    MaxDepth = 2
    BadCode = TRUE
    Malformed = FALSE
    GCRuns = TRUE
    CallbackHeldElsewhere = TRUE
    DropsSandboxes = TRUE
    InitCapacity = 2
    ArgLens = {2}
    MaxArgs = 0
    ReallocMayFail = FALSE
    EpilogueScript = FALSE
SPECIFICATION Spec
INVARIANT WrapperAliveWhenUsed
