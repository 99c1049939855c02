\* A fetch callback evaluating on another sandbox: deferred exceptions through nested evaluations.
CONSTANTS
    s1 = s1
    s2 = s2
    Sandboxes = {s1, s2}
    NULL = NULL
    Handler = Handler
    blocked = blocked
    boom = boom
    HostExceptions = {blocked, boom}
    HTTPErrors = {blocked}
    TimeoutOf <- MCTimeoutOf
    MaxSizeOf <- MCMaxSizeOfOne
    MaxDepth = 2
    BadCode = FALSE
    Malformed = FALSE
    GCRuns = FALSE
    CallbackHeldElsewhere = TRUE
    DropsSandboxes = FALSE
    InitCapacity = 2
    ArgLens = {2}
    MaxArgs = 0
    ReallocMayFail = FALSE
    EpilogueScript = TRUE
SPECIFICATION FairSpec
INVARIANT OutcomeReported
 
VIEW ControlView
