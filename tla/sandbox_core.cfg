\* One sandbox, one evaluation at a time, with code StringValueCStr rejects and responses fetch cannot read.
CONSTANTS
    s1 = s1
    s2 = s2
    Sandboxes = {s1}
    NULL = NULL
    Handler = Handler
    blocked = blocked
    boom = boom
    HostExceptions = {blocked, boom}
    HTTPErrors = {blocked}
    TimeoutOf <- MCTimeoutOf
    MaxSizeOf <- MCMaxSizeOf
    MaxDepth = 1
    BadCode = TRUE
    Malformed = TRUE
    GCRuns = TRUE
    CallbackHeldElsewhere = FALSE
    DropsSandboxes = TRUE
    InitCapacity = 2
    ArgLens = {2}
    MaxArgs = 1
    ReallocMayFail = FALSE
    EpilogueScript = TRUE
SPECIFICATION FairSpec
INVARIANT TypeOK
PROPERTY ImplementsEvalSpec
INVARIANT ConsoleReported
PROPERTY EvalTerminates
