CONSTANTS
    PlainKeys = {"a"}
    IndexKeys <- MCIndexKeys
    ProtoKeys = {"__proto__"}
    Names = {"", "x"}
    MaxLen = 2
    MaxNestedLen = 1
    MaxDepth = 2
    ConvertMayFail = TRUE
    ReadMayFail = FALSE
SPECIFICATION Spec
INVARIANTS
    TypeOK
    
    FailureNotPartial
