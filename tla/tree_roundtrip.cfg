CONSTANTS
    PlainKeys = {"a"}
    IndexKeys <- MCOneIndexKey
    ProtoKeys = {"__proto__"}
    Names = {"", "x"}
    MaxLen = 2
    MaxNestedLen = 1
    MaxDepth = 1
    ConvertMayFail = FALSE
    ReadMayFail = FALSE
SPECIFICATION Spec
INVARIANTS
    RoundTripStructurallyEqual
