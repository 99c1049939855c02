CONSTANTS
    LongBits = 8
    MantissaBits = 5
    Int32Bits = 4
SPECIFICATION Spec
INVARIANTS
    
    NonIntegersStayFloats
    ExactIntegersRoundTrip
