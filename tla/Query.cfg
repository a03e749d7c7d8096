SPECIFICATION MCSpec
CONSTANTS
    MaxSegs = 4
    Parts <- MCParts
    LenBits = 4
    Templates <- MCTemplates
    LenMod = 4
    GK = 11
    Digits = 3
    Pow2 <- MCPow2
    Pow10 <- MCPow10
INVARIANTS RangeIsText CostIsLeast SegmentsAgree DecimalOut
PROPERTIES WholeQuery SegmentsMade DoublesRegister
CHECK_DEADLOCK FALSE
