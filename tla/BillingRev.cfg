SPECIFICATION Spec
CONSTANTS
    BS = 4
    TagLen = 2
    TagByte <- MCTagByte
    Echo <- MCEcho
    Id <- MCId
    Count <- MCCount
INVARIANT HonestBackward
CHECK_DEADLOCK FALSE
