SPECIFICATION Spec
CONSTANTS
    BS = 4
    TagLen = 2
    TagByte <- MCTagByte
    Echo <- MCEcho
    Id <- MCId
    Count <- MCCount
INVARIANTS WindowFits ForwardExact BackwardExact HonestForward AcceptedIsThere ForgedRejected
CHECK_DEADLOCK FALSE
