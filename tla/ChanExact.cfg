SPECIFICATION Spec
CONSTANTS
    Tag = {t1, t2}
    Size = {1, 2}
    MaxMsgs = 2
INVARIANT CountsExactly
CHECK_DEADLOCK FALSE
