SPECIFICATION RSpec
CONSTANTS
    Tag = {t1, t2}
    Size = {1, 2}
    MaxMsgs = 1
    RecvT = 1
    JoinT = 2
    MaxTime = 5
INVARIANTS NeverOvercounts ExactWhenSerial OutcomeTrue
PROPERTY CallerReturns
CHECK_DEADLOCK FALSE
