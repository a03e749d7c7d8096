SPECIFICATION Spec
CONSTANTS
    Q = 3
    ELL = 2
    Width = 1
    MaxAnds = 2
INVARIANTS AndCorrect OneOpens TagsFit
PROPERTY AllDone
CHECK_DEADLOCK FALSE
