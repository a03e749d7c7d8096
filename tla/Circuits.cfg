SPECIFICATION MCSpec
CONSTANTS
    W = 2
    M = 4
    Num <- MCNum
    P = 3
    Inv <- MCInv
    Poly <- MCPoly
    MaxDepth = 1
    N = 5
    MaxWidth = 5
    BB = 4
    LB = 1
    DB = 2
    MaxText = 9
    BS = 2
    MaxLen = 4
INVARIANTS
    Rejoins Annotated SimAlone
    WrittenSum
    EqualExact
    QuickIsPlain
    WindowIsSlice KeystreamOnce TagBinds
CHECK_DEADLOCK FALSE
