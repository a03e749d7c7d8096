SPECIFICATION DriverSpec
CONSTANTS
    Q = 3
    Name = {n1}
    CA = {c1}
    MaxSeq = 2
    MaxHellos = 2
INVARIANTS NonceOnce NoReplay
CHECK_DEADLOCK FALSE
