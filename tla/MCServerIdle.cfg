CONSTANTS
    c1 = c1
    c2 = c2
    c3 = c3
    Conn <- Two
    MaxConns = 1
SPECIFICATION ServerFairSpec
CHECK_DEADLOCK FALSE
PROPERTY
    StopReturns
