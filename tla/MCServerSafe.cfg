CONSTANTS
    c1 = c1
    c2 = c2
    c3 = c3
    Conn <- Three
    MaxConns = 2
SPECIFICATION ShortStayFairSpec
CHECK_DEADLOCK FALSE
INVARIANTS
    ServerTypeOK
    StoppedIsQuiet
PROPERTIES
    AddedWhileCounted
    TurnedAwayWhenFull
    KeepsGate
    StopReturns
    RoomAgain
