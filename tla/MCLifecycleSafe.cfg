CONSTANTS
    q1 = q1
    q2 = q2
    q3 = q3
    None = None
    Blank = Blank
    Proc <- Three
SPECIFICATION LifecycleSpec
SYMMETRY ThreeSymmetry
INVARIANTS
    LifecycleTypeOK
    Orderly
    KeysClearedOnExit
    RemovesItsOwn
PROPERTIES
    NoMeansNobody
    TakesTurns
