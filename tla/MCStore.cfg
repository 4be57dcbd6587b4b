CONSTANTS
    k1 = k1
    k2 = k2
    p1 = p1
    p2 = p2
    v1 = v1
    v2 = v2
    pw1 = pw1
    pw2 = pw2
    KeyURI <- MCKeyURI
    Policy <- MCPolicy
    Value <- MCValue
    Passphrase <- MCPassphrase
    Prefix <- MCPrefix
    Empty = Empty
    NoEntry = NoEntry
    Corrupt = Corrupt
    Closed = Closed
SYMMETRY MCSymmetry
SPECIFICATION Spec
INVARIANTS
    TypeOK
    DisabledHoldsNothing
    MemoryMirrorsFile
PROPERTY
    StepFollowsFile
