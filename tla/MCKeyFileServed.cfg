CONSTANTS
    k1 = k1
    k2 = k2
    p1 = p1
    p2 = p2
    v1 = v1
    v2 = v2
    pw1 = pw1
    pw2 = pw2
    c1 = c1
    c2 = c2
    Empty = Empty
    NoEntry = NoEntry
    Corrupt = Corrupt
    Closed = Closed
    Truncated = Truncated
    DaemonPass = pw1
    KeyURI <- OneKeyURI
    Cli <- TwoCli
    Task <- ServedTask
    Policy = {p1, p2}
    Value = {v1, v2}
    Passphrase = {pw1, pw2}
    Prefix <- OnePrefix
SPECIFICATION KeyFileSpec
SYMMETRY TwoCliSymmetry
INVARIANTS
    KeyFileTypeOK
    ServedUnlessLate
