CONSTANTS
    k1 = k1
    k2 = k2
    v1 = v1
    v2 = v2
    pw1 = pw1
    pw2 = pw2
    Empty = Empty
    NoEntry = NoEntry
    Corrupt = Corrupt
    Closed = Closed
    NoRequest = NoRequest
    DaemonPass = pw1
    KeyURI <- PairKeyURI
    Prefix <- PairPrefix
    Policy <- PairPolicy
    Request <- PairRequest
    Value = {v1}
    Passphrase = {pw1}
    Multiline = {}
SPECIFICATION HandleFairSpec
INVARIANTS
    
    NoPlaceholderSent
PROPERTY
    Answered
