CONSTANTS
    k1 = k1
    k2 = k2
    v1 = v1
    v2 = v2
    pw1 = pw1
    pw2 = pw2
    Empty = Empty
    NoEntry = NoEntry
    Corrupt = Corrupt
    Closed = Closed
    NoRequest = NoRequest
    DaemonPass = pw1
    KeyURI <- OneKeyURI
    Prefix <- OnePrefix
    Policy <- OnePolicy
    Request <- OneRequest
    Value = {v1, v2}
    Passphrase = {pw1}
    Multiline = {}
SPECIFICATION HandleSpec
INVARIANT
    NoCredentialShown
