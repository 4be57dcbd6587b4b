CONSTANTS
    a = a
    b = b
    x = x
    z = z
    Open = Open
    Close = Close
    Call = Call
    Paren = Paren
    Quote = Quote
    NewLine = NewLine
    Backslash = Backslash
    NeedsEscape = {z}
    KeyURI <- TwoKeyURI
    ValueOf <- TwoValues
    Word <- AllWords
    Piece <- AllPieces
    MaxPieces = 5
SPECIFICATION EchoSpec
CHECK_DEADLOCK FALSE
INVARIANTS
    SentAsOnePass
    NoUriSent
    ReplaceAgrees
    EchoComesBack
    EscapedComesBack
    PercentComesBack
    NothingLeft
