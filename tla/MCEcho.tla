------------------------------- MODULE MCEcho -------------------------------
(* Two keys, the value of one part of the value of the other, with a token     *)
(* that JSON escapes.                                                          *)
EXTENDS Echo, TLC

CONSTANTS a, b, x, z

TwoKeyURI == {a, b}
TwoValues == a :> <<z>> @@ b :> <<z, x>>
AllWords  == {x, z, Backslash}
AllPieces == {<<a>>, <<b>>, <<Open, a, Close>>, <<Open, Call, b, Paren, Close>>,
              <<Open, Call>>, <<Paren, Close>>, <<Quote>>, <<NewLine>>}
=============================================================================
