------------------------------ MODULE MCStore ------------------------------
(* Two uris, one of which the prefix of the other also matches; two values,  *)
(* policies and passphrases, so that overwriting and a foreign passphrase    *)
(* both happen.                                                              *)
EXTENDS Store, TLC

CONSTANTS k1, k2, p1, p2, v1, v2, pw1, pw2

MCKeyURI     == {k1, k2}
MCPolicy     == {p1, p2}
MCValue      == {v1, v2}
MCPassphrase == {pw1, pw2}
MCPrefix     == {{k1}, {k1, k2}}

\* k1 and k2 are told apart by MCPrefix; the others are interchangeable.
MCSymmetry == Permutations(MCPolicy) \cup Permutations(MCValue)
                  \cup Permutations(MCPassphrase)
=============================================================================
