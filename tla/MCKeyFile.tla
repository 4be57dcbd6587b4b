------------------------------ MODULE MCKeyFile ------------------------------
(* Each run has more than one of what its question turns on: processes and     *)
(* keys for what a save over a stale copy loses, values, policies and          *)
(* passphrases for what a running daemon serves.                               *)
EXTENDS KeyFile, TLC

CONSTANTS k1, k2, p1, p2, v1, v2, pw1, pw2, c1, c2

TwoKeyURI == {k1, k2}
OneKeyURI == {k1}
TwoCli    == {c1, c2}
OnePrefix == {{k1}}

Old     == Sealed(p1, v1, pw1)
New     == Sealed(p2, v2, pw1)
Foreign == Sealed(p1, v1, pw2)

OverlapTask == [key : TwoKeyURI, entry : {Old, NoEntry}]
ServedTask  == [key : OneKeyURI, entry : {Old, New, Foreign, NoEntry}]

TwoCliSymmetry == Permutations(TwoCli)

\* The command-line processes among themselves, without a daemon.
NoDaemonSpec == KeyFileInit /\ [][KeyFileNext /\ daemon' = "off"]_keyFileVars
=============================================================================
