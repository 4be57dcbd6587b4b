------------------------------ MODULE MCServer ------------------------------
(* Three connections and two tokens: a full server with one more at the door.  *)
EXTENDS Server

CONSTANTS c1, c2, c3

Three == {c1, c2, c3}
Two   == {c1, c2}
=============================================================================
