----------------------------- MODULE Accepting -----------------------------
(* What the socket server promises the daemon that runs it: never more than   *)
(* MaxConns connections are inside, and once it says it is closed nobody is   *)
(* inside and nobody comes in again.                                          *)
EXTENDS Naturals

CONSTANTS
    Conn,      \* connections
    MaxConns   \* maxConcurrentConns

VARIABLES
    phase,     \* "open", "closing", "closed"
    inside,    \* the connections being served
    free       \* the places that are left

Enter(c) ==
    /\ phase # "closed"
    /\ c \notin inside
    /\ free > 0
    /\ free' = free - 1
    /\ inside' = inside \cup {c}
    /\ UNCHANGED phase

Leave(c) ==
    /\ c \in inside
    /\ free' = free + 1
    /\ inside' = inside \ {c}
    /\ UNCHANGED phase

BeginClosing ==
    /\ phase = "open"
    /\ phase' = "closing"
    /\ UNCHANGED <<inside, free>>

\* Closed, after a shutdown or because it never came up.
FinishClosing ==
    /\ phase # "closed"
    /\ inside = {}
    /\ phase' = "closed"
    /\ UNCHANGED <<inside, free>>

AInit == phase = "open" /\ inside = {} /\ free = MaxConns

ANext ==
    \/ \E c \in Conn : Enter(c) \/ Leave(c)
    \/ BeginClosing
    \/ FinishClosing

ASpec == AInit /\ [][ANext]_<<phase, inside, free>>
=============================================================================
