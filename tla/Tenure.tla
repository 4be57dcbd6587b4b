------------------------------- MODULE Tenure -------------------------------
(* What the daemons of one data directory are to everybody else: one after    *)
(* another.  A daemon reads the keys, makes itself known, serves and stops, in *)
(* this order, and the next one comes when it has gone.  It may end anywhere.  *)
CONSTANTS
    Proc,
    None

VARIABLES
    phase,     \* "off", "loaded", "named", "up", "stopping"
    tenant     \* whose keys are loaded

Take(p) ==
    /\ phase = "off"
    /\ phase' = "loaded"
    /\ tenant' = p

Advance(from, to) ==
    /\ phase = from
    /\ phase' = to
    /\ UNCHANGED tenant

End ==
    /\ phase # "off"
    /\ phase' = "off"
    /\ tenant' = None

TenureInit == phase = "off" /\ tenant = None

TenureNext ==
    \/ \E p \in Proc : Take(p)
    \/ Advance("loaded", "named")
    \/ Advance("named", "up")
    \/ Advance("up", "stopping")
    \/ End

TenureSpec == TenureInit /\ [][TenureNext]_<<phase, tenant>>
=============================================================================
