------------------------------ MODULE Registry ------------------------------
(* What keys.enc is to the operator: a table of entries that each command      *)
(* changes at one place, at once or not at all, until a save that breaks off   *)
(* leaves nothing that can be read.                                            *)
CONSTANTS
    Key,         \* the key uris
    Entry,       \* what can be filed under one
    None,        \* nothing is
    Unreadable   \* the table is gone

VARIABLE table

Put(u, e) ==
    /\ table # Unreadable
    /\ table' = [table EXCEPT ![u] = e]

Drop(u) ==
    /\ table # Unreadable
    /\ table[u] # None
    /\ table' = [table EXCEPT ![u] = None]

BreakOff ==
    /\ table # Unreadable
    /\ table' = Unreadable

RegistryInit == table = [u \in Key |-> None]

RegistryNext ==
    \/ \E u \in Key : Drop(u) \/ \E e \in Entry : Put(u, e)
    \/ BreakOff

RegistrySpec == RegistryInit /\ [][RegistryNext]_table
=============================================================================
