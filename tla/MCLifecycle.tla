---------------------------- MODULE MCLifecycle ----------------------------
(* Two pids are two commands at a time, or a command and what it starts; three *)
(* are a daemon and two commands, or two daemons and a command.                *)
EXTENDS Lifecycle, TLC

CONSTANTS q1, q2, q3

Two   == {q1, q2}
Three == {q1, q2, q3}

ThreeSymmetry == Permutations(Three)
=============================================================================
