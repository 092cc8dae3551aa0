----------------------------- MODULE MCLauncher -----------------------------
(* A small instance of Launcher for TLC: the candidates and a voter that    *)
(* supports both of them.                                                   *)
EXTENDS LauncherInvariant

MCNeighbors == [n \in 1..3 |-> IF n = 3 THEN {1, 2} ELSE {3}]
=============================================================================
