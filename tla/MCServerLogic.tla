--------------------------- MODULE MCServerLogic ---------------------------
(* An instance of ServerLogic for TLC. *)
EXTENDS ServerLogicInvariant

\* Three processes in a line, the observer at its end.
Line == [n \in 1..3 |-> {m \in 1..3 : m = n + 1 \/ m = n - 1}]
=============================================================================
