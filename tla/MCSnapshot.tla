----------------------------- MODULE MCSnapshot -----------------------------
(* Instances of Snapshot for TLC. *)
EXTENDS SnapshotInvariant

\* One node has run ahead of the other.
Uneven == [n \in Node |-> IF n = 1 THEN 3 ELSE 7]
=============================================================================
