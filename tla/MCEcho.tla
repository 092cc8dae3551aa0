------------------------------- MODULE MCEcho -------------------------------
(* Instances of Echo for TLC. *)
EXTENDS EchoInvariant

CONSTANTS x, y   \* echo ids

\* config/graph2.dot: 2--1, 3--1, 4--1, 3--2, 4--3
Graph2 == [n \in 1..4 |-> CASE n = 1 -> {2, 3, 4} [] n = 2 -> {1, 3}
                            [] n = 3 -> {1, 2, 4} [] n = 4 -> {1, 3}]
OneCampaign == [id \in {x} |-> 1]

\* Candidates 1 and 2 with a voter, every pair of them neighbours.
Triangle == [n \in 1..3 |-> (1..3) \ {n}]
TwoCampaigns == [id \in {x, y} |-> IF id = x THEN 1 ELSE 2]
=============================================================================
