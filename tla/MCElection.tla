---------------------------- MODULE MCElection ----------------------------
(* A small instance of Election for TLC: one supporter of each candidate    *)
(* and one voter between them.                                              *)
EXTENDS ElectionInvariant

MCVoter         == {3, 4, 5}
MCNeighbors     == [n \in 1..5 |-> CASE n = 1 -> {3} [] n = 2 -> {4}
                                     [] n = 3 -> {1, 4, 5} [] n = 4 -> {2, 3, 5} [] n = 5 -> {3, 4}]
MCReceives      == [c \in {1, 2} |-> IF c = 1 THEN 2 ELSE 1]
C == "campaign"
R == "rumor"
Limit(first, second, f) == [draws |-> <<first, second>>, faults |-> f]

MCLimits == {Limit(<<C, R, R>>, <<>>, 0), Limit(<<R, C, R>>, <<>>, 0), Limit(<<R>>, <<R>>, 0),
             Limit(<<C>>, <<R>>, 0), Limit(<<R, C>>, <<>>, 1)}
=============================================================================
