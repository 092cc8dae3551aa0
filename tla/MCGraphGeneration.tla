------------------------- MODULE MCGraphGeneration -------------------------
(* Instances of GraphGeneration for TLC. *)
EXTENDS GraphInvariant

\* All sequences of up to four degrees for the generator itself ...
Sequences4 ==
  UNION {{[degrees |-> d, election |-> FALSE, supporters |-> 0] :
            d \in [3..(v + 2) -> 0..(v + 1)]} : v \in 1..4}

\* ... all of five up to the order, which the first sort() removes ...
Sequences5 ==
  {[degrees |-> d, election |-> FALSE, supporters |-> 0] :
     d \in {f \in [3..7 -> 0..5] : \A m, n \in 3..7 : m < n => f[m] >= f[n]}}

\* ... and elections of up to six voters.
Elections6 ==
  {[degrees |-> [n \in 3..(v + 2) |-> f], election |-> TRUE, supporters |-> s] :
     v \in 1..6, f \in 0..6, s \in 0..3}

AllRequests == Sequences4 \cup Sequences5 \cup Elections6
=============================================================================
