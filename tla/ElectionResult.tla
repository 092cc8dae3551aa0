--------------------------- MODULE ElectionResult ---------------------------
(***************************************************************************)
(* What the observer makes of the statuses of the nodes: onFinishedSnapshot *)
(* of election/observerNode.js.  A status is here what it has as           *)
(* confidenceLevel: an opinion, or NoLevels for a candidate.               *)
(***************************************************************************)
EXTENDS Confidence, FiniteSets

CONSTANT NoLevels

ASSUME StatusAssumption == NoLevels \notin Opinion

\* A function from the nodes that answered to their statuses.
IsCount(status) ==
  /\ IsFiniteSet(DOMAIN status)
  /\ \A n \in DOMAIN status : status[n] \in Opinion \cup {NoLevels}

HasLevels(status) == {n \in DOMAIN status : status[n] # NoLevels}

Pro(status, c) == {n \in HasLevels(status) : IsFavorite(status[n], c)}

Abstaining(status) ==
  {n \in HasLevels(status) : \A c \in Candidate : ~IsFavorite(status[n], c)}

Tie == 0

\* The shares are fractions of all statuses, those of the candidates
\* included; without any status they are 0/0.
Result(status) ==
  LET count(c) == Cardinality(Pro(status, c))
      winner   == IF count(1) = count(2) THEN Tie ELSE IF count(1) > count(2) THEN 1 ELSE 2
      leader   == IF winner = 2 THEN 2 ELSE 1
  IN [winner      |-> winner,
      abstentions |-> Cardinality(Abstaining(status)),
      forWinner   |-> count(leader),
      against     |-> count(Competitor(leader)),
      of          |-> Cardinality(DOMAIN status),
      count       |-> [c \in Candidate |-> count(c)]]
=============================================================================
