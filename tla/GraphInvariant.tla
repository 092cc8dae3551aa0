--------------------------- MODULE GraphInvariant ---------------------------
(***************************************************************************)
(* Why a generated graph has the degrees that were asked for and suits an  *)
(* election, and why none is refused that exists (GraphGeneration): an     *)
(* inductive invariant.                                                    *)
(***************************************************************************)
EXTENDS GraphGeneration

Friends(n) == {m \in Voter : edges[n][m] > 0}

\* A degree that is not above zero never gets above zero again.  Each time n
\* is a follower, one voter more has none left, so n cannot be one too often.
LowerOK ==
  \A n \in Voter : degree[n] + Cardinality({m \in Voter \ {n} : degree[m] <= 0}) >= 0

\* Until supporters are added, edges are between two different voters.
PlainOK ==
  pc # "generated" =>
    \A m, n \in All : /\ edges[m][n] = edges[n][m]
                      /\ (m = n \/ m \in Candidate) => edges[m][n] = 0

\* Who has been first has no degree left, so an edge that is drawn again leads
\* to a degree below zero, which the postcondition refuses: as long as there
\* is none, no edge is double and each voter has what it asked for or will get
\* it.
RoundsOK ==
  (pc # "generated" /\ ~AnyDegreeBelowZero) =>
    \A n \in Voter :
      /\ \A m \in Voter : edges[m][n] <= 1 /\ (edges[m][n] > 0 => degree[m] = 0 \/ degree[n] = 0)
      /\ Cardinality(Friends(n)) + degree[n] = request.degrees[n]

\* After the postcondition no degree is left; supporters are added to a
\* connected graph of all voters, each with a friend.
AcceptedOK ==
  /\ pc \in {"voters", "supporters"} => request.election /\ \A n \in Voter : degree[n] = 0
  /\ pc = "supporters" => Connected(Voter) /\ \A n \in Voter : request.degrees[n] > 0

\* n supports c when the supporters begin with first.
Supports(n, c, first) ==
  n \in first..(first + 2 * request.supporters - 1) /\ c = ((n - first) % 2) + 1

\* The supporters are voters, and each has an edge to its candidate.
GeneratedOK ==
  pc = "generated" =>
    /\ DegreesAsAsked
    /\ \A m, n \in All : edges[m][n] = edges[n][m]
    /\ request.election =>
         /\ Connected(Voter) /\ \A n \in Voter : request.degrees[n] > 0
         /\ \E first \in 3..(Cardinality(Voter) + 3) :
              /\ first + 2 * request.supporters - 1 <= Cardinality(Voter) + 2
              /\ \A c \in Candidate, n \in Voter :
                   edges[c][n] = IF Supports(n, c, first) THEN 1 ELSE 0
         /\ \A c, d \in Candidate : edges[c][d] = 0

\* What has been built so far.
BuiltOK == TypeOK /\ LowerOK /\ PlainOK /\ RoundsOK /\ AcceptedOK /\ GeneratedOK

\* If some graph has the degrees asked for, some graph has the degrees left:
\* a round takes away what one voter has in such a graph.
ResidueOK == (pc # "generated" /\ HasGraph(request.degrees)) => HasGraph(degree)

\* Degrees are refused for these reasons only.
RefusedOK ==
  /\ pc = "invalid-argument" => OddNumberOfOddDegrees \/ AnyDegreeBelowZero
  /\ (pc = "TypeError" /\ AnyDegreeAboveZero) => \E n \in Voter : degree[n] >= Cardinality(Voter)

Inv == BuiltOK /\ ResidueOK /\ RefusedOK
=============================================================================
