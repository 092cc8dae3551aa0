--------------------------- MODULE GraphGeneration ---------------------------
(***************************************************************************)
(* The network an election runs in: tools/helpers/hakimiGraphGenerator.js, *)
(* voterGraph.js, graph.js and electionGraph.js.  The Havel-Hakimi         *)
(* algorithm connects a voter of the largest degree with the voters of     *)
(* the next largest degrees until no degree is left; the graph is accepted *)
(* if it is connected, and a run of voters with consecutive ids become     *)
(* supporters of the two candidates in turn.                               *)
(*                                                                         *)
(* The order of elements of equal degree after sort() depends on the       *)
(* JavaScript engine and is left open; so the list is a function from ids  *)
(* to degrees, and a round takes any first element and followers that some *)
(* order allows.                                                           *)
(***************************************************************************)
EXTENDS Endpoints

CONSTANT Requests   \* what is asked for: see Request below

Candidate == {1, 2}

\* The degrees asked for, one for each voter; election is TRUE when
\* ElectionGraph asks, for voters with the same number of friends each and
\* for a number of supporters per candidate.
IsRequest(r) ==
  /\ r = [degrees |-> r.degrees, election |-> r.election, supporters |-> r.supporters]
  /\ IsFiniteSet(DOMAIN r.degrees)
  /\ r.degrees \in [3..(Cardinality(DOMAIN r.degrees) + 2) -> Nat]
  /\ r.election \in BOOLEAN /\ r.supporters \in Nat
  /\ r.election => \A m, n \in DOMAIN r.degrees : r.degrees[m] = r.degrees[n]

ASSUME RequestsAssumption == \A r \in Requests : IsRequest(r)

VARIABLES
  request,
  degree,  \* elements: [voter -> degree left]
  edges,   \* nodes[m].edges, as [node -> [node -> how often]]
  pc       \* the step that comes next, or how it ended

vars == <<request, degree, edges, pc>>

Voter == DOMAIN request.degrees
All   == Voter \cup Candidate
Edge(a, b, m, n) == (m = a /\ n = b) \/ (m = b /\ n = a)   \* both directions
Ended == {"generated", "invalid-argument", "not connected", "TypeError"}

TypeOK ==
  /\ request \in Requests
  /\ degree \in [Voter -> Int]
  /\ \A n \in Voter :   \* each other voter comes first at most once
       degree[n] \in (1 - Cardinality(Voter))..request.degrees[n]
  /\ edges \in [All -> [All -> Nat]]
  /\ pc \in {"check", "connect", "voters", "supporters"} \cup Ended

Init ==
  /\ request \in Requests
  /\ degree = request.degrees
  /\ edges = [m \in All |-> [n \in All |-> 0]]
  /\ pc = "check"

-----------------------------------------------------------------------------
(* HakimiGraphGenerator.generate()                                         *)

\* The precondition.  It was meant to refuse degrees above the number of
\* elements as well, but compares them with NaN (elements - 1), which no
\* degree is above.
OddNumberOfOddDegrees == Cardinality({n \in Voter : degree[n] % 2 = 1}) % 2 = 1

CheckPreconditions ==
  /\ pc = "check"
  /\ pc' = IF OddNumberOfOddDegrees THEN "invalid-argument" ELSE "connect"
  /\ UNCHANGED <<request, degree, edges>>

\* Plausible mistake: loop until all degrees are zero.
AnyDegreeNotZero == \E n \in Voter : degree[n] # 0

AnyDegreeAboveZero == \E n \in Voter : degree[n] > 0

\* sortDegreesDescending(): whom some order puts first, and which d elements
\* then follow.  A plausible mistake: the followers are not sorted.
AnyFollowers(first, d) == kSubset(d, Voter \ {first})
MayBeFirst(n) == \A m \in Voter : degree[m] <= degree[n]
MayFollow(first, d) ==
  {S \in kSubset(d, Voter \ {first}) :
     \A m \in S, n \in Voter \ (S \cup {first}) : degree[m] >= degree[n]}

\* Plausible mistake: only the followers are counted down.
FollowersDecremented(first, S) ==
  [n \in Voter |-> IF n \in S THEN degree[n] - 1 ELSE degree[n]]

\* The degrees left after a round.
Decremented(first, S) ==
  [n \in Voter |-> IF n = first THEN 0
                   ELSE IF n \in S THEN degree[n] - 1 ELSE degree[n]]

\* connectFirstNodeWithFollowingNodes(), which reads beyond the end of the
\* list when there are too few of them.
ConnectFirstNode ==
  /\ pc = "connect"
  /\ AnyDegreeAboveZero
  /\ \E first \in Voter :
       LET d == degree[first] IN
       /\ MayBeFirst(first)
       /\ IF d >= Cardinality(Voter)
          THEN pc' = "TypeError" /\ UNCHANGED <<degree, edges>>
          ELSE \E S \in MayFollow(first, d) :
                 /\ degree' = Decremented(first, S)
                 /\ edges' = [m \in All |-> [n \in All |->
                      IF \E other \in S : Edge(first, other, m, n)
                      THEN edges[m][n] + 1 ELSE edges[m][n]]]
                 /\ UNCHANGED pc
  /\ UNCHANGED request

\* Plausible mistake: no postcondition.
NeverBelowZero == FALSE

AnyDegreeBelowZero == \E n \in Voter : degree[n] < 0

CheckPostconditions ==
  /\ pc = "connect"
  /\ ~AnyDegreeAboveZero
  /\ pc' = IF AnyDegreeBelowZero THEN "invalid-argument"
           ELSE IF request.election THEN "voters" ELSE "generated"
  /\ UNCHANGED <<request, degree, edges>>

-----------------------------------------------------------------------------
(* VoterGraph.generate() and ElectionGraph.generate()                      *)

\* connected-components of the nodes that have an edge: exactly one.
Connected(V) ==
  /\ V # {}
  /\ \A S \in (SUBSET V) \ {{}, V} : \E m \in S, n \in V \ S : edges[m][n] > 0

\* Plausible mistake: one component or more.
AnyComponent(V) == V # {}

IsStronglyConnected(V) == Connected(V)

CheckConnected ==
  /\ pc = "voters"
  /\ LET V == {n \in Voter : \E m \in Voter : edges[n][m] > 0}
     IN  pc' = IF IsStronglyConnected(V) THEN "supporters" ELSE "not connected"
  /\ UNCHANGED <<request, degree, edges>>

\* Random.randomNumber(min, max), also for max < min.
RandomNumber(min, max) == IF min <= max THEN min..max ELSE (max + 1)..min

NumberOfSupporters == Cardinality(Candidate) * request.supporters

LastSupporter(first) == first + NumberOfSupporters - 1

\* determineSupporters() and addSupporterEdgesToGraph(): from a random voter
\* on, in turn; an id without a node ends it.
AddSupporters ==
  /\ pc = "supporters"
  /\ \E first \in RandomNumber(Cardinality(Candidate) + 1,
                               Cardinality(All) - NumberOfSupporters + 1) :
       LET supporters == first..LastSupporter(first)
           candidate(n) == ((n - first) % Cardinality(Candidate)) + 1
       IN IF supporters \subseteq All
          THEN /\ edges' = [m \in All |-> [n \in All |->
                    edges[m][n] + Cardinality({i \in supporters : Edge(candidate(i), i, m, n)})]]
               /\ pc' = "generated"
          ELSE pc' = "TypeError" /\ UNCHANGED edges
  /\ UNCHANGED <<request, degree>>

Next ==
  \/ CheckPreconditions \/ ConnectFirstNode \/ CheckPostconditions
  \/ CheckConnected \/ AddSupporters

Spec == Init /\ [][Next]_vars /\ WF_vars(Next)

-----------------------------------------------------------------------------
(* Properties.                                                             *)

\* A graph of the voters, as the set of its edges, in which each voter has the
\* degree that d says.
HasDegrees(graph, d) ==
  \A n \in Voter : Cardinality({m \in Voter : {m, n} \in graph}) = d[n]

\* The degrees of some graph without loops and double edges.
HasGraph(d) == \E graph \in SUBSET kSubset(2, Voter) : HasDegrees(graph, d)

\* A generated graph of voters has no loop and no double edge, which would
\* make the echo counters wait for ever, and each voter has as many friends as
\* asked for: there is no edge too few when the degrees have run out.
DegreesAsAsked ==
  pc \in {"voters", "supporters", "generated"} =>
    \A n \in Voter : LET friends == {m \in Voter : edges[n][m] > 0} IN
      /\ n \notin friends
      /\ \A m \in All : edges[n][m] = edges[m][n] /\ edges[n][m] <= 1
      /\ Cardinality(friends) = request.degrees[n]

\* The algorithm refuses only what no graph has (README.md:134 "um die
\* Eingabeparameter zu verifizieren"), whichever way elements of equal degree
\* are sorted.  A TypeError of the supporters comes after it.
RefusedHasNoGraph ==
  (pc = "invalid-argument" \/ (pc = "TypeError" /\ AnyDegreeAboveZero))
    => ~HasGraph(request.degrees)

\* What the campaigns and the votes need of a generated network: it is
\* connected, candidates included, no voter supports both candidates, and each
\* candidate has the supporters asked for (run-election.js:9 "number of
\* supporters per candidate").  Without supporters the candidates are not in the
\* file at all.  The README has another number: see SupportersAsDescribed.
NetworkSuitsElection ==
  (pc = "generated" /\ request.election /\ request.supporters > 0) =>
    /\ Connected(All)
    /\ \A c \in Candidate :
         Cardinality({n \in Voter : edges[c][n] = 1}) = request.supporters
    /\ \A n \in Voter : Cardinality({c \in Candidate : edges[c][n] > 0}) <= 1
    /\ \A c, d \in Candidate : edges[c][d] = 0

\* The nodes find each other by the addresses they make up from the generated
\* file: the observer asks exactly the processes that can start, a node tells
\* exactly its neighbours, and the addresses that run-election.js:58 and 73 take
\* for the candidates' are theirs, except that without supporters they are those
\* of two voters and the candidates cannot start.
AddressesFit ==
  (pc = "generated" /\ request.election) =>
    LET ids(E)   == {e.id : e \in E}
        at(port) == ids({e \in LocalEndpoints(edges) : e.port = port})
    IN /\ ids(MyNeighbors(edges, 0)) = {n \in All : CanStart(edges, n)}
       /\ \A n \in All : CanStart(edges, n) =>
            ids(MyNeighbors(edges, n)) = {m \in All : edges[n][m] = 1}
       /\ IF request.supporters > 0
          THEN \A c \in Candidate : CanStart(edges, c) /\ at(4000 + c) = {c}
          ELSE \A c \in Candidate : ~CanStart(edges, c) /\ at(4000 + c) \subseteq Voter

\* The generator comes to an end, although degrees may fall below zero on the
\* way and the loop goes on until none is above.
Terminates == <>(pc \in Ended)

\* A degree beyond the other voters is an invalid argument, as
\* checkPreconditions() says (hakimiGraphGenerator.js:45-47), not an error in
\* the middle of the work.
TooLargeIsInvalidArgument == ~(pc = "TypeError" /\ AnyDegreeAboveZero)

\* The first supporter and the 2 * s nodes after it become supporters
\* (README.md:145-146 "Dieser Knoten sowie die *2 * s* Folgeknoten werden
\* alternierend den beiden Kandidaten als Parteifreunde zugewiesen").
SupportersAsDescribed ==
  (pc = "generated" /\ request.election /\ request.supporters > 0) =>
    LET supporters == {n \in Voter : \E c \in Candidate : edges[c][n] > 0}
    IN  Cardinality(supporters) = 1 + 2 * request.supporters
=============================================================================
