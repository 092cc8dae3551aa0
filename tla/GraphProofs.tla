----------------------------- MODULE GraphProofs -----------------------------
(***************************************************************************)
(* Proofs about the generation of the network (GraphGeneration), for any   *)
(* number of voters, any degrees, and any number of supporters.            *)
(***************************************************************************)
EXTENDS GraphInvariant, FiniteSetTheorems, TLAPS

-----------------------------------------------------------------------------
(* Requests.                                                               *)

\* The voters have the ids after those of the candidates.
LEMMA VoterFacts ==
  ASSUME request \in Requests
  PROVE  /\ IsFiniteSet(Voter) /\ Cardinality(Voter) \in Nat
         /\ Voter = 3..(Cardinality(Voter) + 2) /\ All = 1..(Cardinality(Voter) + 2)
         /\ Voter \subseteq All /\ Candidate \subseteq All /\ Voter \cap Candidate = {}
         /\ \A n \in All : n \in Voter \/ n \in Candidate
         /\ request.degrees \in [Voter -> Nat]
         /\ request.election \in BOOLEAN /\ request.supporters \in Nat
         /\ request.election => \A m, n \in Voter : request.degrees[m] = request.degrees[n]
<1> DEFINE V == Cardinality(Voter)
<1>1. /\ IsFiniteSet(Voter)
      /\ request.degrees \in [3..(V + 2) -> Nat]
      /\ request.election \in BOOLEAN /\ request.supporters \in Nat
      /\ request.election => \A m, n \in Voter : request.degrees[m] = request.degrees[n]
  BY RequestsAssumption DEF IsRequest, Voter
<1>2. V \in Nat
  BY <1>1, FS_CardinalityType
<1> HIDE DEF V
<1>3. Voter = 3..(V + 2)
  BY <1>1 DEF Voter
<1>4. All = 1..(V + 2)
  BY <1>2, <1>3 DEF All, Candidate
<1>5. Voter \subseteq All /\ Candidate \subseteq All
  BY DEF All
<1>6. Voter \cap Candidate = {}
  BY <1>2, <1>3 DEF Candidate
<1> QED
  BY <1>1, <1>2, <1>3, <1>4, <1>5, <1>6 DEF V, All

\* The sets that the invariant counts.
LEMMA CountFacts ==
  ASSUME request \in Requests, NEW S \in SUBSET Voter
  PROVE  IsFiniteSet(S) /\ Cardinality(S) \in Nat /\ Cardinality(S) <= Cardinality(Voter)
BY VoterFacts, FS_Subset, FS_CardinalityType

-----------------------------------------------------------------------------
(* A round of the Havel-Hakimi algorithm.                                  *)

\* What the step does: first is connected with each of S.
Round(first, S) ==
  /\ pc = "connect" /\ pc' = "connect" /\ UNCHANGED request
  /\ first \in Voter /\ S \subseteq Voter /\ first \notin S
  /\ degree[first] > 0 /\ Cardinality(S) = degree[first]
  /\ degree' = Decremented(first, S)
  /\ edges' = [m \in All |-> [n \in All |->
       IF \E other \in S : Edge(first, other, m, n) THEN edges[m][n] + 1 ELSE edges[m][n]]]

\* Either there are enough voters left for such a round or the step throws.
LEMMA RoundOrError ==
  ASSUME TypeOK, ConnectFirstNode
  PROVE  \/ \E first \in Voter, S \in SUBSET Voter : Round(first, S)
         \/ pc' = "TypeError" /\ UNCHANGED <<request, degree, edges>>
<1>1. PICK first \in Voter :
        /\ MayBeFirst(first)
        /\ \/ pc' = "TypeError" /\ UNCHANGED <<degree, edges>>
           \/ \E S \in MayFollow(first, degree[first]) :
                /\ degree' = Decremented(first, S)
                /\ edges' = [m \in All |-> [n \in All |->
                     IF \E other \in S : Edge(first, other, m, n)
                     THEN edges[m][n] + 1 ELSE edges[m][n]]]
                /\ UNCHANGED pc
  BY DEF ConnectFirstNode
<1>2. pc = "connect" /\ UNCHANGED request /\ \E n \in Voter : degree[n] > 0
  BY DEF ConnectFirstNode, AnyDegreeAboveZero
<1>3. degree \in [Voter -> Int]
  BY DEF TypeOK
<1>4. degree[first] > 0
  BY <1>1, <1>2, <1>3 DEF MayBeFirst
<1>5. ASSUME NEW S \in MayFollow(first, degree[first])
      PROVE  S \in SUBSET Voter /\ first \notin S /\ Cardinality(S) = degree[first]
  BY DEF MayFollow, kSubset
<1> QED
  BY <1>1, <1>2, <1>4, <1>5 DEF Round

\* The degrees after a round.
LEMMA RoundDegrees ==
  ASSUME TypeOK, NEW first \in Voter, NEW S \in SUBSET Voter, Round(first, S)
  PROVE  /\ Voter' = Voter /\ All' = All
         /\ \A n \in Voter : degree[n] \in Int /\ degree'[n] \in Int
         /\ degree'[first] = 0 /\ degree[first] > 0
         /\ \A n \in S : degree'[n] = degree[n] - 1
         /\ \A n \in Voter : n # first /\ n \notin S => degree'[n] = degree[n]
         /\ \A n \in Voter : degree'[n] <= degree[n]
         /\ degree' \in [Voter -> Int]
<1>1. degree \in [Voter -> Int] /\ Voter' = Voter /\ All' = All
  BY DEF TypeOK, Round, Voter, All
<1>2. /\ first \notin S /\ degree[first] > 0
      /\ degree' = [n \in Voter |-> IF n = first THEN 0
                                    ELSE IF n \in S THEN degree[n] - 1 ELSE degree[n]]
  BY DEF Round, Decremented
<1> QED
  BY <1>1, <1>2

\* The edges after a round.
LEMMA RoundEdges ==
  ASSUME TypeOK, NEW first \in Voter, NEW S \in SUBSET Voter, Round(first, S)
  PROVE  /\ edges' \in [All -> [All -> Nat]]
         /\ \A m, n \in All : edges[m][n] \in Nat /\ edges'[m][n] \in Nat
         /\ \A m, n \in All : edges'[m][n] =
              IF (m = first /\ n \in S) \/ (n = first /\ m \in S)
              THEN edges[m][n] + 1 ELSE edges[m][n]
<1>1. /\ edges \in [All -> [All -> Nat]]
      /\ edges' = [m \in All |-> [n \in All |->
           IF \E other \in S : Edge(first, other, m, n)
           THEN edges[m][n] + 1 ELSE edges[m][n]]]
  BY DEF TypeOK, Round
<1>2. \A m, n \in All : (\E other \in S : Edge(first, other, m, n))
                          <=> (m = first /\ n \in S) \/ (n = first /\ m \in S)
  BY DEF Edge
<1>3. \A m, n \in All : edges[m][n] \in Nat
  BY <1>1
<1>4. \A m, n \in All : edges'[m][n] =
        IF \E other \in S : Edge(first, other, m, n) THEN edges[m][n] + 1 ELSE edges[m][n]
  BY <1>1
<1>5. \A m, n \in All : edges'[m][n] =
        IF (m = first /\ n \in S) \/ (n = first /\ m \in S) THEN edges[m][n] + 1 ELSE edges[m][n]
  BY <1>2, <1>4
<1>6. \A m, n \in All : edges'[m][n] \in Nat
  BY <1>3, <1>5
<1>7. edges' \in [All -> [All -> Nat]]
  BY <1>1, <1>4, <1>6
<1> QED
  BY <1>3, <1>5, <1>6, <1>7

\* How many other voters there are.
LEMMA OthersFacts ==
  ASSUME request \in Requests, NEW n \in Voter, NEW Z \in SUBSET (Voter \ {n})
  PROVE  Cardinality(Z) \in 0..(Cardinality(Voter) - 1)
<1>1. IsFiniteSet(Voter \ {n}) /\ Cardinality(Voter \ {n}) = Cardinality(Voter) - 1
  BY VoterFacts, FS_RemoveElement
<1>2. Cardinality(Z) <= Cardinality(Voter \ {n}) /\ Cardinality(Z) \in Nat
  BY <1>1, FS_Subset, FS_CardinalityType
<1> QED
  BY <1>1, <1>2, VoterFacts

\* A follower's degree goes down by one, and the first has none left then.
LEMMA LowerStep ==
  ASSUME TypeOK, LowerOK, NEW first \in Voter, NEW S \in SUBSET Voter, Round(first, S)
  PROVE  LowerOK'
<1>1. /\ Voter' = Voter
      /\ \A n \in Voter : degree[n] \in Int /\ degree'[n] \in Int
      /\ degree'[first] = 0 /\ degree[first] > 0
      /\ \A n \in S : degree'[n] = degree[n] - 1
      /\ \A n \in Voter : n # first /\ n \notin S => degree'[n] = degree[n]
      /\ \A n \in Voter : degree'[n] <= degree[n]
  BY RoundDegrees
<1>2. request \in Requests /\ first \notin S
  BY DEF TypeOK, Round
<1> SUFFICES ASSUME NEW n \in Voter
             PROVE  degree'[n] + Cardinality({m \in Voter \ {n} : degree'[m] <= 0}) >= 0
  BY <1>1 DEF LowerOK
<1> DEFINE Z == {m \in Voter \ {n} : degree[m] <= 0}
           Y == {m \in Voter \ {n} : degree'[m] <= 0}
<1>3. Z \subseteq Y /\ Z \in SUBSET Voter /\ Y \in SUBSET Voter
  BY <1>1
<1>4. degree[n] + Cardinality(Z) >= 0
  BY DEF LowerOK
<1>5. n # first => first \in Y /\ first \notin Z
  BY <1>1
<1>6. SUFFICES degree'[n] + Cardinality(Y) >= 0
  OBVIOUS
<1> HIDE DEF Z, Y
<1>7. /\ IsFiniteSet(Z) /\ Cardinality(Z) \in Nat
      /\ IsFiniteSet(Y) /\ Cardinality(Y) \in Nat /\ Cardinality(Z) <= Cardinality(Y)
  BY <1>2, <1>3, CountFacts, FS_Subset
<1>8. CASE n = first
  BY <1>1, <1>7, <1>8
<1>9. CASE n \in S
  <2>1. Z \cup {first} \subseteq Y
    BY <1>2, <1>3, <1>5, <1>9
  <2>2. Cardinality(Z \cup {first}) = Cardinality(Z) + 1
    BY <1>2, <1>5, <1>7, <1>9, FS_AddElement
  <2>3. Cardinality(Z) + 1 <= Cardinality(Y)
    BY <2>1, <2>2, <1>7, FS_Subset
  <2> QED
    BY <2>3, <1>1, <1>4, <1>7, <1>9
<1>10. CASE n # first /\ n \notin S
  BY <1>1, <1>4, <1>7, <1>10
<1> QED
  BY <1>8, <1>9, <1>10

\* Edges go both ways, between two different voters.
LEMMA PlainStep ==
  ASSUME TypeOK, PlainOK, NEW first \in Voter, NEW S \in SUBSET Voter, Round(first, S)
  PROVE  PlainOK'
<1>1. /\ All' = All
      /\ \A m, n \in All : edges[m][n] \in Nat
      /\ \A m, n \in All : edges'[m][n] =
           IF (m = first /\ n \in S) \/ (n = first /\ m \in S)
           THEN edges[m][n] + 1 ELSE edges[m][n]
  BY RoundDegrees, RoundEdges
<1>2. first \notin S /\ pc = "connect" /\ Voter \cap Candidate = {}
  BY VoterFacts DEF Round, TypeOK
<1>3. \A m, n \in All : /\ edges[m][n] = edges[n][m]
                        /\ (m = n \/ m \in Candidate) => edges[m][n] = 0
  BY <1>2 DEF PlainOK
<1>4. ASSUME NEW m \in All, NEW n \in All
      PROVE  /\ edges'[m][n] = edges'[n][m]
             /\ (m = n \/ m \in Candidate) => edges'[m][n] = 0
  BY <1>1, <1>2, <1>3
<1> QED
  BY <1>1, <1>4 DEF PlainOK

\* As long as no degree is below zero, no edge is drawn again, and what a
\* voter gets and what it has left are together what it asked for.
LEMMA RoundsStep ==
  ASSUME TypeOK, PlainOK, RoundsOK, NEW first \in Voter, NEW S \in SUBSET Voter, Round(first, S)
  PROVE  RoundsOK'
<1>1. /\ Voter' = Voter
      /\ \A n \in Voter : degree[n] \in Int /\ degree'[n] \in Int
      /\ degree'[first] = 0 /\ degree[first] > 0
      /\ \A n \in S : degree'[n] = degree[n] - 1
      /\ \A n \in Voter : n # first /\ n \notin S => degree'[n] = degree[n]
      /\ \A n \in Voter : degree'[n] <= degree[n]
  BY RoundDegrees
<1>2. /\ request \in Requests /\ first \notin S /\ pc = "connect" /\ request' = request
      /\ Cardinality(S) = degree[first] /\ Voter \subseteq All
      /\ \A m \in S : m \in Voter
  BY VoterFacts DEF TypeOK, Round
<1>3. /\ \A m, n \in Voter : edges[m][n] \in Nat /\ edges[m][n] = edges[n][m] /\ edges[m][m] = 0
      /\ \A m, n \in Voter : edges'[m][n] =
           IF (m = first /\ n \in S) \/ (n = first /\ m \in S)
           THEN edges[m][n] + 1 ELSE edges[m][n]
  BY <1>2, RoundEdges DEF PlainOK
<1> SUFFICES ASSUME ~AnyDegreeBelowZero', NEW n \in Voter
             PROVE  /\ \A m \in Voter : /\ edges'[m][n] <= 1
                                        /\ edges'[m][n] > 0 => degree'[m] = 0 \/ degree'[n] = 0
                    /\ Cardinality(Friends(n)') + degree'[n] = request.degrees[n]
  BY <1>1, <1>2 DEF RoundsOK
<1>4. \A m \in Voter : degree'[m] >= 0
  BY <1>1 DEF AnyDegreeBelowZero
<1>5. \A m \in Voter : degree[m] >= 0
  BY <1>1, <1>4
<1>6. ~AnyDegreeBelowZero
  BY <1>1, <1>5 DEF AnyDegreeBelowZero
<1>7. /\ \A m, k \in Voter : edges[m][k] <= 1 /\ (edges[m][k] > 0 => degree[m] = 0 \/ degree[k] = 0)
      /\ Cardinality(Friends(n)) + degree[n] = request.degrees[n]
  BY <1>2, <1>6 DEF RoundsOK
<1>8. \A m \in S : degree[m] > 0
  BY <1>1, <1>2, <1>4
<1>9. \A m \in S : edges[first][m] = 0 /\ edges[m][first] = 0
  BY <1>1, <1>2, <1>3, <1>7, <1>8
<1>10. \A m \in Voter : degree[m] = 0 => degree'[m] = 0
  BY <1>1, <1>4
<1>11. ASSUME NEW m \in Voter
       PROVE  edges'[m][n] <= 1 /\ (edges'[m][n] > 0 => degree'[m] = 0 \/ degree'[n] = 0)
  <2>1. CASE (m = first /\ n \in S) \/ (n = first /\ m \in S)
    BY <2>1, <1>1, <1>3, <1>9
  <2>2. CASE ~((m = first /\ n \in S) \/ (n = first /\ m \in S))
    BY <2>2, <1>3, <1>7, <1>10
  <2> QED
    BY <2>1, <2>2
<1>12. Cardinality(Friends(n)') + degree'[n] = request.degrees[n]
  <2> DEFINE F == {m \in Voter : edges[n][m] > 0}
             G == {m \in Voter : edges'[n][m] > 0}
  <2>1. Friends(n) = F /\ Friends(n)' = G
    BY <1>1 DEF Friends
  <2>2. F \in SUBSET Voter
    OBVIOUS
  <2>3. n = first => G = F \cup S /\ F \cap S = {}
    BY <1>2, <1>3, <1>9
  <2>4. n \in S => G = F \cup {first} /\ first \notin F
    BY <1>2, <1>3, <1>9
  <2>5. n # first /\ n \notin S => G = F
    BY <1>3
  <2> HIDE DEF F, G
  <2>6. IsFiniteSet(F) /\ IsFiniteSet(S) /\ Cardinality(F) \in Nat /\ Cardinality(S) \in Nat
    BY <2>2, <1>2, CountFacts
  <2>7. Cardinality(F) + degree[n] = request.degrees[n]
    BY <2>1, <1>7
  <2>8. CASE n = first
    <3>1. Cardinality(G) = Cardinality(F) + Cardinality(S)
      <4>1. Cardinality(F \cup S) = Cardinality(F) + Cardinality(S) - Cardinality(F \cap S)
        BY <2>6, FS_Union
      <4>2. Cardinality(F \cap S) = 0
        BY <2>3, <2>8, FS_EmptySet
      <4>3. G = F \cup S
        BY <2>3, <2>8
      <4> QED
        BY <4>1, <4>2, <4>3, <2>6
    <3> QED
      BY <3>1, <2>1, <2>6, <2>7, <2>8, <1>1, <1>2
  <2>9. CASE n \in S
    <3>1. Cardinality(G) = Cardinality(F) + 1
      BY <2>4, <2>6, <2>9, FS_AddElement
    <3> QED
      BY <3>1, <2>1, <2>6, <2>7, <2>9, <1>1
  <2>10. CASE n # first /\ n \notin S
    BY <2>1, <2>5, <2>7, <2>10, <1>1
  <2> QED
    BY <2>8, <2>9, <2>10
<1> QED
  BY <1>11, <1>12

-----------------------------------------------------------------------------
(* The steps before the supporters.                                        *)

\* A round keeps the invariant.
LEMMA RoundInv ==
  ASSUME BuiltOK, NEW first \in Voter, NEW S \in SUBSET Voter, Round(first, S)
  PROVE  BuiltOK'
<1>1. TypeOK /\ LowerOK /\ PlainOK /\ RoundsOK
  BY DEF BuiltOK
<1>2. pc' = "connect" /\ request' = request /\ request \in Requests /\ Voter' = Voter /\ All' = All
  BY <1>1, RoundDegrees DEF Round, TypeOK
<1>3. LowerOK' /\ PlainOK' /\ RoundsOK'
  BY <1>1, LowerStep, PlainStep, RoundsStep
<1>4. degree' \in [Voter -> Int] /\ \A n \in Voter : degree'[n] <= degree[n]
  BY <1>1, RoundDegrees
<1>5. ASSUME NEW n \in Voter PROVE degree'[n] >= 1 - Cardinality(Voter)
  <2> DEFINE Z == {m \in Voter \ {n} : degree'[m] <= 0}
  <2>1. degree'[n] + Cardinality(Z) >= 0
    BY <1>2, <1>3 DEF LowerOK
  <2>2. Z \in SUBSET (Voter \ {n}) /\ Cardinality(Voter) \in Nat /\ degree'[n] \in Int
    BY <1>2, <1>4, VoterFacts
  <2> HIDE DEF Z
  <2>3. Cardinality(Z) \in 0..(Cardinality(Voter) - 1)
    BY <1>2, <2>2, OthersFacts
  <2> QED
    BY <2>1, <2>2, <2>3
<1>6. \A n \in Voter : degree'[n] \in (1 - Cardinality(Voter))..request.degrees[n]
  <2>1. request.degrees \in [Voter -> Nat] /\ Cardinality(Voter) \in Nat
    BY <1>2, VoterFacts
  <2>2. \A n \in Voter : degree[n] \in Int /\ degree[n] <= request.degrees[n]
    BY <2>1, <1>1 DEF TypeOK
  <2> QED
    BY <2>1, <2>2, <1>4, <1>5
<1>7. edges' \in [All -> [All -> Nat]]
  BY <1>1, RoundEdges
<1>8. TypeOK'
  BY <1>2, <1>4, <1>6, <1>7 DEF TypeOK
<1>9. AcceptedOK' /\ GeneratedOK'
  BY <1>2 DEF AcceptedOK, GeneratedOK
<1> QED
  BY <1>3, <1>8, <1>9 DEF BuiltOK

\* A step that only says how to go on keeps the invariant if what it has
\* checked holds.
LEMMA CheckInv ==
  ASSUME BuiltOK, pc # "generated", UNCHANGED <<request, degree, edges>>,
         pc' \in {"connect", "voters", "supporters", "invalid-argument", "not connected", "TypeError"},
         AcceptedOK'
  PROVE  BuiltOK'
<1>1. TypeOK /\ LowerOK /\ PlainOK /\ RoundsOK
  BY DEF BuiltOK
<1>2. Voter' = Voter /\ All' = All
  BY DEF Voter, All
<1>3. TypeOK'
  BY <1>1, <1>2 DEF TypeOK, Ended
<1>4. LowerOK'
  BY <1>1, <1>2 DEF LowerOK
<1>5. PlainOK'
  BY <1>1, <1>2 DEF PlainOK
<1>6. \A n : Friends(n)' = Friends(n)
  BY <1>2 DEF Friends
<1>7. AnyDegreeBelowZero' <=> AnyDegreeBelowZero
  BY <1>2 DEF AnyDegreeBelowZero
<1>8. RoundsOK'
  BY <1>1, <1>2, <1>6, <1>7 DEF RoundsOK
<1>9. GeneratedOK'
  BY DEF GeneratedOK
<1> QED
  BY <1>3, <1>4, <1>5, <1>8, <1>9 DEF BuiltOK

\* When no degree is left, every voter has the friends it asked for.
LEMMA FriendsAsAsked ==
  ASSUME TypeOK, PlainOK, RoundsOK, pc # "generated", \A n \in Voter : degree[n] = 0
  PROVE  /\ \A m, n \in All : edges[m][n] \in Nat /\ edges[m][n] = edges[n][m] /\ edges[m][n] <= 1
         /\ \A n \in Voter : /\ n \notin Friends(n)
                             /\ Cardinality(Friends(n)) = request.degrees[n]
         /\ \A m, n \in All : m \in Candidate => edges[m][n] = 0 /\ edges[n][m] = 0
<1>1. /\ request \in Requests /\ Voter \subseteq All
      /\ \A n \in All : n \in Voter \/ n \in Candidate
      /\ \A m, n \in All : edges[m][n] \in Nat
  BY VoterFacts DEF TypeOK
<1>2. \A m, n \in All : /\ edges[m][n] = edges[n][m]
                        /\ (m = n \/ m \in Candidate) => edges[m][n] = 0
  BY DEF PlainOK
<1>3. ~AnyDegreeBelowZero
  BY DEF AnyDegreeBelowZero
<1>4. \A n \in Voter : /\ \A m \in Voter : edges[m][n] <= 1
                       /\ Cardinality(Friends(n)) + degree[n] = request.degrees[n]
  BY <1>3 DEF RoundsOK
<1>5. \A n \in Voter : n \notin Friends(n)
  BY <1>1, <1>2 DEF Friends
<1>6. \A n \in Voter : Cardinality(Friends(n)) = request.degrees[n]
  <2> TAKE n \in Voter
  <2>1. Friends(n) \in SUBSET Voter
    BY DEF Friends
  <2>2. Cardinality(Friends(n)) \in Nat
    BY <2>1, <1>1, CountFacts
  <2> QED
    BY <2>2, <1>4
<1>7. \A m, n \in All : m \in Candidate => edges[m][n] = 0 /\ edges[n][m] = 0
  BY <1>2
<1>8. \A m, n \in All : edges[m][n] <= 1
  BY <1>1, <1>4, <1>7
<1> QED
  BY <1>1, <1>2, <1>5, <1>6, <1>7, <1>8

\* The postcondition lets only graphs pass that are as asked.
LEMMA PostconditionsInv ==
  ASSUME BuiltOK, CheckPostconditions
  PROVE  BuiltOK'
<1>1. TypeOK /\ LowerOK /\ PlainOK /\ RoundsOK
  BY DEF BuiltOK
<1>2. /\ pc = "connect" /\ UNCHANGED <<request, degree, edges>>
      /\ ~AnyDegreeAboveZero
      /\ \/ pc' = "invalid-argument"
         \/ ~AnyDegreeBelowZero /\ request.election /\ pc' = "voters"
         \/ ~AnyDegreeBelowZero /\ ~request.election /\ pc' = "generated"
  BY DEF CheckPostconditions
<1>3. ~AnyDegreeBelowZero => \A n \in Voter : degree[n] = 0
  BY <1>1, <1>2 DEF AnyDegreeAboveZero, AnyDegreeBelowZero, TypeOK
<1>4. Voter' = Voter /\ All' = All
  BY <1>2 DEF Voter, All
<1>5. CASE pc' # "generated"
  <2>1. AcceptedOK'
    BY <1>2, <1>3, <1>4, <1>5 DEF AcceptedOK
  <2> QED
    BY <2>1, <1>2, <1>5, CheckInv
<1>6. CASE pc' = "generated"
  <2>1. /\ \A m, n \in All : edges[m][n] = edges[n][m] /\ edges[m][n] <= 1
        /\ \A n \in Voter : /\ n \notin Friends(n)
                            /\ Cardinality(Friends(n)) = request.degrees[n]
    BY <1>1, <1>2, <1>3, <1>6, FriendsAsAsked
  <2>2. Voter \subseteq All
    BY DEF All
  <2>3. DegreesAsAsked'
    BY <2>1, <2>2, <1>2, <1>4 DEF DegreesAsAsked, Friends
  <2>4. GeneratedOK'
    BY <2>1, <2>3, <1>2, <1>4, <1>6 DEF GeneratedOK
  <2>5. PlainOK' /\ RoundsOK' /\ AcceptedOK'
    BY <1>6 DEF PlainOK, RoundsOK, AcceptedOK
  <2>6. LowerOK'
    BY <1>1, <1>2, <1>4 DEF LowerOK
  <2>7. TypeOK'
    BY <1>1, <1>2, <1>4, <1>6 DEF TypeOK, Ended
  <2> QED
    BY <2>4, <2>5, <2>6, <2>7 DEF BuiltOK
<1> QED
  BY <1>5, <1>6

\* Voters of equal degree are all in a component, or none is.
LEMMA ConnectedInv ==
  ASSUME BuiltOK, CheckConnected
  PROVE  BuiltOK'
<1>1. TypeOK /\ LowerOK /\ PlainOK /\ RoundsOK /\ AcceptedOK /\ request \in Requests
  BY DEF BuiltOK, TypeOK
<1> DEFINE V == {n \in Voter : \E m \in Voter : edges[n][m] > 0}
<1>2. /\ pc = "voters" /\ UNCHANGED <<request, degree, edges>>
      /\ pc' \in {"supporters", "not connected"}
      /\ pc' = "supporters" => Connected(V)
  BY DEF CheckConnected, IsStronglyConnected
<1>3. /\ request.election /\ (\A n \in Voter : degree[n] = 0)
      /\ \A m, n \in Voter : request.degrees[m] = request.degrees[n]
  BY <1>1, <1>2, VoterFacts DEF AcceptedOK
<1>4. Voter' = Voter
  BY <1>2 DEF Voter
<1>5. ASSUME pc' = "supporters"
      PROVE  Connected(Voter)' /\ \A n \in Voter : request.degrees[n] > 0
  <2>1. \A n \in Voter : Cardinality(Friends(n)) = request.degrees[n] /\ Friends(n) \in SUBSET Voter
    BY <1>1, <1>2, <1>3, FriendsAsAsked DEF Friends
  <2>2. \A n \in Voter : Cardinality(Friends(n)) = 0 <=> Friends(n) = {}
    BY <2>1, <1>1, CountFacts, FS_EmptySet
  <2>3. \A n \in Voter : n \in V <=> Friends(n) # {}
    BY DEF Friends
  <2>4. V # {}
    BY <1>2, <1>5 DEF Connected
  <2>5. PICK k \in Voter : request.degrees[k] # 0
    BY <2>1, <2>2, <2>3, <2>4
  <2>6. \A m \in Voter : Cardinality(Friends(m)) # 0
    BY <2>1, <2>5, <1>3
  <2>7. V = Voter
    BY <2>2, <2>3, <2>6
  <2> HIDE DEF V
  <2>8. Connected(Voter)
    BY <2>7, <1>2, <1>5
  <2>9. \A n \in Voter : request.degrees[n] > 0
    BY <1>1, <1>3, <2>5, VoterFacts
  <2> QED
    BY <2>8, <2>9, <1>2, <1>4 DEF Connected
<1>6. AcceptedOK'
  BY <1>2, <1>3, <1>4, <1>5 DEF AcceptedOK
<1> QED
  BY <1>2, <1>6, CheckInv

-----------------------------------------------------------------------------
(* The supporters.                                                         *)

\* The sizes that the choice of the first supporter depends on.
LEMMA SizeFacts ==
  ASSUME request \in Requests
  PROVE  /\ Cardinality(Candidate) = 2 /\ IsFiniteSet(Candidate)
         /\ Cardinality(All) = Cardinality(Voter) + 2
         /\ NumberOfSupporters = 2 * request.supporters
         /\ request.supporters \in Nat
<1>1. Cardinality(Candidate) = 2 /\ IsFiniteSet(Candidate)
  <2>1. IsFiniteSet({1}) /\ Cardinality({1}) = 1
    BY FS_Singleton
  <2>2. IsFiniteSet({1} \cup {2}) /\ Cardinality({1} \cup {2}) = 1 + 1
    BY <2>1, FS_AddElement
  <2>3. Candidate = {1} \cup {2}
    BY DEF Candidate
  <2> QED
    BY <2>2, <2>3
<1>2. Cardinality(All) = Cardinality(Voter) + 2
  <2>1. PICK v \in Nat : v = Cardinality(Voter)
    BY VoterFacts
  <2>2. All = 1..(v + 2) /\ 1 \in Int /\ v + 2 \in Int /\ ~(1 > v + 2)
    BY <2>1, VoterFacts
  <2>3. Cardinality(1..(v + 2)) = v + 2 - 1 + 1
    BY <2>2, FS_Interval
  <2> QED
    BY <2>1, <2>2, <2>3
<1>3. request.supporters \in Nat
  BY VoterFacts
<1> QED
  BY <1>1, <1>2, <1>3 DEF NumberOfSupporters

\* Where the supporters begin when all of them are nodes: never before the
\* first voter, although randomNumber() takes its bounds in either order.
LEMMA FirstSupporter ==
  ASSUME request \in Requests, pc = "supporters", AddSupporters, pc' = "generated"
  PROVE  \E first \in 3..(Cardinality(Voter) + 3) :
           /\ first + 2 * request.supporters - 1 <= Cardinality(Voter) + 2
           /\ edges' = [m \in All |-> [n \in All |-> edges[m][n] +
                Cardinality({i \in first..(first + 2 * request.supporters - 1) :
                               Edge(((i - first) % 2) + 1, i, m, n)})]]
<1>1. PICK first \in RandomNumber(Cardinality(Candidate) + 1,
                                  Cardinality(All) - NumberOfSupporters + 1) :
        /\ first..LastSupporter(first) \subseteq All
        /\ edges' = [m \in All |-> [n \in All |-> edges[m][n] +
             Cardinality({i \in first..LastSupporter(first) :
                            Edge(((i - first) % Cardinality(Candidate)) + 1, i, m, n)})]]
  BY DEF AddSupporters
<1>2. PICK v \in Nat, s \in Nat : v = Cardinality(Voter) /\ s = request.supporters
  BY VoterFacts
<1>3. /\ Cardinality(Candidate) = 2 /\ Cardinality(All) = v + 2 /\ NumberOfSupporters = 2 * s
      /\ All = 1..(v + 2)
  BY <1>2, SizeFacts, VoterFacts
<1>4. first \in RandomNumber(3, v + 3 - 2 * s)
  <2>1. Cardinality(Candidate) + 1 = 3 /\ Cardinality(All) - NumberOfSupporters + 1 = v + 3 - 2 * s
    BY <1>3
  <2> QED
    BY <1>1, <2>1
<1>5. LastSupporter(first) = first + 2 * s - 1
  BY <1>3 DEF LastSupporter
<1>6. first..(first + 2 * s - 1) \subseteq 1..(v + 2)
  BY <1>1, <1>3, <1>5
<1>7. first \in 3..(v + 3) /\ first + 2 * s - 1 <= v + 2
  <2>1. CASE 3 <= v + 3 - 2 * s
    BY <2>1, <1>4 DEF RandomNumber
  <2>2. CASE ~(3 <= v + 3 - 2 * s)
    <3>1. first \in (v + 4 - 2 * s)..3 /\ s >= 1
      BY <2>2, <1>4 DEF RandomNumber
    <3>2. first + 2 * s - 1 \in first..(first + 2 * s - 1)
      BY <3>1
    <3>3. first + 2 * s - 1 >= v + 3
      BY <3>1
    <3> QED
      BY <3>1, <3>2, <3>3, <1>6
  <2> QED
    BY <2>1, <2>2
<1>8. edges' = [m \in All |-> [n \in All |-> edges[m][n] +
             Cardinality({i \in first..(first + 2 * s - 1) :
                            Edge(((i - first) % 2) + 1, i, m, n)})]]
  BY <1>1, <1>3, <1>5
<1> QED
  BY <1>2, <1>7, <1>8

\* The edges of the supporters, each to one candidate.
LEMMA SupporterEdges ==
  ASSUME request \in Requests, NEW first \in 3..(Cardinality(Voter) + 3),
         first + 2 * request.supporters - 1 <= Cardinality(Voter) + 2,
         NEW m \in All, NEW n \in All
  PROVE  LET X == Cardinality({i \in first..(first + 2 * request.supporters - 1) :
                                 Edge(((i - first) % 2) + 1, i, m, n)})
         IN  /\ m \in Voter /\ n \in Voter => X = 0
             /\ m \in Candidate /\ n \in Candidate => X = 0
             /\ m \in Candidate /\ n \in Voter => X = IF Supports(n, m, first) THEN 1 ELSE 0
             /\ m \in Voter /\ n \in Candidate => X = IF Supports(m, n, first) THEN 1 ELSE 0
<1> DEFINE supporters == first..(first + 2 * request.supporters - 1)
           candidate(i) == ((i - first) % 2) + 1
           T == {i \in supporters : Edge(candidate(i), i, m, n)}
<1>1. PICK v \in Nat, s \in Nat : v = Cardinality(Voter) /\ s = request.supporters
  BY VoterFacts
<1>2. Voter = 3..(v + 2) /\ Voter \cap Candidate = {}
  BY <1>1, VoterFacts
<1>3. ASSUME NEW i \in supporters PROVE i \in Voter /\ candidate(i) \in Candidate
  <2>1. i \in first..(first + 2 * s - 1) /\ first \in 3..(v + 3) /\ first + 2 * s - 1 <= v + 2
    BY <1>1
  <2>2. i \in 3..(v + 2) /\ i - first \in Int
    BY <2>1
  <2>3. \A x \in Int : (x % 2) + 1 \in {1, 2}
    OBVIOUS
  <2> QED
    BY <2>2, <2>3, <1>2 DEF Candidate
<1>4. \A k, c : Supports(k, c, first) <=> k \in supporters /\ c = candidate(k)
  BY DEF Supports
<1>5. \A i : i \in T <=> /\ i \in supporters
                         /\ (m = candidate(i) /\ n = i) \/ (m = i /\ n = candidate(i))
  BY DEF Edge
<1> HIDE DEF supporters, candidate, T
<1>6. Cardinality({}) = 0 /\ Cardinality({m}) = 1 /\ Cardinality({n}) = 1
  BY FS_EmptySet, FS_Singleton
<1>7. m \in Voter /\ n \in Voter => T = {}
  BY <1>2, <1>3, <1>5
<1>8. m \in Candidate /\ n \in Candidate => T = {}
  BY <1>2, <1>3, <1>5
<1>9. ASSUME m \in Candidate, n \in Voter PROVE T = IF Supports(n, m, first) THEN {n} ELSE {}
  BY <1>2, <1>3, <1>4, <1>5, <1>9
<1>10. ASSUME m \in Voter, n \in Candidate PROVE T = IF Supports(m, n, first) THEN {m} ELSE {}
  BY <1>2, <1>3, <1>4, <1>5, <1>10
<1>11. /\ m \in Voter /\ n \in Voter => Cardinality(T) = 0
       /\ m \in Candidate /\ n \in Candidate => Cardinality(T) = 0
       /\ m \in Candidate /\ n \in Voter => Cardinality(T) = IF Supports(n, m, first) THEN 1 ELSE 0
       /\ m \in Voter /\ n \in Candidate => Cardinality(T) = IF Supports(m, n, first) THEN 1 ELSE 0
  BY <1>6, <1>7, <1>8, <1>9, <1>10
<1> QED
  BY <1>11 DEF T, supporters, candidate

\* Adding the supporters to a graph that is as asked.
LEMMA SupportersInv ==
  ASSUME BuiltOK, AddSupporters
  PROVE  BuiltOK'
<1>1. TypeOK /\ LowerOK /\ PlainOK /\ RoundsOK /\ AcceptedOK /\ request \in Requests
  BY DEF BuiltOK, TypeOK
<1>2. /\ pc = "supporters" /\ UNCHANGED <<request, degree>>
      /\ pc' = "generated" \/ (pc' = "TypeError" /\ UNCHANGED edges)
  BY DEF AddSupporters
<1>3. /\ request.election /\ (\A n \in Voter : degree[n] = 0)
      /\ Connected(Voter) /\ \A n \in Voter : request.degrees[n] > 0
  BY <1>1, <1>2 DEF AcceptedOK
<1>4. CASE pc' = "TypeError" /\ UNCHANGED edges
  <2>1. AcceptedOK'
    BY <1>4 DEF AcceptedOK
  <2> QED
    BY <2>1, <1>2, <1>4, CheckInv
<1>5. CASE pc' = "generated"
  <2>1. /\ Voter' = Voter /\ All' = All
        /\ Voter \subseteq All /\ Candidate \subseteq All /\ Voter \cap Candidate = {}
        /\ \A n \in All : n \in Voter \/ n \in Candidate
    BY <1>1, <1>2, VoterFacts DEF Voter, All
  <2>2. /\ \A m, n \in All : edges[m][n] \in Nat /\ edges[m][n] = edges[n][m] /\ edges[m][n] <= 1
        /\ \A n \in Voter : /\ n \notin Friends(n)
                            /\ Cardinality(Friends(n)) = request.degrees[n]
        /\ \A m, n \in All : m \in Candidate => edges[m][n] = 0 /\ edges[n][m] = 0
    BY <1>1, <1>2, <1>3, FriendsAsAsked
  <2>3. PICK first \in 3..(Cardinality(Voter) + 3) :
          /\ first + 2 * request.supporters - 1 <= Cardinality(Voter) + 2
          /\ edges' = [m \in All |-> [n \in All |-> edges[m][n] +
               Cardinality({i \in first..(first + 2 * request.supporters - 1) :
                              Edge(((i - first) % 2) + 1, i, m, n)})]]
    BY <1>1, <1>2, <1>5, FirstSupporter
  <2> DEFINE X(m, n) == Cardinality({i \in first..(first + 2 * request.supporters - 1) :
                                       Edge(((i - first) % 2) + 1, i, m, n)})
  <2>4. \A m, n \in All :
          /\ m \in Voter /\ n \in Voter => X(m, n) = 0
          /\ m \in Candidate /\ n \in Candidate => X(m, n) = 0
          /\ m \in Candidate /\ n \in Voter => X(m, n) = IF Supports(n, m, first) THEN 1 ELSE 0
          /\ m \in Voter /\ n \in Candidate => X(m, n) = IF Supports(m, n, first) THEN 1 ELSE 0
    BY <1>1, <2>3, SupporterEdges
  <2>5. edges' = [m \in All |-> [n \in All |-> edges[m][n] + X(m, n)]]
    BY <2>3
  <2> HIDE DEF X
  <2>6. \A m, n \in All : edges'[m][n] = edges[m][n] + X(m, n)
    BY <2>5
  <2>7. /\ \A m, n \in Voter : edges'[m][n] = edges[m][n]
        /\ \A c, d \in Candidate : edges'[c][d] = 0
        /\ \A c \in Candidate, n \in Voter :
             /\ edges'[c][n] = IF Supports(n, c, first) THEN 1 ELSE 0
             /\ edges'[n][c] = IF Supports(n, c, first) THEN 1 ELSE 0
    BY <2>1, <2>2, <2>4, <2>6
  <2>8. \A m, n \in All : edges'[m][n] \in Nat /\ edges'[m][n] = edges'[n][m] /\ edges'[m][n] <= 1
    <3> TAKE m, n \in All
    <3>1. CASE m \in Voter /\ n \in Voter
      BY <3>1, <2>2, <2>7
    <3>2. CASE m \in Candidate /\ n \in Candidate
      BY <3>2, <2>7
    <3>3. CASE m \in Candidate /\ n \in Voter
      BY <3>3, <2>7
    <3>4. CASE m \in Voter /\ n \in Candidate
      BY <3>4, <2>7
    <3> QED
      BY <3>1, <3>2, <3>3, <3>4, <2>1
  <2>9. edges' \in [All -> [All -> Nat]]
    BY <2>5, <2>6, <2>8
  <2>10. TypeOK'
    BY <1>1, <1>2, <1>5, <2>1, <2>9 DEF TypeOK, Ended
  <2>11. PlainOK' /\ RoundsOK' /\ AcceptedOK'
    BY <1>5 DEF PlainOK, RoundsOK, AcceptedOK
  <2>12. LowerOK'
    BY <1>1, <1>2, <2>1 DEF LowerOK
  <2>13. \A n \in Voter : {m \in Voter : edges'[n][m] > 0} = Friends(n)
    BY <2>7 DEF Friends
  <2>14. DegreesAsAsked'
    BY <2>1, <2>2, <2>8, <2>13, <1>2 DEF DegreesAsAsked
  <2>15. Connected(Voter)'
    <3>1. Voter # {} /\ \A S \in (SUBSET Voter) \ {{}, Voter} : \E m \in S, n \in Voter \ S : edges[m][n] > 0
      BY <1>3 DEF Connected
    <3>2. \A S \in (SUBSET Voter) \ {{}, Voter} : \E m \in S, n \in Voter \ S : edges'[m][n] > 0
      BY <3>1, <2>7
    <3> QED
      BY <3>1, <3>2, <2>1 DEF Connected
  <2>16. \A n, c : Supports(n, c, first)' <=> Supports(n, c, first)
    BY <1>2 DEF Supports
  <2>17. (\E f \in 3..(Cardinality(Voter) + 3) :
            /\ f + 2 * request.supporters - 1 <= Cardinality(Voter) + 2
            /\ \A c \in Candidate, n \in Voter :
                 edges[c][n] = IF Supports(n, c, f) THEN 1 ELSE 0)'
    <3>1. /\ first \in 3..(Cardinality(Voter') + 3)
          /\ first + 2 * request'.supporters - 1 <= Cardinality(Voter') + 2
      BY <1>2, <2>1, <2>3
    <3>2. \A c \in Candidate, n \in Voter' :
            edges'[c][n] = IF Supports(n, c, first)' THEN 1 ELSE 0
      BY <2>1, <2>7, <2>16
    <3> QED
      BY <3>1, <3>2
  <2>18. GeneratedOK'
    BY <1>2, <1>3, <2>1, <2>7, <2>8, <2>14, <2>15, <2>17 DEF GeneratedOK
  <2> QED
    BY <2>10, <2>11, <2>12, <2>18 DEF BuiltOK
<1> QED
  BY <1>2, <1>4, <1>5

-----------------------------------------------------------------------------
(* The invariant.                                                          *)

\* Nothing is connected at the beginning.
LEMMA InitInv == Init => BuiltOK
<1> SUFFICES ASSUME Init PROVE BuiltOK
  OBVIOUS
<1>1. /\ request \in Requests /\ degree = request.degrees /\ pc = "check"
      /\ edges = [m \in All |-> [n \in All |-> 0]]
  BY DEF Init
<1>2. /\ request.degrees \in [Voter -> Nat] /\ Voter \subseteq All
      /\ Cardinality(Voter) \in Nat /\ IsFiniteSet(Voter)
  BY <1>1, VoterFacts
<1>3. \A m, n \in All : edges[m][n] = 0
  BY <1>1
<1>4. TypeOK
  <2>1. \A n \in Voter : Cardinality(Voter) >= 1
    <3> TAKE n \in Voter
    <3>1. Cardinality(Voter \ {n}) = Cardinality(Voter) - 1 /\ Cardinality(Voter \ {n}) \in Nat
      BY <1>2, FS_RemoveElement, FS_CardinalityType
    <3> QED
      BY <3>1, <1>2
  <2>2. \A n \in Voter : degree[n] \in (1 - Cardinality(Voter))..request.degrees[n]
    BY <1>1, <1>2, <2>1
  <2>3. degree \in [Voter -> Int] /\ edges \in [All -> [All -> Nat]]
    BY <1>1, <1>2
  <2> QED
    BY <1>1, <2>2, <2>3 DEF TypeOK
<1>5. LowerOK
  <2> SUFFICES ASSUME NEW n \in Voter
               PROVE  degree[n] + Cardinality({m \in Voter \ {n} : degree[m] <= 0}) >= 0
    BY DEF LowerOK
  <2> DEFINE Z == {m \in Voter \ {n} : degree[m] <= 0}
  <2>1. Z \in SUBSET Voter
    OBVIOUS
  <2> HIDE DEF Z
  <2>2. Cardinality(Z) \in Nat /\ degree[n] \in Nat
    BY <1>1, <1>2, <2>1, CountFacts
  <2>3. degree[n] + Cardinality(Z) >= 0
    BY <2>2
  <2> QED
    BY <2>3 DEF Z
<1>6. PlainOK
  BY <1>3 DEF PlainOK
<1>7. RoundsOK
  <2> SUFFICES ASSUME NEW n \in Voter
               PROVE  /\ \A m \in Voter : /\ edges[m][n] <= 1
                                          /\ edges[m][n] > 0 => degree[m] = 0 \/ degree[n] = 0
                      /\ Cardinality(Friends(n)) + degree[n] = request.degrees[n]
    BY DEF RoundsOK
  <2>1. \A m \in Voter : edges[m][n] = 0 /\ edges[n][m] = 0
    BY <1>2, <1>3
  <2>2. Friends(n) = {}
    BY <2>1 DEF Friends
  <2>3. Cardinality(Friends(n)) = 0
    BY <2>2, FS_EmptySet
  <2> QED
    BY <1>1, <1>2, <2>1, <2>3
<1>8. AcceptedOK /\ GeneratedOK
  BY <1>1 DEF AcceptedOK, GeneratedOK
<1> QED
  BY <1>4, <1>5, <1>6, <1>7, <1>8 DEF BuiltOK

\* Every step keeps the invariant.
LEMMA NextInv == BuiltOK /\ [Next]_vars => BuiltOK'
<1> SUFFICES ASSUME BuiltOK, [Next]_vars PROVE BuiltOK'
  OBVIOUS
<1>1. CASE CheckPreconditions
  <2>1. /\ pc = "check" /\ UNCHANGED <<request, degree, edges>>
        /\ pc' \in {"invalid-argument", "connect"}
    BY <1>1 DEF CheckPreconditions
  <2>2. AcceptedOK'
    BY <2>1 DEF AcceptedOK
  <2> QED
    BY <2>1, <2>2, CheckInv
<1>2. CASE ConnectFirstNode
  <2>1. TypeOK /\ pc = "connect"
    BY <1>2 DEF BuiltOK, ConnectFirstNode
  <2>2. CASE \E first \in Voter, S \in SUBSET Voter : Round(first, S)
    BY <2>2, RoundInv
  <2>3. CASE pc' = "TypeError" /\ UNCHANGED <<request, degree, edges>>
    <3>1. AcceptedOK'
      BY <2>3 DEF AcceptedOK
    <3> QED
      BY <3>1, <2>1, <2>3, CheckInv
  <2> QED
    BY <1>2, <2>1, <2>2, <2>3, RoundOrError
<1>3. CASE CheckPostconditions
  BY <1>3, PostconditionsInv
<1>4. CASE CheckConnected
  BY <1>4, ConnectedInv
<1>5. CASE AddSupporters
  BY <1>5, SupportersInv
<1>6. CASE UNCHANGED vars
  <2>1. UNCHANGED <<request, degree, edges, pc>> /\ Voter' = Voter /\ All' = All
    BY <1>6 DEF vars, Voter, All
  <2>2. TypeOK' /\ LowerOK' /\ PlainOK'
    BY <2>1 DEF BuiltOK, TypeOK, LowerOK, PlainOK
  <2>3. RoundsOK'
    BY <2>1 DEF BuiltOK, RoundsOK, AnyDegreeBelowZero, Friends
  <2>4. Connected(Voter)' <=> Connected(Voter)
    BY <2>1 DEF Connected
  <2>5. AcceptedOK'
    BY <2>1, <2>4 DEF BuiltOK, AcceptedOK
  <2>6. DegreesAsAsked' <=> DegreesAsAsked
    BY <2>1 DEF DegreesAsAsked
  <2>7. \A n, c, first : Supports(n, c, first)' <=> Supports(n, c, first)
    BY <2>1 DEF Supports
  <2>8. GeneratedOK'
    <3>1. GeneratedOK
      BY DEF BuiltOK
    <3> QED
      BY <2>1, <2>4, <2>6, <2>7, <3>1 DEF GeneratedOK
  <2> QED
    BY <2>2, <2>3, <2>5, <2>8 DEF BuiltOK
<1> QED
  BY <1>1, <1>2, <1>3, <1>4, <1>5, <1>6 DEF Next

-----------------------------------------------------------------------------
(* Which degrees a graph can have (Havel and Hakimi).                      *)

\* A graph of V without loops, as a symmetric relation.
Graphs(V) == {R \in SUBSET (V \X V) : \A m, n \in V : <<m, n>> \in R => m # n /\ <<n, m>> \in R}

FriendsIn(R, V, n) == {m \in V : <<n, m>> \in R}

Realizes(R, V, d) == R \in Graphs(V) /\ \A n \in V : Cardinality(FriendsIn(R, V, n)) = d[n]

\* There is a smallest one of sets.
LEMMA Smallest ==
  ASSUME NEW V, IsFiniteSet(V), NEW T \in SUBSET (SUBSET V), T # {}
  PROVE  \E x \in T : \A y \in T : y \subseteq x => y = x
<1>1. IsWellFoundedOn(StrictSubsetOrdering(V), FiniteSubsetsOf(V))
  BY FS_StrictSubsetOrderingWellFounded
<1>2. T \subseteq FiniteSubsetsOf(V)
  BY FS_FiniteSubsetsOfFinite
<1>3. PICK x \in T : \A y \in T : ~(<<y, x>> \in StrictSubsetOrdering(V))
  BY <1>1, <1>2, WFMin
<1>4. ASSUME NEW y \in T, y \subseteq x, y # x PROVE FALSE
  <2>1. <<y, x>> \in StrictSubsetOrdering(V)
    BY <1>4 DEF StrictSubsetOrdering
  <2> QED
    BY <2>1, <1>3
<1> QED
  BY <1>4

\* An element for another one.
LEMMA SwapCount ==
  ASSUME NEW A, IsFiniteSet(A), NEW x \in A, NEW y, y \notin A
  PROVE  Cardinality((A \ {x}) \cup {y}) = Cardinality(A)
<1>1. IsFiniteSet(A \ {x}) /\ Cardinality(A \ {x}) = Cardinality(A) - 1
  BY FS_RemoveElement
<1>2. Cardinality((A \ {x}) \cup {y}) = Cardinality(A \ {x}) + 1
  BY <1>1, FS_AddElement
<1> QED
  BY <1>1, <1>2, FS_CardinalityType

\* Of two nodes the one with as many friends has a friend that the other has
\* not, if the other has a friend that it has not.
LEMMA OtherFriend ==
  ASSUME NEW V, IsFiniteSet(V), NEW R \in Graphs(V), NEW a \in V, NEW b \in V, a # b,
         Cardinality(FriendsIn(R, V, a)) >= Cardinality(FriendsIn(R, V, b)),
         NEW v \in V, v # a, <<b, v>> \in R, <<a, v>> \notin R
  PROVE  \E w \in V : <<a, w>> \in R /\ w # b /\ <<b, w>> \notin R
<1> SUFFICES ASSUME \A w \in V : <<a, w>> \in R /\ w # b => <<b, w>> \in R
             PROVE  FALSE
  OBVIOUS
<1> DEFINE A == FriendsIn(R, V, a)
           B == FriendsIn(R, V, b)
           X == A \ {b}
           Y == B \ {a}
<1>1. A \in SUBSET V /\ B \in SUBSET V /\ (b \in A <=> a \in B) /\ a \notin A /\ v \in Y /\ v \notin X
  BY DEF FriendsIn, Graphs
<1>2. X \subseteq (Y \ {v})
  BY <1>1 DEF FriendsIn
<1>3. Cardinality(A) >= Cardinality(B)
  OBVIOUS
<1> HIDE DEF A, B
<1>4. /\ IsFiniteSet(A) /\ IsFiniteSet(B) /\ Cardinality(A) \in Nat /\ Cardinality(B) \in Nat
  BY <1>1, FS_Subset, FS_CardinalityType
<1>5. /\ Cardinality(X) = IF b \in A THEN Cardinality(A) - 1 ELSE Cardinality(A)
      /\ IsFiniteSet(Y) /\ Cardinality(Y) = IF a \in B THEN Cardinality(B) - 1 ELSE Cardinality(B)
  BY <1>4, FS_RemoveElement
<1>6. IsFiniteSet(Y \ {v}) /\ Cardinality(Y \ {v}) = Cardinality(Y) - 1
  BY <1>1, <1>5, FS_RemoveElement
<1>7. Cardinality(X) <= Cardinality(Y \ {v})
  BY <1>2, <1>6, FS_Subset
<1> QED
  BY <1>1, <1>3, <1>4, <1>5, <1>6, <1>7

\* A friend b of v that is not in S can be replaced by one that is, when those
\* in S have degrees at least as large as the others.
LEMMA Exchange ==
  ASSUME NEW V, IsFiniteSet(V), NEW d, NEW R, Realizes(R, V, d),
         NEW v \in V, NEW S \in SUBSET V, v \notin S, Cardinality(S) = d[v],
         \A m \in S, n \in V \ (S \cup {v}) : d[m] >= d[n],
         NEW b \in FriendsIn(R, V, v), b \notin S
  PROVE  \E Q : Realizes(Q, V, d) /\ FriendsIn(Q, V, v) \ S = (FriendsIn(R, V, v) \ S) \ {b}
<1>1. /\ R \in Graphs(V) /\ R \in SUBSET (V \X V)
      /\ \A m, n \in V : <<m, n>> \in R => m # n /\ <<n, m>> \in R
      /\ \A n \in V : Cardinality(FriendsIn(R, V, n)) = d[n]
  BY DEF Realizes, Graphs
<1>2. b \in V /\ <<v, b>> \in R /\ <<b, v>> \in R /\ b # v
  BY <1>1 DEF FriendsIn
<1>3. PICK a \in S : <<v, a>> \notin R
  <2> SUFFICES ASSUME \A a \in S : <<v, a>> \in R PROVE FALSE
    OBVIOUS
  <2> DEFINE N == FriendsIn(R, V, v)
  <2>1. S \subseteq N /\ N \in SUBSET V /\ Cardinality(S) = Cardinality(N)
    BY <1>1 DEF FriendsIn
  <2>2. S = N
    BY <2>1, FS_Subset
  <2> QED
    BY <2>2
<1>4. a \in V /\ a # v /\ a # b /\ <<a, v>> \notin R /\ d[a] >= d[b]
  BY <1>1, <1>2, <1>3
<1>5. Cardinality(FriendsIn(R, V, a)) >= Cardinality(FriendsIn(R, V, b))
  BY <1>1, <1>2, <1>4
<1>6. PICK w \in V : <<a, w>> \in R /\ w # b /\ <<b, w>> \notin R
  <2>1. R \in Graphs(V) /\ a \in V /\ b \in V /\ a # b /\ v # a /\ <<b, v>> \in R /\ <<a, v>> \notin R
    BY <1>1, <1>2, <1>4
  <2> QED
    BY <2>1, <1>5, OtherFriend, Zenon
<1>7. /\ w # v /\ w # a /\ <<w, a>> \in R /\ <<w, b>> \notin R
  BY <1>1, <1>2, <1>4, <1>6
<1> DEFINE Q == (R \ {<<v, b>>, <<b, v>>, <<a, w>>, <<w, a>>})
                  \cup {<<v, a>>, <<a, v>>, <<w, b>>, <<b, w>>}
<1>8. Q \in Graphs(V)
  <2>1. Q \in SUBSET (V \X V)
    BY <1>1, <1>2, <1>4
  <2>2. ASSUME NEW m \in V, NEW n \in V, <<m, n>> \in Q PROVE m # n /\ <<n, m>> \in Q
    BY <2>2, <1>1, <1>2, <1>4, <1>6, <1>7
  <2> QED
    BY <2>1, <2>2 DEF Graphs
<1>9. /\ FriendsIn(Q, V, v) = (FriendsIn(R, V, v) \ {b}) \cup {a}
      /\ b \in FriendsIn(R, V, v) /\ a \notin FriendsIn(R, V, v)
  BY <1>2, <1>3, <1>4, <1>6, <1>7 DEF FriendsIn
<1>10. /\ FriendsIn(Q, V, a) = (FriendsIn(R, V, a) \ {w}) \cup {v}
       /\ w \in FriendsIn(R, V, a) /\ v \notin FriendsIn(R, V, a)
  BY <1>2, <1>3, <1>4, <1>6, <1>7 DEF FriendsIn
<1>11. /\ FriendsIn(Q, V, b) = (FriendsIn(R, V, b) \ {v}) \cup {w}
       /\ v \in FriendsIn(R, V, b) /\ w \notin FriendsIn(R, V, b)
  BY <1>2, <1>3, <1>4, <1>6, <1>7 DEF FriendsIn
<1>12. /\ FriendsIn(Q, V, w) = (FriendsIn(R, V, w) \ {a}) \cup {b}
       /\ a \in FriendsIn(R, V, w) /\ b \notin FriendsIn(R, V, w)
  BY <1>2, <1>3, <1>4, <1>6, <1>7 DEF FriendsIn
<1>13. \A n \in V \ {v, a, b, w} : FriendsIn(Q, V, n) = FriendsIn(R, V, n)
  BY <1>2, <1>3, <1>4, <1>6, <1>7 DEF FriendsIn
<1>14. \A n \in V : IsFiniteSet(FriendsIn(R, V, n))
  <2> TAKE n \in V
  <2>1. FriendsIn(R, V, n) \in SUBSET V
    BY DEF FriendsIn
  <2> QED
    BY <2>1, FS_Subset
<1> HIDE DEF Q
<1>15. /\ Cardinality(FriendsIn(Q, V, v)) = Cardinality(FriendsIn(R, V, v))
       /\ Cardinality(FriendsIn(Q, V, a)) = Cardinality(FriendsIn(R, V, a))
  BY <1>4, <1>9, <1>10, <1>14, SwapCount
<1>16. /\ Cardinality(FriendsIn(Q, V, b)) = Cardinality(FriendsIn(R, V, b))
       /\ Cardinality(FriendsIn(Q, V, w)) = Cardinality(FriendsIn(R, V, w))
  BY <1>2, <1>11, <1>12, <1>14, SwapCount
<1>17. \A n \in V : Cardinality(FriendsIn(Q, V, n)) = d[n]
  BY <1>1, <1>13, <1>15, <1>16
<1>18. Realizes(Q, V, d)
  BY <1>8, <1>17 DEF Realizes
<1>19. FriendsIn(Q, V, v) \ S = (FriendsIn(R, V, v) \ S) \ {b}
  BY <1>3, <1>9
<1> QED
  BY <1>18, <1>19

\* So there is a graph in which the friends of v are those in S ...
LEMMA Preferred ==
  ASSUME NEW V, IsFiniteSet(V), NEW d, NEW R, Realizes(R, V, d),
         NEW v \in V, NEW S \in SUBSET V, v \notin S, Cardinality(S) = d[v],
         \A m \in S, n \in V \ (S \cup {v}) : d[m] >= d[n]
  PROVE  \E Q : Realizes(Q, V, d) /\ FriendsIn(Q, V, v) = S
<1> DEFINE G == {Q \in Graphs(V) : Realizes(Q, V, d)}
           T == {FriendsIn(Q, V, v) \ S : Q \in G}
<1>1. \A Q : Realizes(Q, V, d) => Q \in G
  BY DEF Realizes
<1>2. T \in SUBSET (SUBSET V) /\ T # {}
  BY <1>1 DEF FriendsIn
<1>3. \E x \in T : \A y \in T : y \subseteq x => y = x
  <2> HIDE DEF T
  <2> QED
    BY <1>2, Smallest
<1>4. PICK Q \in G : \A y \in T : y \subseteq FriendsIn(Q, V, v) \ S => y = FriendsIn(Q, V, v) \ S
  BY <1>3
<1>5. Realizes(Q, V, d)
  OBVIOUS
<1>6. FriendsIn(Q, V, v) \subseteq S
  <2> SUFFICES ASSUME NEW b \in FriendsIn(Q, V, v), b \notin S PROVE FALSE
    OBVIOUS
  <2>1. PICK P : Realizes(P, V, d) /\ FriendsIn(P, V, v) \ S = (FriendsIn(Q, V, v) \ S) \ {b}
    BY <1>5, Exchange
  <2>2. FriendsIn(P, V, v) \ S \in T
    BY <2>1, <1>1
  <2> QED
    BY <2>1, <2>2, <1>3, <1>4
<1>7. Cardinality(FriendsIn(Q, V, v)) = Cardinality(S)
  BY <1>5 DEF Realizes
<1>8. FriendsIn(Q, V, v) = S
  BY <1>6, <1>7, FS_Subset
<1> QED
  BY <1>5, <1>8

\* ... and without v it has the degrees that a round leaves.
LEMMA Residue ==
  ASSUME NEW V, IsFiniteSet(V), NEW d, NEW Q, Realizes(Q, V, d), NEW v \in V, NEW e,
         e[v] = 0,
         \A n \in V \ {v} : e[n] = IF n \in FriendsIn(Q, V, v) THEN d[n] - 1 ELSE d[n]
  PROVE  \E R : Realizes(R, V, e)
<1> DEFINE R == {p \in Q : p[1] # v /\ p[2] # v}
<1>1. /\ Q \in SUBSET (V \X V)
      /\ \A m, n \in V : <<m, n>> \in Q => m # n /\ <<n, m>> \in Q
      /\ \A n \in V : Cardinality(FriendsIn(Q, V, n)) = d[n]
  BY DEF Realizes, Graphs
<1>2. R \in Graphs(V)
  BY <1>1 DEF Graphs
<1>3. FriendsIn(R, V, v) = {}
  BY DEF FriendsIn
<1>4. \A n \in V \ {v} : FriendsIn(R, V, n) = FriendsIn(Q, V, n) \ {v}
  BY DEF FriendsIn
<1>5. \A n \in V : n \in FriendsIn(Q, V, v) <=> v \in FriendsIn(Q, V, n)
  BY <1>1 DEF FriendsIn
<1>6. \A n \in V : IsFiniteSet(FriendsIn(Q, V, n))
  <2> TAKE n \in V
  <2>1. FriendsIn(Q, V, n) \in SUBSET V
    BY DEF FriendsIn
  <2> QED
    BY <2>1, FS_Subset
<1> HIDE DEF R
<1>7. ASSUME NEW n \in V PROVE Cardinality(FriendsIn(R, V, n)) = e[n]
  <2>1. CASE n = v
    BY <2>1, <1>3, FS_EmptySet
  <2>2. CASE n # v
    <3>1. Cardinality(FriendsIn(Q, V, n) \ {v})
            = IF v \in FriendsIn(Q, V, n) THEN d[n] - 1 ELSE d[n]
      BY <1>1, <1>6, FS_RemoveElement
    <3> QED
      BY <3>1, <2>2, <1>4, <1>5
  <2> QED
    BY <2>1, <2>2
<1> QED
  BY <1>2, <1>7 DEF Realizes

\* The nodes with an odd number of friends.
OddIn(R, V) == {n \in V : Cardinality(FriendsIn(R, V, n)) % 2 = 1}

\* Two elements change sides.
LEMMA TwoFlipped ==
  ASSUME NEW A, IsFiniteSet(A), NEW m, NEW n, m # n
  PROVE  Cardinality((A \ {m, n}) \cup ({m, n} \ A)) % 2 = Cardinality(A) % 2
<1> DEFINE F == (A \ {m, n}) \cup ({m, n} \ A)
           C == (A \ {m}) \ {n}
<1>1. /\ IsFiniteSet(A \ {m})
      /\ Cardinality(A \ {m}) = IF m \in A THEN Cardinality(A) - 1 ELSE Cardinality(A)
  BY FS_RemoveElement
<1>2. /\ IsFiniteSet(C)
      /\ Cardinality(C) = IF n \in A THEN Cardinality(A \ {m}) - 1 ELSE Cardinality(A \ {m})
  BY <1>1, FS_RemoveElement
<1>3. Cardinality(A) \in Nat /\ Cardinality(C) \in Nat
  BY <1>2, FS_CardinalityType
<1>4. CASE m \in A /\ n \in A
  <2>1. F = C
    BY <1>4
  <2>2. Cardinality(F) = Cardinality(C)
    BY <2>1
  <2>3. Cardinality(A) = Cardinality(C) + 2
    <3> HIDE DEF C, F
    <3> QED
      BY <1>1, <1>2, <1>3, <1>4
  <2> HIDE DEF C, F
  <2> QED
    BY <2>2, <2>3, <1>3 DEF F
<1>5. CASE m \in A /\ n \notin A
  <2>1. F = C \cup {n} /\ n \notin C
    BY <1>5
  <2>2. Cardinality(F) = Cardinality(C) + 1
    BY <2>1, <1>2, FS_AddElement
  <2> HIDE DEF C, F
  <2> QED
    BY <2>2, <1>1, <1>2, <1>3, <1>5 DEF F
<1>6. CASE m \notin A /\ n \in A
  <2>1. F = C \cup {m} /\ m \notin C
    BY <1>6
  <2>2. Cardinality(F) = Cardinality(C) + 1
    BY <2>1, <1>2, FS_AddElement
  <2> HIDE DEF C, F
  <2> QED
    BY <2>2, <1>1, <1>2, <1>3, <1>6 DEF F
<1>7. CASE m \notin A /\ n \notin A
  <2>1. F = (C \cup {m}) \cup {n} /\ m \notin C /\ n \notin (C \cup {m})
    BY <1>7
  <2>2. IsFiniteSet(C \cup {m}) /\ Cardinality(C \cup {m}) = Cardinality(C) + 1
    BY <2>1, <1>2, FS_AddElement
  <2>3. Cardinality(F) = Cardinality(C \cup {m}) + 1
    BY <2>1, <2>2, FS_AddElement
  <2> HIDE DEF C, F
  <2> QED
    BY <2>2, <2>3, <1>1, <1>2, <1>3, <1>7 DEF F
<1> QED
  BY <1>4, <1>5, <1>6, <1>7

\* An edge has two ends: without it two nodes change their parity.
LEMMA EdgeRemoved ==
  ASSUME NEW V, IsFiniteSet(V), NEW R \in Graphs(V), NEW m \in V, NEW n \in V, <<m, n>> \in R
  PROVE  \E Q \in Graphs(V) : /\ Q \subseteq R /\ Q # R
                              /\ Cardinality(OddIn(Q, V)) % 2 = Cardinality(OddIn(R, V)) % 2
<1> DEFINE Q == R \ {<<m, n>>, <<n, m>>}
           A == OddIn(R, V)
<1>1. /\ R \in SUBSET (V \X V)
      /\ \A x, y \in V : <<x, y>> \in R => x # y /\ <<y, x>> \in R
  BY DEF Graphs
<1>2. m # n /\ <<n, m>> \in R
  BY <1>1
<1>3. Q \in Graphs(V) /\ Q \subseteq R /\ Q # R
  BY <1>1 DEF Graphs
<1>4. /\ FriendsIn(Q, V, m) = FriendsIn(R, V, m) \ {n} /\ n \in FriendsIn(R, V, m)
      /\ FriendsIn(Q, V, n) = FriendsIn(R, V, n) \ {m} /\ m \in FriendsIn(R, V, n)
      /\ \A x \in V \ {m, n} : FriendsIn(Q, V, x) = FriendsIn(R, V, x)
  BY <1>2 DEF FriendsIn
<1>5. \A x \in V : IsFiniteSet(FriendsIn(R, V, x)) /\ Cardinality(FriendsIn(R, V, x)) \in Nat
  <2> TAKE x \in V
  <2>1. FriendsIn(R, V, x) \in SUBSET V
    BY DEF FriendsIn
  <2> QED
    BY <2>1, FS_Subset, FS_CardinalityType
<1> HIDE DEF Q
<1>6. /\ Cardinality(FriendsIn(Q, V, m)) = Cardinality(FriendsIn(R, V, m)) - 1
      /\ Cardinality(FriendsIn(Q, V, n)) = Cardinality(FriendsIn(R, V, n)) - 1
  <2> DEFINE M == FriendsIn(R, V, m)
             N == FriendsIn(R, V, n)
  <2>1. IsFiniteSet(M) /\ IsFiniteSet(N) /\ n \in M /\ m \in N
    BY <1>4, <1>5
  <2> HIDE DEF M, N
  <2>2. Cardinality(M \ {n}) = Cardinality(M) - 1 /\ Cardinality(N \ {m}) = Cardinality(N) - 1
    BY <2>1, FS_RemoveElement
  <2> QED
    BY <2>2, <1>4 DEF M, N
<1>7. /\ m \in OddIn(Q, V) <=> m \notin A
      /\ n \in OddIn(Q, V) <=> n \notin A
  BY <1>5, <1>6 DEF OddIn
<1>8. \A x \in V \ {m, n} : x \in OddIn(Q, V) <=> x \in A
  BY <1>4 DEF OddIn
<1>9. OddIn(Q, V) \in SUBSET V /\ A \in SUBSET V
  BY DEF OddIn
<1> HIDE DEF A
<1>10. OddIn(Q, V) = (A \ {m, n}) \cup ({m, n} \ A)
  BY <1>7, <1>8, <1>9
<1>11. Cardinality(OddIn(Q, V)) % 2 = Cardinality(A) % 2
  <2>1. IsFiniteSet(A)
    BY <1>9, FS_Subset
  <2>2. Cardinality((A \ {m, n}) \cup ({m, n} \ A)) % 2 = Cardinality(A) % 2
    BY <2>1, <1>2, TwoFlipped
  <2> QED
    BY <2>2, <1>10, Zenon
<1> QED
  BY <1>3, <1>11 DEF A

\* The number of nodes with an odd number of friends is even.
LEMMA Handshake ==
  ASSUME NEW V, IsFiniteSet(V), NEW R \in Graphs(V)
  PROVE  Cardinality(OddIn(R, V)) % 2 # 1
<1> SUFFICES ASSUME Cardinality(OddIn(R, V)) % 2 = 1 PROVE FALSE
  OBVIOUS
<1> DEFINE T == {Q \in Graphs(V) : Cardinality(OddIn(Q, V)) % 2 = 1}
<1>1. T \in SUBSET (SUBSET (V \X V)) /\ T # {}
  BY DEF Graphs
<1>2. IsFiniteSet(V \X V)
  BY FS_Product
<1>3. \E x \in T : \A y \in T : y \subseteq x => y = x
  <2> HIDE DEF T
  <2> QED
    BY <1>1, <1>2, Smallest
<1>4. PICK Q \in T : \A y \in T : y \subseteq Q => y = Q
  BY <1>3
<1>5. Q \in Graphs(V) /\ Cardinality(OddIn(Q, V)) % 2 = 1 /\ Q \in SUBSET (V \X V)
  BY DEF Graphs
<1>6. CASE Q = {}
  <2>1. \A n \in V : FriendsIn(Q, V, n) = {}
    BY <1>6 DEF FriendsIn
  <2>2. \A n \in V : Cardinality(FriendsIn(Q, V, n)) = 0
    BY <2>1, FS_EmptySet
  <2>3. OddIn(Q, V) = {}
    BY <2>2 DEF OddIn
  <2>4. Cardinality(OddIn(Q, V)) = 0
    BY <2>3, FS_EmptySet
  <2> QED
    BY <2>4, <1>5
<1>7. CASE Q # {}
  <2>1. PICK m \in V, n \in V : <<m, n>> \in Q
    BY <1>5, <1>7
  <2>2. PICK P \in Graphs(V) : /\ P \subseteq Q /\ P # Q
                               /\ Cardinality(OddIn(P, V)) % 2 = Cardinality(OddIn(Q, V)) % 2
    BY <1>5, <2>1, EdgeRemoved
  <2>3. P \in T
    BY <2>2, <1>5
  <2> QED
    BY <2>2, <2>3, <1>4
<1> QED
  BY <1>6, <1>7

-----------------------------------------------------------------------------
(* What is refused has no graph.                                           *)

\* The same graph as a set of edges and as a relation.
LEMMA GraphAsRelation ==
  ASSUME NEW d
  PROVE  HasGraph(d) <=> \E R : Realizes(R, Voter, d)
<1>1. ASSUME NEW graph \in SUBSET kSubset(2, Voter), HasDegrees(graph, d)
      PROVE  \E R : Realizes(R, Voter, d)
  <2> DEFINE R == {p \in Voter \X Voter : {p[1], p[2]} \in graph}
  <2>1. \A e \in graph : Cardinality(e) = 2
    BY DEF kSubset
  <2>2. ASSUME NEW m \in Voter, NEW n \in Voter, <<m, n>> \in R PROVE m # n /\ <<n, m>> \in R
    <3>1. {m, n} \in graph /\ {m, n} = {n, m}
      BY <2>2
    <3>2. m # n
      <4> SUFFICES ASSUME m = n PROVE FALSE
        OBVIOUS
      <4>1. {m, n} = {m}
        OBVIOUS
      <4>2. Cardinality({m}) = 2
        BY <4>1, <3>1, <2>1
      <4>3. Cardinality({m}) = 1
        BY FS_Singleton
      <4> QED
        BY <4>2, <4>3
    <3> QED
      BY <3>1, <3>2
  <2>3. R \in Graphs(Voter)
    BY <2>2 DEF Graphs
  <2>4. ASSUME NEW n \in Voter PROVE Cardinality(FriendsIn(R, Voter, n)) = d[n]
    <3>1. \A m \in Voter : {m, n} = {n, m}
      OBVIOUS
    <3>2. FriendsIn(R, Voter, n) = {m \in Voter : {m, n} \in graph}
      BY <3>1 DEF FriendsIn
    <3> QED
      BY <3>2, <1>1 DEF HasDegrees
  <2> QED
    BY <2>3, <2>4 DEF Realizes
<1>2. ASSUME NEW R, Realizes(R, Voter, d) PROVE HasGraph(d)
  <2> DEFINE graph == {e \in kSubset(2, Voter) : \E m, n \in Voter : e = {m, n} /\ <<m, n>> \in R}
  <2>1. /\ \A m, n \in Voter : <<m, n>> \in R => m # n /\ <<n, m>> \in R
        /\ \A n \in Voter : Cardinality(FriendsIn(R, Voter, n)) = d[n]
    BY <1>2 DEF Realizes, Graphs
  <2>2. ASSUME NEW m \in Voter, NEW n \in Voter PROVE {m, n} \in graph <=> <<n, m>> \in R
    <3>1. ASSUME <<n, m>> \in R PROVE {m, n} \in graph
      <4>1. m # n
        BY <2>1, <3>1
      <4>2. Cardinality({m, n}) = 2
        <5>1. IsFiniteSet({m}) /\ Cardinality({m}) = 1
          BY FS_Singleton
        <5>2. Cardinality({m} \cup {n}) = 2
          BY <4>1, <5>1, FS_AddElement
        <5>3. {m} \cup {n} = {m, n}
          OBVIOUS
        <5> QED
          BY <5>2, <5>3
      <4>3. {m, n} \in kSubset(2, Voter)
        BY <4>2 DEF kSubset
      <4>4. {m, n} = {n, m}
        OBVIOUS
      <4> QED
        BY <3>1, <4>3, <4>4
    <3>2. ASSUME {m, n} \in graph PROVE <<n, m>> \in R
      <4>1. PICK x \in Voter, y \in Voter : {m, n} = {x, y} /\ <<x, y>> \in R
        BY <3>2
      <4>2. (x = m /\ y = n) \/ (x = n /\ y = m) \/ (m = n /\ x = m /\ y = m)
        BY <4>1
      <4> QED
        BY <4>1, <4>2, <2>1
    <3> QED
      BY <3>1, <3>2
  <2>3. ASSUME NEW n \in Voter PROVE Cardinality({m \in Voter : {m, n} \in graph}) = d[n]
    <3>1. {m \in Voter : {m, n} \in graph} = FriendsIn(R, Voter, n)
      BY <2>2 DEF FriendsIn
    <3> QED
      BY <3>1, <2>1
  <2>4. graph \in SUBSET kSubset(2, Voter)
    OBVIOUS
  <2> HIDE DEF graph
  <2> QED
    BY <2>3, <2>4 DEF HasGraph, HasDegrees
<1> QED
  BY <1>1, <1>2 DEF HasGraph

\* A graph has no degree below zero, none that is not below the number of
\* nodes, and no odd number of odd degrees.
LEMMA DegreesOfGraph ==
  ASSUME request \in Requests, degree \in [Voter -> Int], HasGraph(degree)
  PROVE  /\ ~OddNumberOfOddDegrees
         /\ \A n \in Voter : degree[n] >= 0 /\ degree[n] < Cardinality(Voter)
<1>1. PICK R : Realizes(R, Voter, degree)
  BY GraphAsRelation
<1>2. IsFiniteSet(Voter)
  BY VoterFacts
<1>3. R \in Graphs(Voter) /\ \A n \in Voter : Cardinality(FriendsIn(R, Voter, n)) = degree[n]
  BY <1>1 DEF Realizes
<1>4. {n \in Voter : degree[n] % 2 = 1} = OddIn(R, Voter)
  BY <1>3 DEF OddIn
<1>5. ~OddNumberOfOddDegrees
  BY <1>2, <1>3, <1>4, Handshake DEF OddNumberOfOddDegrees
<1>6. ASSUME NEW n \in Voter PROVE degree[n] >= 0 /\ degree[n] < Cardinality(Voter)
  <2>1. FriendsIn(R, Voter, n) \in SUBSET (Voter \ {n})
    BY <1>3 DEF FriendsIn, Graphs
  <2>2. Cardinality(FriendsIn(R, Voter, n)) \in 0..(Cardinality(Voter) - 1)
    BY <2>1, OthersFacts
  <2> QED
    BY <2>2, <1>3, VoterFacts
<1> QED
  BY <1>5, <1>6

\* A round from degrees that a graph has leaves degrees that a graph has.
LEMMA RoundKeepsGraph ==
  ASSUME request \in Requests, degree \in [Voter -> Int], HasGraph(degree),
         NEW first \in Voter, NEW S \in MayFollow(first, degree[first])
  PROVE  HasGraph(Decremented(first, S))
<1>1. /\ S \in SUBSET Voter /\ first \notin S /\ Cardinality(S) = degree[first]
      /\ \A m \in S, n \in Voter \ (S \cup {first}) : degree[m] >= degree[n]
  BY DEF MayFollow, kSubset
<1>2. PICK R : Realizes(R, Voter, degree)
  BY GraphAsRelation
<1>3. IsFiniteSet(Voter)
  BY VoterFacts
<1>4. PICK Q : Realizes(Q, Voter, degree) /\ FriendsIn(Q, Voter, first) = S
  BY <1>1, <1>2, <1>3, Preferred
<1>5. /\ Decremented(first, S)[first] = 0
      /\ \A n \in Voter \ {first} : Decremented(first, S)[n]
           = IF n \in FriendsIn(Q, Voter, first) THEN degree[n] - 1 ELSE degree[n]
  BY <1>1, <1>4 DEF Decremented
<1>6. \E P : Realizes(P, Voter, Decremented(first, S))
  BY <1>3, <1>4, <1>5, Residue
<1> QED
  BY <1>6, GraphAsRelation

\* The invariant about what is left and what is refused.
LEMMA RefusalNext ==
  ASSUME Inv, [Next]_vars
  PROVE  ResidueOK' /\ RefusedOK'
<1>1. /\ TypeOK /\ AcceptedOK /\ ResidueOK /\ RefusedOK
      /\ request \in Requests /\ degree \in [Voter -> Int]
  BY DEF Inv, BuiltOK, TypeOK
<1>2. request' = request /\ Voter' = Voter
  BY DEF Next, CheckPreconditions, ConnectFirstNode, CheckPostconditions, CheckConnected,
         AddSupporters, vars, Voter
<1>3. HasGraph(request.degrees)' <=> HasGraph(request.degrees)
  BY <1>2 DEF HasGraph, HasDegrees
<1>4. HasGraph(degree)' <=> HasGraph(degree')
  BY <1>2 DEF HasGraph, HasDegrees
<1>5. ASSUME degree' = degree, pc # "generated"
      PROVE  ResidueOK'
  BY <1>1, <1>3, <1>4, <1>5 DEF ResidueOK
<1>6. ASSUME degree' = degree
      PROVE  /\ OddNumberOfOddDegrees' <=> OddNumberOfOddDegrees
             /\ AnyDegreeBelowZero' <=> AnyDegreeBelowZero
             /\ AnyDegreeAboveZero' <=> AnyDegreeAboveZero
  BY <1>2, <1>6 DEF OddNumberOfOddDegrees, AnyDegreeBelowZero, AnyDegreeAboveZero
<1>7. CASE CheckPreconditions
  <2>1. /\ pc = "check" /\ degree' = degree
        /\ pc' = IF OddNumberOfOddDegrees THEN "invalid-argument" ELSE "connect"
    BY <1>7 DEF CheckPreconditions
  <2> QED
    BY <2>1, <1>5, <1>6 DEF RefusedOK
<1>8. CASE ConnectFirstNode
  <2>1. pc = "connect"
    BY <1>8 DEF ConnectFirstNode
  <2>2. PICK first \in Voter :
          \/ /\ degree[first] >= Cardinality(Voter)
             /\ pc' = "TypeError" /\ degree' = degree
          \/ /\ pc' = pc
             /\ \E S \in MayFollow(first, degree[first]) : degree' = Decremented(first, S)
    BY <1>8 DEF ConnectFirstNode
  <2>3. CASE pc' = "TypeError" /\ degree' = degree /\ degree[first] >= Cardinality(Voter)
    BY <2>1, <2>3, <1>2, <1>5 DEF RefusedOK
  <2>4. CASE pc' = pc /\ \E S \in MayFollow(first, degree[first]) : degree' = Decremented(first, S)
    <3>1. RefusedOK'
      BY <2>1, <2>4 DEF RefusedOK
    <3>2. HasGraph(degree) => HasGraph(degree')
      BY <2>4, <1>1, RoundKeepsGraph
    <3>3. ResidueOK'
      BY <3>2, <2>1, <1>1, <1>3, <1>4 DEF ResidueOK
    <3> QED
      BY <3>1, <3>3
  <2> QED
    BY <2>2, <2>3, <2>4
<1>9. CASE CheckPostconditions
  <2>1. /\ pc = "connect" /\ degree' = degree
        /\ pc' = IF AnyDegreeBelowZero THEN "invalid-argument"
                 ELSE IF request.election THEN "voters" ELSE "generated"
    BY <1>9 DEF CheckPostconditions
  <2> QED
    BY <2>1, <1>5, <1>6 DEF RefusedOK
<1>10. CASE CheckConnected
  <2>1. pc = "voters" /\ degree' = degree /\ pc' \in {"supporters", "not connected"}
    BY <1>10 DEF CheckConnected
  <2> QED
    BY <2>1, <1>5 DEF RefusedOK
<1>11. CASE AddSupporters
  <2>1. pc = "supporters" /\ degree' = degree /\ pc' \in {"generated", "TypeError"}
    BY <1>11 DEF AddSupporters
  <2>2. ~AnyDegreeAboveZero
    BY <2>1, <1>1 DEF AcceptedOK, AnyDegreeAboveZero
  <2> QED
    BY <2>1, <2>2, <1>5, <1>6 DEF RefusedOK
<1>12. CASE UNCHANGED vars
  <2>1. degree' = degree /\ pc' = pc
    BY <1>12 DEF vars
  <2>2. ResidueOK'
    BY <2>1, <1>1, <1>3, <1>4 DEF ResidueOK
  <2>3. RefusedOK'
    BY <2>1, <1>1, <1>2, <1>6 DEF RefusedOK
  <2> QED
    BY <2>2, <2>3
<1> QED
  BY <1>7, <1>8, <1>9, <1>10, <1>11, <1>12 DEF Next

-----------------------------------------------------------------------------
(* The theorems.                                                           *)

\* The invariant of GraphInvariant, for every request.
THEOREM Invariance == Spec => []Inv
<1>1. Init => Inv
  <2> SUFFICES ASSUME Init PROVE Inv
    OBVIOUS
  <2>1. BuiltOK /\ pc = "check" /\ degree = request.degrees
    BY InitInv DEF Init
  <2> QED
    BY <2>1 DEF Inv, ResidueOK, RefusedOK
<1>2. Inv /\ [Next]_vars => Inv'
  BY NextInv, RefusalNext DEF Inv
<1> QED
  BY <1>1, <1>2, PTL DEF Spec

\* The degrees left stay between minus the number of other voters and what was
\* asked for (hakimiGraphGenerator.js:66-73).
THEOREM TypeCorrect == Spec => []TypeOK
<1>1. Inv => TypeOK
  BY DEF Inv, BuiltOK
<1> QED
  BY <1>1, Invariance, PTL

\* A graph that HakimiGraphGenerator.generate() returns has no loop and no
\* double edge, and each voter has the degree asked for.
THEOREM DegreesAsAskedHolds == Spec => []DegreesAsAsked
<1>1. Inv => DegreesAsAsked
  <2> SUFFICES ASSUME Inv PROVE DegreesAsAsked
    OBVIOUS
  <2>1. TypeOK /\ PlainOK /\ RoundsOK /\ AcceptedOK /\ GeneratedOK
    BY DEF Inv, BuiltOK
  <2>2. CASE pc = "generated"
    BY <2>1, <2>2 DEF GeneratedOK
  <2>3. CASE pc \in {"voters", "supporters"}
    <3>1. /\ \A m, n \in All : edges[m][n] = edges[n][m] /\ edges[m][n] <= 1
          /\ \A n \in Voter : /\ n \notin Friends(n)
                              /\ Cardinality(Friends(n)) = request.degrees[n]
      BY <2>1, <2>3, FriendsAsAsked DEF AcceptedOK
    <3>2. Voter \subseteq All
      BY DEF All
    <3> QED
      BY <3>1, <3>2 DEF DegreesAsAsked, Friends
  <2> QED
    BY <2>2, <2>3 DEF DegreesAsAsked
<1> QED
  BY <1>1, Invariance, PTL

\* The generator refuses only degrees that no graph has, whichever of several
\* elements of equal degree sort() puts first (hakimiGraphGenerator.js:34-97).
THEOREM RefusedHasNoGraphHolds == Spec => []RefusedHasNoGraph
<1>1. Inv => RefusedHasNoGraph
  <2> SUFFICES ASSUME Inv, HasGraph(request.degrees)
               PROVE  pc # "invalid-argument" /\ ~(pc = "TypeError" /\ AnyDegreeAboveZero)
    BY DEF RefusedHasNoGraph
  <2>1. request \in Requests /\ degree \in [Voter -> Int] /\ ResidueOK /\ RefusedOK
    BY DEF Inv, BuiltOK, TypeOK
  <2>2. CASE pc \in {"invalid-argument", "TypeError"}
    <3>1. HasGraph(degree)
      BY <2>1, <2>2 DEF ResidueOK
    <3>2. /\ ~OddNumberOfOddDegrees
          /\ \A n \in Voter : degree[n] >= 0 /\ degree[n] < Cardinality(Voter)
      BY <2>1, <3>1, DegreesOfGraph
    <3>3. Cardinality(Voter) \in Nat /\ \A n \in Voter : degree[n] \in Int
      BY <2>1, VoterFacts
    <3> QED
      BY <2>1, <3>2, <3>3 DEF RefusedOK, AnyDegreeBelowZero
  <2> QED
    BY <2>2
<1> QED
  BY <1>1, Invariance, PTL

-----------------------------------------------------------------------------
(* What the campaigns need.                                                *)

\* Of consecutive nodes that support two candidates in turn, each candidate
\* gets every other one.
LEMMA EveryOther ==
  ASSUME NEW first \in Nat, NEW s \in Nat, NEW c \in Candidate
  PROVE  Cardinality({n \in first..(first + 2 * s - 1) : c = ((n - first) % 2) + 1}) = s
<1> DEFINE T == {n \in first..(first + 2 * s - 1) : c = ((n - first) % 2) + 1}
           f == [j \in 1..s |-> first + 2 * (j - 1) + (c - 1)]
<1>1. c \in {1, 2}
  BY DEF Candidate
<1>2. \A k \in Int : \A x \in {0, 1} : (2 * k + x) % 2 = x
  OBVIOUS
<1>3. \A d \in Int : d = 2 * (d \div 2) + (d % 2) /\ d \div 2 \in Int /\ d % 2 \in {0, 1}
  OBVIOUS
<1>4. ASSUME NEW j \in 1..s PROVE f[j] \in T
  <2>1. j - 1 \in Int /\ c - 1 \in {0, 1}
    BY <1>1
  <2>2. (2 * (j - 1) + (c - 1)) % 2 = c - 1
    BY <1>2, <2>1
  <2>3. f[j] - first = 2 * (j - 1) + (c - 1) /\ f[j] \in first..(first + 2 * s - 1)
    BY <1>1
  <2> QED
    BY <2>2, <2>3, <1>1
<1>5. ASSUME NEW i \in 1..s, NEW j \in 1..s, f[i] = f[j] PROVE i = j
  BY <1>1, <1>5
<1>6. ASSUME NEW n \in T PROVE \E j \in 1..s : f[j] = n
  <2> DEFINE q == (n - first) \div 2
  <2>1. n - first \in Int /\ n - first >= 0 /\ n - first <= 2 * s - 1 /\ (n - first) % 2 = c - 1
    BY <1>1, <1>3
  <2>2. n - first = 2 * q + (c - 1) /\ q \in Int
    BY <1>3, <2>1
  <2> HIDE DEF q
  <2>3. q + 1 \in 1..s
    BY <1>1, <2>1, <2>2
  <2>4. f[q + 1] = n
    BY <1>1, <2>2, <2>3
  <2> QED
    BY <2>3, <2>4
<1>7. f \in [1..s -> T]
  BY <1>4
<1> HIDE DEF f, T
<1>8. f \in Bijection(1..s, T)
  BY <1>5, <1>6, <1>7 DEF Bijection, Injection, Surjection, IsInjective
<1>9. Cardinality(T) = s
  BY <1>8, FS_CountingElements DEF ExistsBijection
<1> QED
  BY <1>9 DEF T

\* Both candidates have a supporter.
LEMMA EachHasSupporter ==
  ASSUME NEW first \in Nat, request.supporters \in Nat, request.supporters > 0,
         NEW c \in Candidate
  PROVE  Supports(first + c - 1, c, first)
<1>1. PICK s \in Nat : s = request.supporters /\ s > 0
  OBVIOUS
<1>2. CASE c = 1
  BY <1>1, <1>2 DEF Supports
<1>3. CASE c = 2
  BY <1>1, <1>3 DEF Supports
<1> QED
  BY <1>2, <1>3 DEF Candidate

\* An election's graph is connected with its candidates, and each candidate
\* has the supporters asked for, none of whom supports the other
\* (electionGraph.js:36-59).
THEOREM NetworkSuitsElectionHolds == Spec => []NetworkSuitsElection
<1>1. Inv => NetworkSuitsElection
  <2> SUFFICES ASSUME Inv, pc = "generated", request.election, request.supporters > 0
               PROVE  /\ Connected(All)
                      /\ \A c \in Candidate :
                           Cardinality({n \in Voter : edges[c][n] = 1}) = request.supporters
                      /\ \A n \in Voter : Cardinality({c \in Candidate : edges[c][n] > 0}) <= 1
                      /\ \A c, d \in Candidate : edges[c][d] = 0
    BY DEF NetworkSuitsElection
  <2>1. /\ request \in Requests
        /\ \A m, n \in All : edges[m][n] = edges[n][m]
        /\ Connected(Voter)
        /\ \A c, d \in Candidate : edges[c][d] = 0
    BY DEF Inv, BuiltOK, TypeOK, GeneratedOK
  <2>2. PICK first \in 3..(Cardinality(Voter) + 3) :
          /\ first + 2 * request.supporters - 1 <= Cardinality(Voter) + 2
          /\ \A c \in Candidate, n \in Voter :
               edges[c][n] = IF Supports(n, c, first) THEN 1 ELSE 0
    BY DEF Inv, BuiltOK, GeneratedOK
  <2>3. PICK v \in Nat, s \in Nat : v = Cardinality(Voter) /\ s = request.supporters /\ s > 0
    BY <2>1, VoterFacts
  <2>4. /\ Voter = 3..(v + 2) /\ first \in 3..(v + 3) /\ first \in Nat
        /\ first + 2 * s - 1 <= v + 2 /\ request.supporters \in Nat
        /\ Voter \subseteq All /\ Candidate \subseteq All
        /\ \A n \in All : n \in Voter \/ n \in Candidate
    BY <2>1, <2>2, <2>3, VoterFacts
  <2>5. ASSUME NEW c \in Candidate
        PROVE  /\ first + c - 1 \in Voter
               /\ edges[c][first + c - 1] > 0 /\ edges[first + c - 1][c] > 0
    <3>1. Supports(first + c - 1, c, first)
      BY <2>3, <2>4, EachHasSupporter
    <3>2. first + c - 1 \in 3..(v + 2)
      <4>1. c \in {1, 2}
        BY DEF Candidate
      <4> QED
        BY <4>1, <2>3, <2>4
    <3>3. edges[c][first + c - 1] = 1
      BY <2>2, <2>4, <3>1, <3>2
    <3>4. edges[first + c - 1][c] = 1
      BY <2>1, <2>4, <3>2, <3>3
    <3> QED
      BY <2>4, <3>2, <3>3, <3>4
  <2>6. Connected(All)
    <3>1. All # {}
      BY DEF All, Candidate
    <3>2. ASSUME NEW S \in (SUBSET All) \ {{}, All}
          PROVE  \E m \in S, n \in All \ S : edges[m][n] > 0
      <4> DEFINE T == S \cap Voter
      <4>1. CASE T = {}
        <5>1. PICK c \in S : c \in Candidate
          BY <2>4, <4>1
        <5>2. first + c - 1 \in All \ S
          BY <2>4, <2>5, <4>1, <5>1
        <5> QED
          BY <2>5, <5>1, <5>2
      <4>2. CASE T = Voter
        <5>1. PICK c \in All \ S : c \in Candidate
          BY <2>4, <4>2
        <5>2. first + c - 1 \in S
          BY <2>5, <4>2, <5>1
        <5> QED
          BY <2>5, <5>1, <5>2
      <4>3. CASE T # {} /\ T # Voter
        <5>1. T \in (SUBSET Voter) \ {{}, Voter}
          BY <4>3
        <5>2. PICK m \in T, n \in Voter \ T : edges[m][n] > 0
          BY <2>1, <5>1 DEF Connected
        <5> QED
          BY <2>4, <5>2
      <4> QED
        BY <4>1, <4>2, <4>3
    <3> QED
      BY <3>1, <3>2 DEF Connected
  <2>7. ASSUME NEW c \in Candidate
        PROVE  Cardinality({n \in Voter : edges[c][n] = 1}) = request.supporters
    <3>1. {n \in Voter : edges[c][n] = 1} = {n \in Voter : Supports(n, c, first)}
      BY <2>2
    <3>2. first..(first + 2 * s - 1) \subseteq Voter
      BY <2>4
    <3>3. {n \in Voter : Supports(n, c, first)}
            = {n \in first..(first + 2 * s - 1) : c = ((n - first) % 2) + 1}
      BY <2>3, <3>2 DEF Supports
    <3>4. Cardinality({n \in first..(first + 2 * s - 1) : c = ((n - first) % 2) + 1}) = s
      BY <2>4, EveryOther
    <3> QED
      BY <2>3, <3>1, <3>3, <3>4
  <2>8. ASSUME NEW n \in Voter
        PROVE  Cardinality({c \in Candidate : edges[c][n] > 0}) <= 1
    <3> DEFINE D == {c \in Candidate : edges[c][n] > 0}
               c0 == ((n - first) % 2) + 1
    <3>1. D \subseteq {c0}
      BY <2>2 DEF Supports
    <3> HIDE DEF D, c0
    <3>2. IsFiniteSet({c0}) /\ Cardinality({c0}) = 1
      BY FS_Singleton
    <3>3. Cardinality(D) <= 1
      BY <3>1, <3>2, FS_Subset
    <3> QED
      BY <3>3 DEF D
  <2> QED
    BY <2>1, <2>6, <2>7, <2>8
<1> QED
  BY <1>1, Invariance, PTL

-----------------------------------------------------------------------------
(* The addresses.                                                          *)

\* The smallest and the largest number of an interval.
LEMMA IntervalEnds ==
  ASSUME NEW lo \in Nat, NEW hi \in Nat, lo <= hi
  PROVE  Min(lo..hi) = lo /\ Max(lo..hi) = hi
<1>1. lo \in lo..hi /\ (\A y \in lo..hi : lo <= y) /\ hi \in lo..hi /\ (\A y \in lo..hi : hi >= y)
  OBVIOUS
<1>2. /\ Min(lo..hi) \in lo..hi /\ \A y \in lo..hi : Min(lo..hi) <= y
  BY <1>1 DEF Min
<1>3. /\ Max(lo..hi) \in lo..hi /\ \A y \in lo..hi : Max(lo..hi) >= y
  BY <1>1 DEF Max
<1> QED
  BY <1>1, <1>2, <1>3

\* The endpoints when the ids in the file have no gap.
LEMMA EndpointFacts ==
  ASSUME NEW file, NEW lo \in Nat, NEW hi \in Nat, 1 <= lo, lo <= hi,
         ParsedNodes(file) = lo..hi
  PROVE  /\ {e.id : e \in MyNeighbors(file, 0)} = lo..hi
         /\ \A n \in lo..hi : {e.id : e \in MyNeighbors(file, n)} = ParsedNeighbors(file, n)
         /\ \A p \in Nat \ {0} :
              {e.id : e \in {x \in LocalEndpoints(file) : x.port = 4000 + p}}
                = {i \in lo..hi : i - lo + 1 = p}
         /\ \A n \in Nat \ {0} : CanStart(file, n) <=> n \in lo..hi
<1> DEFINE e(i) == [id |-> i, port |-> 4001 + i - lo]
           E == {e(i) : i \in lo..hi}
<1>1. LocalEndpoints(file) = {OBSERVER_ENDPOINT} \cup E
  BY IntervalEnds DEF LocalEndpoints, NodeWithSmallestId, NodeWithBiggestId, MIN_PORT
<1>2. OBSERVER_ENDPOINT.id = 0 /\ OBSERVER_ENDPOINT.port = 4000
  BY DEF OBSERVER_ENDPOINT
<1>3. \A i \in lo..hi : e(i).id = i /\ e(i).port = 4001 + i - lo /\ e(i) \in E
  OBVIOUS
<1>4. \A x \in E : x.id \in lo..hi /\ x = e(x.id)
  OBVIOUS
<1> HIDE DEF e, E
<1>5. \A x \in E : x.id \in lo..hi /\ x.port = 4001 + x.id - lo /\ x # OBSERVER_ENDPOINT
  BY <1>2, <1>3, <1>4
<1>6. {x.id : x \in MyNeighbors(file, 0)} = lo..hi
  <2>1. MyNeighbors(file, 0) = E
    BY <1>1, <1>2, <1>5 DEF MyNeighbors
  <2> QED
    BY <2>1, <1>3, <1>5
<1>7. ASSUME NEW n \in lo..hi
      PROVE  {x.id : x \in MyNeighbors(file, n)} = ParsedNeighbors(file, n)
  <2>1. ParsedNeighbors(file, n) \subseteq lo..hi
    BY DEF ParsedNeighbors
  <2>2. MyNeighbors(file, n) = {x \in {OBSERVER_ENDPOINT} \cup E : x.id \in ParsedNeighbors(file, n)}
    BY <1>1, <1>2 DEF MyNeighbors
  <2>3. MyNeighbors(file, n) = {x \in E : x.id \in ParsedNeighbors(file, n)}
    BY <2>1, <2>2, <1>2
  <2> QED
    BY <2>1, <2>3, <1>3
<1>8. ASSUME NEW p \in Nat \ {0}
      PROVE  {x.id : x \in {y \in LocalEndpoints(file) : y.port = 4000 + p}}
               = {i \in lo..hi : i - lo + 1 = p}
  <2>1. {y \in LocalEndpoints(file) : y.port = 4000 + p} = {y \in E : y.port = 4000 + p}
    BY <1>1, <1>2
  <2>2. ASSUME NEW i \in lo..hi PROVE 4001 + i - lo = 4000 + p <=> i - lo + 1 = p
    OBVIOUS
  <2>3. ASSUME NEW x \in E, x.port = 4000 + p
        PROVE  x.id \in {i \in lo..hi : i - lo + 1 = p}
    BY <2>2, <2>3, <1>5
  <2>4. ASSUME NEW i \in lo..hi, i - lo + 1 = p
        PROVE  \E x \in E : x.port = 4000 + p /\ x.id = i
    BY <2>2, <2>4, <1>3
  <2>5. {x.id : x \in {y \in E : y.port = 4000 + p}} = {i \in lo..hi : i - lo + 1 = p}
    BY <2>3, <2>4
  <2> QED
    BY <2>1, <2>5
<1>9. \A n \in Nat \ {0} : CanStart(file, n) <=> n \in lo..hi
  BY <1>2 DEF CanStart
<1> QED
  BY <1>6, <1>7, <1>8, <1>9

\* Which nodes get into the file: the candidates only with supporters.
LEMMA NodesInFile ==
  ASSUME Inv, pc = "generated", request.election
  PROVE  /\ Cardinality(Voter) \in Nat \ {0}
         /\ ParsedNodes(edges) = (IF request.supporters > 0 THEN 1 ELSE 3)..(Cardinality(Voter) + 2)
         /\ \A m, n \in All : edges[n][m] > 0 <=> edges[n][m] = 1
<1>1. /\ request \in Requests /\ DOMAIN edges = All
      /\ \A m, n \in All : edges[m][n] \in Nat /\ edges[m][n] = edges[n][m]
      /\ \A n \in Voter : /\ \A m \in All : edges[n][m] <= 1
                          /\ Cardinality(Friends(n)) = request.degrees[n]
                          /\ request.degrees[n] > 0
      /\ Voter # {}
      /\ \A c, d \in Candidate : edges[c][d] = 0
  BY DEF Inv, BuiltOK, TypeOK, GeneratedOK, DegreesAsAsked, Friends, Connected
<1>2. PICK first \in 3..(Cardinality(Voter) + 3) :
        /\ first + 2 * request.supporters - 1 <= Cardinality(Voter) + 2
        /\ \A c \in Candidate, n \in Voter :
             edges[c][n] = IF Supports(n, c, first) THEN 1 ELSE 0
  BY DEF Inv, BuiltOK, GeneratedOK
<1>3. PICK v \in Nat, s \in Nat : v = Cardinality(Voter) /\ s = request.supporters
  BY <1>1, VoterFacts
<1>4. /\ Voter = 3..(v + 2) /\ All = 1..(v + 2) /\ first \in 3..(v + 3) /\ first \in Nat
      /\ first + 2 * s - 1 <= v + 2
      /\ Voter \subseteq All /\ Candidate \subseteq All
      /\ \A n \in All : n \in Voter \/ n \in Candidate
  BY <1>1, <1>2, <1>3, VoterFacts
<1>5. v > 0
  BY <1>1, <1>4
<1>6. \A n \in Voter : n \in ParsedNodes(edges)
  <2> TAKE n \in Voter
  <2>1. Friends(n) # {}
    <3>1. Cardinality(Friends(n)) # 0
      <4>1. Cardinality(Friends(n)) = request.degrees[n] /\ request.degrees[n] > 0
        BY <1>1
      <4> QED
        BY <4>1
    <3> QED
      BY <3>1, FS_EmptySet
  <2>2. PICK m \in Voter : edges[n][m] > 0
    BY <2>1 DEF Friends
  <2> QED
    BY <2>2, <1>1, <1>4 DEF ParsedNodes
<1>7. ASSUME s > 0, NEW c \in Candidate PROVE c \in ParsedNodes(edges)
  <2>1. Supports(first + c - 1, c, first)
    BY <1>3, <1>4, <1>7, EachHasSupporter
  <2>2. first + c - 1 \in 3..(v + 2)
    <3>1. c \in {1, 2}
      BY DEF Candidate
    <3> QED
      BY <3>1, <1>3, <1>4, <1>7
  <2>3. edges[c][first + c - 1] = 1
    BY <2>1, <2>2, <1>2, <1>4
  <2>4. c \in All /\ first + c - 1 \in All
    BY <2>2, <1>4
  <2>5. edges[first + c - 1][c] = 1
    BY <2>3, <2>4, <1>1
  <2>6. edges[first + c - 1][c] > 0
    BY <2>5
  <2> QED
    BY <2>4, <2>6, <1>1 DEF ParsedNodes
<1>8. ASSUME s = 0, NEW c \in Candidate PROVE c \notin ParsedNodes(edges)
  <2>1. \A n \in Voter : ~Supports(n, c, first)
    BY <1>3, <1>4, <1>8 DEF Supports
  <2>2. \A m \in All : edges[m][c] = 0
    BY <2>1, <1>1, <1>2, <1>4
  <2> QED
    BY <2>2, <1>1 DEF ParsedNodes
<1>9. ParsedNodes(edges) \subseteq All
  BY <1>1 DEF ParsedNodes
<1>10. ParsedNodes(edges) = (IF s > 0 THEN 1 ELSE 3)..(v + 2)
  <2>1. CASE s > 0
    <3>1. ParsedNodes(edges) = All
      BY <2>1, <1>4, <1>6, <1>7, <1>9
    <3> QED
      BY <3>1, <2>1, <1>4
  <2>2. CASE s = 0
    <3>1. ParsedNodes(edges) = Voter
      BY <2>2, <1>4, <1>6, <1>8, <1>9
    <3> QED
      BY <3>1, <2>2, <1>4
  <2> QED
    BY <2>1, <2>2
<1>11. ASSUME NEW m \in All, NEW n \in All PROVE edges[n][m] > 0 <=> edges[n][m] = 1
  BY <1>1, <1>4
<1>12. \A m, n \in All : edges[n][m] > 0 <=> edges[n][m] = 1
  BY <1>11
<1>13. Cardinality(Voter) \in Nat \ {0}
  BY <1>3, <1>5
<1> QED
  BY <1>3, <1>10, <1>12, <1>13

\* The observer's and the nodes' endpoints fit the processes that can start,
\* and run-election.js:58 and 73 name the candidates' addresses exactly when
\* there are supporters.
THEOREM AddressesFitHolds == Spec => []AddressesFit
<1>1. Inv => AddressesFit
  <2> SUFFICES ASSUME Inv, pc = "generated", request.election PROVE AddressesFit
    BY DEF AddressesFit
  <2>1. request \in Requests
    BY DEF Inv, BuiltOK, TypeOK
  <2>2. PICK v \in Nat, s \in Nat : v = Cardinality(Voter) /\ s = request.supporters
    BY <2>1, VoterFacts
  <2>3. PICK lo \in Nat : lo = IF s > 0 THEN 1 ELSE 3
    OBVIOUS
  <2>4. PICK hi \in Nat : hi = v + 2
    OBVIOUS
  <2>5. /\ v > 0 /\ ParsedNodes(edges) = lo..hi /\ 1 <= lo /\ lo <= hi
        /\ \A m, n \in All : edges[n][m] > 0 <=> edges[n][m] = 1
    BY <2>2, <2>3, <2>4, NodesInFile
  <2>6. /\ Voter = 3..hi /\ All = 1..hi /\ \A n \in All : n \in Nat \ {0}
        /\ lo..hi \subseteq All
    BY <2>1, <2>2, <2>4, <2>5, VoterFacts
  <2>7. /\ {e.id : e \in MyNeighbors(edges, 0)} = lo..hi
        /\ \A n \in lo..hi : {e.id : e \in MyNeighbors(edges, n)} = ParsedNeighbors(edges, n)
        /\ \A p \in Nat \ {0} :
             {e.id : e \in {x \in LocalEndpoints(edges) : x.port = 4000 + p}}
               = {i \in lo..hi : i - lo + 1 = p}
        /\ \A n \in Nat \ {0} : CanStart(edges, n) <=> n \in lo..hi
    BY <2>5, EndpointFacts
  <2>8. {e.id : e \in MyNeighbors(edges, 0)} = {n \in All : CanStart(edges, n)}
    BY <2>6, <2>7
  <2>9. ASSUME NEW n \in All, CanStart(edges, n)
        PROVE  {e.id : e \in MyNeighbors(edges, n)} = {m \in All : edges[n][m] = 1}
    <3>1. n \in lo..hi
      BY <2>6, <2>7, <2>9
    <3>2. DOMAIN edges = All /\ \A m \in All : edges[m][n] = edges[n][m]
      BY DEF Inv, BuiltOK, TypeOK, GeneratedOK
    <3>3. \A m \in All : edges[n][m] > 0 => m \in lo..hi
      BY <3>2, <2>5 DEF ParsedNodes
    <3> QED
      BY <3>1, <3>3, <2>5, <2>6, <2>7, SMTT(30) DEF ParsedNeighbors
  <2>10. IF request.supporters > 0
         THEN \A c \in Candidate : CanStart(edges, c) /\ {i \in lo..hi : i - lo + 1 = c} = {c}
         ELSE \A c \in Candidate : ~CanStart(edges, c) /\ {i \in lo..hi : i - lo + 1 = c} \subseteq Voter
    <3>1. \A c \in Candidate : c \in {1, 2}
      BY DEF Candidate
    <3>2. CASE s > 0
      BY <3>1, <3>2, <2>2, <2>3, <2>4, <2>5, <2>7
    <3>3. CASE ~(s > 0)
      BY <3>1, <3>3, <2>2, <2>3, <2>4, <2>5, <2>6, <2>7
    <3> QED
      BY <3>2, <3>3
  <2> DEFINE at(port)  == {e.id : e \in {x \in LocalEndpoints(edges) : x.port = port}}
             ids(c)    == {i \in lo..hi : i - lo + 1 = c}
  <2>11. \A c \in Candidate : at(4000 + c) = ids(c)
    BY <2>7 DEF Candidate
  <2>12. IF request.supporters > 0
         THEN \A c \in Candidate : CanStart(edges, c) /\ ids(c) = {c}
         ELSE \A c \in Candidate : ~CanStart(edges, c) /\ ids(c) \subseteq Voter
    BY <2>10
  <2> HIDE DEF at, ids
  <2>13. IF request.supporters > 0
         THEN \A c \in Candidate : CanStart(edges, c) /\ at(4000 + c) = {c}
         ELSE \A c \in Candidate : ~CanStart(edges, c) /\ at(4000 + c) \subseteq Voter
    BY <2>11, <2>12
  <2> QED
    BY <2>8, <2>9, <2>13, Zenon DEF AddressesFit, at
<1> QED
  BY <1>1, Invariance, PTL
=============================================================================
