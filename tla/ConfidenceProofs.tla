-------------------------- MODULE ConfidenceProofs --------------------------
(***************************************************************************)
(* Proofs about the levels of a voter (Confidence), for every Point and    *)
(* Full.                                                                   *)
(***************************************************************************)
EXTENDS Confidence, TLAPS

LEMMA Competitors ==
  /\ Competitor(1) = 2 /\ Competitor(2) = 1
  /\ \A c \in Candidate : Competitor(c) \in Candidate /\ Competitor(c) # c /\ Competitor(Competitor(c)) = c
BY DEF Competitor, Candidate

LEMMA OpinionFacts ==
  ASSUME NEW o \in Opinion, NEW c \in Candidate
  PROVE  o[c] \in Int /\ o[c] >= 0 /\ o[c] <= Full
BY LevelAssumption DEF Opinion, Level

\* What _increaseLevelBy() returns is a level (confidenceLevel.js:70-80).
LEMMA IncreasedByIsLevel ==
  ASSUME NEW l \in Level, NEW amount \in Int
  PROVE  IncreasedBy(l, amount) \in Level
BY LevelAssumption DEF IncreasedBy, Level

\* A tenth of a level above zero is above zero, and that of zero is zero.
LEMMA TenthFacts ==
  ASSUME NEW l \in Nat
  PROVE  Tenth(l) \in Nat /\ (l = 0 => Tenth(l) = 0) /\ (l > 0 => Tenth(l) > 0)
BY DEF Tenth

\* A choose-me rumor raises the level of its candidate unless that is zero or
\* full, and leaves the other one alone (confidenceLevel.js:23-26).
LEMMA ChooseMeFacts ==
  ASSUME NEW o \in Opinion, NEW c \in Candidate
  PROVE  /\ OnChooseMe(o, c) \in Opinion
         /\ OnChooseMe(o, c)[Competitor(c)] = o[Competitor(c)]
         /\ OnChooseMe(o, c)[c] >= o[c]
         /\ o[c] = 0 => OnChooseMe(o, c)[c] = 0
         /\ o[c] = Full => OnChooseMe(o, c)[c] = Full
         /\ o[c] \in 1..(Full - 1) => OnChooseMe(o, c)[c] > o[c]
<1>1. o[c] \in Level /\ o[c] \in Nat
  BY LevelAssumption DEF Opinion, Level
<1> DEFINE l == o[c]
           m == IncreasedBy(l, Tenth(l))
<1>2. Tenth(l) \in Nat /\ (l = 0 => Tenth(l) = 0) /\ (l > 0 => Tenth(l) > 0)
  BY <1>1, TenthFacts
<1>3. m \in Level
  BY <1>1, <1>2, IncreasedByIsLevel
<1>4. m >= l /\ (l = 0 => m = 0) /\ (l = Full => m = Full) /\ (l \in 1..(Full - 1) => m > l)
  BY <1>1, <1>2, LevelAssumption DEF IncreasedBy, Level
<1> HIDE DEF m
<1>5. OnChooseMe(o, c) = [o EXCEPT ![c] = m]
  BY DEF OnChooseMe, m
<1>6. o \in [Candidate -> Level]
  BY DEF Opinion
<1>7. Competitor(c) \in Candidate /\ Competitor(c) # c
  BY Competitors
<1> QED
  BY <1>3, <1>4, <1>5, <1>6, <1>7 DEF Opinion

\* A point for the one and from the other.
LEMMA PointFacts ==
  ASSUME NEW o \in Opinion, NEW c \in Candidate
  PROVE  /\ PointGoesTo(o, c) \in Opinion
         /\ PointGoesTo(o, c)[c] >= o[c]
         /\ o[c] = Full => PointGoesTo(o, c)[c] = Full
         /\ PointGoesTo(o, c)[Competitor(c)] <= o[Competitor(c)]
         /\ o[Competitor(c)] = 0 => PointGoesTo(o, c)[Competitor(c)] = 0
<1> DEFINE d == Competitor(c)
           m == IncreasedBy(o[c], Point)
           k == IncreasedBy(o[d], -Point)
<1>1. d \in Candidate /\ d # c
  BY Competitors
<1>2. o[c] \in Level /\ o[d] \in Level /\ o \in [Candidate -> Level]
  BY <1>1 DEF Opinion
<1>3. m \in Level /\ k \in Level
  BY <1>2, LevelAssumption, IncreasedByIsLevel
<1>4. m >= o[c] /\ (o[c] = Full => m = Full) /\ k <= o[d] /\ (o[d] = 0 => k = 0)
  BY <1>2, LevelAssumption DEF IncreasedBy, Level
<1> HIDE DEF m, k, d
<1>5. PointGoesTo(o, c) = [o EXCEPT ![c] = m, ![d] = k]
  <2>1. [o EXCEPT ![c] = m][d] = o[d]
    BY <1>1, <1>2
  <2> QED
    BY <2>1 DEF PointGoesTo, m, k, d
<1>6. PointGoesTo(o, c)[c] = m /\ PointGoesTo(o, c)[d] = k /\ PointGoesTo(o, c) \in [Candidate -> Level]
  BY <1>1, <1>2, <1>3, <1>5
<1> QED
  BY <1>4, <1>6 DEF Opinion, d

\* A campaign, whoever sends it, strengthens whom the voter prefers and
\* changes nothing when it prefers neither (confidenceLevel.js:28-39).
THEOREM CampaignKeepsFavorite ==
  ASSUME NEW o \in Opinion, NEW c \in Candidate, NEW d \in Candidate
  PROVE  /\ OnCampaign(o, c) \in Opinion
         /\ IsFavorite(OnCampaign(o, c), d) <=> IsFavorite(o, d)
         /\ o[d] = 0 => OnCampaign(o, c)[d] = 0
         /\ o[d] = Full /\ o[Competitor(d)] = 0 => OnCampaign(o, c) = o
<1> DEFINE e == Competitor(c)
<1>1. e \in Candidate /\ e # c /\ Competitor(e) = c /\ (d = c \/ d = e)
  BY Competitors DEF Candidate
<1>2. o \in [Candidate -> Level] /\ o[c] \in Int /\ o[e] \in Int /\ o[c] >= 0 /\ o[e] >= 0 /\ o[c] <= Full /\ o[e] <= Full
  BY <1>1, OpinionFacts DEF Opinion
<1>3. CASE IsFavorite(o, c)
  <2>1. o[c] > o[e]
    BY <1>3 DEF IsFavorite
  <2>2. OnCampaign(o, c) = PointGoesTo(o, c)
    BY <1>3 DEF OnCampaign
  <2> DEFINE p == PointGoesTo(o, c)
  <2>3. p \in Opinion /\ p[c] >= o[c] /\ (o[c] = Full => p[c] = Full) /\ p[e] <= o[e] /\ (o[e] = 0 => p[e] = 0)
    BY PointFacts
  <2>4. p[c] \in Int /\ p[e] \in Int
    BY <2>3, <1>1, OpinionFacts
  <2> HIDE DEF p
  <2>5. p[c] > p[e]
    BY <2>1, <2>3, <2>4, <1>2
  <2>6. o[c] = Full /\ o[e] = 0 => p = o
    BY <2>3, <1>1, <1>2 DEF Opinion, Candidate
  <2>7. ~IsFavorite(o, e) /\ ~IsFavorite(p, e) /\ IsFavorite(p, c)
    BY <2>1, <2>4, <2>5, <1>1, <1>2 DEF IsFavorite
  <2> QED
    BY <2>1, <2>2, <2>3, <2>4, <2>6, <2>7, <1>1, <1>2, <1>3 DEF p
<1>4. CASE IsFavorite(o, e)
  <2>1. o[e] > o[c]
    BY <1>1, <1>4 DEF IsFavorite
  <2>2. ~IsFavorite(o, c)
    BY <2>1, <1>2 DEF IsFavorite
  <2>3. OnCampaign(o, c) = PointGoesTo(o, e)
    BY <2>2, <1>4 DEF OnCampaign
  <2> DEFINE p == PointGoesTo(o, e)
  <2>4. p \in Opinion /\ p[e] >= o[e] /\ (o[e] = Full => p[e] = Full) /\ p[c] <= o[c] /\ (o[c] = 0 => p[c] = 0)
    BY <1>1, PointFacts
  <2>5. p[c] \in Int /\ p[e] \in Int
    BY <2>4, <1>1, OpinionFacts
  <2> HIDE DEF p
  <2>6. p[e] > p[c]
    BY <2>1, <2>4, <2>5, <1>2
  <2>7. o[e] = Full /\ o[c] = 0 => p = o
    BY <2>4, <1>1, <1>2 DEF Opinion, Candidate
  <2>8. ~IsFavorite(p, c) /\ IsFavorite(p, e)
    BY <2>5, <2>6, <1>1 DEF IsFavorite
  <2> QED
    BY <2>1, <2>2, <2>3, <2>4, <2>5, <2>7, <2>8, <1>1, <1>2, <1>4 DEF p
<1>5. CASE ~IsFavorite(o, c) /\ ~IsFavorite(o, e)
  <2>1. OnCampaign(o, c) = o
    BY <1>5 DEF OnCampaign
  <2> QED
    BY <2>1
<1> QED
  BY <1>3, <1>4, <1>5

\* A choose-me rumor can only win a voter for its candidate, and a level of
\* zero stays.
THEOREM ChooseMeKeepsFavorite ==
  ASSUME NEW o \in Opinion, NEW c \in Candidate, NEW d \in Candidate
  PROVE  /\ OnChooseMe(o, c) \in Opinion
         /\ o[d] = 0 => OnChooseMe(o, c)[d] = 0
         /\ IsFavorite(o, c) => IsFavorite(OnChooseMe(o, c), c)
         /\ o[d] = Full /\ o[Competitor(d)] = 0 => OnChooseMe(o, c) = o
<1> DEFINE e == Competitor(c)
           p == OnChooseMe(o, c)
<1>1. e \in Candidate /\ e # c /\ Competitor(e) = c /\ (d = c \/ d = e)
  BY Competitors DEF Candidate
<1>2. o \in [Candidate -> Level] /\ o[c] \in Int /\ o[e] \in Int
  BY <1>1, OpinionFacts DEF Opinion
<1>3. p \in Opinion /\ p[e] = o[e] /\ p[c] >= o[c] /\ (o[c] = 0 => p[c] = 0) /\ (o[c] = Full => p[c] = Full)
  BY ChooseMeFacts
<1>4. p[c] \in Int
  BY <1>3, OpinionFacts
<1> HIDE DEF p
<1>5. IsFavorite(o, c) => IsFavorite(p, c)
  BY <1>2, <1>3, <1>4 DEF IsFavorite
<1>6. p[c] = o[c] => p = o
  BY <1>1, <1>2, <1>3 DEF Opinion, Candidate
<1> QED
  BY <1>1, <1>2, <1>3, <1>5, <1>6 DEF p

\* A supporter's opinion is never changed: 100 and 0 are fixed points of
\* both updates, whoever sends them (confidenceLevel.js:41-45).
THEOREM SupportersNeverWaver ==
  ASSUME NEW c \in Candidate, NEW d \in Candidate
  PROVE  /\ SupporterOpinion(c) \in Opinion
         /\ OnCampaign(SupporterOpinion(c), d) = SupporterOpinion(c)
         /\ OnChooseMe(SupporterOpinion(c), d) = SupporterOpinion(c)
<1> DEFINE o == SupporterOpinion(c)
<1>1. o \in Opinion
  BY LevelAssumption DEF SupporterOpinion, Opinion, Level
<1>2. o[c] = Full /\ o[Competitor(c)] = 0
  BY Competitors DEF SupporterOpinion
<1> HIDE DEF o
<1>3. OnCampaign(o, d) = o
  BY <1>1, <1>2, CampaignKeepsFavorite
<1>4. OnChooseMe(o, d) = o
  BY <1>1, <1>2, ChooseMeKeepsFavorite
<1> QED
  BY <1>1, <1>3, <1>4 DEF o
=============================================================================
