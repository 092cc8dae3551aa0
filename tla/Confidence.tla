----------------------------- MODULE Confidence -----------------------------
(***************************************************************************)
(* What a voter thinks of the two candidates (election/confidenceLevel.js, *)
(* candidateIdsManager.js): a level between 0 and 100 for each of them,    *)
(* changed by campaigns and choose-me rumors.                              *)
(*                                                                         *)
(* The program's levels are floating-point numbers.  Here a level is a     *)
(* multiple of 1/Point, and the tenth of a level is rounded up to the next *)
(* multiple: a level above zero always grows, as it does in the program.   *)
(***************************************************************************)
EXTENDS Integers

CONSTANTS Point,  \* the difference of 1 between two levels
          Full    \* the level 100

ASSUME LevelAssumption == Point \in Nat \ {0} /\ Full \in Nat /\ Full >= Point

Candidate     == {1, 2}
Competitor(c) == CHOOSE d \in Candidate : d # c

Level   == 0..Full
Opinion == [Candidate -> Level]

\* A supporter begins with 100 and 0, another voter with random whole numbers.
SupporterOpinion(c) == [d \in Candidate |-> IF d = c THEN Full ELSE 0]
RandomOpinions      == [Candidate -> {l \in Level : l % Point = 0}]

IsFavorite(opinion, c) == opinion[c] > opinion[Competitor(c)]

\* Plausible mistake: no upper limit.
NoUpperLimit(l, amount) == IF l + amount < 0 THEN 0 ELSE l + amount

\* _increaseLevelBy(): cut off at both ends.
IncreasedBy(l, amount) ==
  IF l + amount < 0 THEN 0
  ELSE IF l + amount > Full THEN Full
  ELSE l + amount

Tenth(l) == (l + 9) \div 10

\* Plausible mistake: a point instead of a tenth.
PointOnChooseMe(opinion, c) == [opinion EXCEPT ![c] = IncreasedBy(@, Point)]

\* updateLevelOnNewChooseMeMsg()
OnChooseMe(opinion, c) == [opinion EXCEPT ![c] = IncreasedBy(@, Tenth(@))]

\* A point for the stronger one from the weaker one.
PointGoesTo(opinion, c) ==
  [opinion EXCEPT ![c] = IncreasedBy(@, Point), ![Competitor(c)] = IncreasedBy(@, -Point)]

\* Plausible mistake: the campaign is always to the sender's advantage.
SenderGains(opinion, c) == PointGoesTo(opinion, c)

\* updateLevelOnNewCampaign(): it strengthens whom the voter prefers already.
OnCampaign(opinion, c) ==
  IF IsFavorite(opinion, c) THEN PointGoesTo(opinion, c)
  ELSE IF IsFavorite(opinion, Competitor(c)) THEN PointGoesTo(opinion, Competitor(c))
  ELSE opinion
=============================================================================
