------------------------------ MODULE Election ------------------------------
(***************************************************************************)
(* The election itself: candidates (election/candidate.js) that start one  *)
(* campaign or choose-me rumor after the other, voters (election/voter.js) *)
(* that change their minds and send feedback, the rumors between them      *)
(* (lib/algorithm/rumorAlgorithm.js) and what the observer would count.    *)
(*                                                                         *)
(* A campaign is here what EchoFeedback promises; Echo.tla shows that the  *)
(* protocol keeps the promise.  A send is one action, put at the end of    *)
(* the queue of the receiver's semaphore; see ServerLogic.tla.             *)
(***************************************************************************)
EXTENDS ElectionResult, Sequences

CONSTANTS Voter,
          Neighbors,     \* [Node -> SUBSET Node]
          Receives,      \* [Candidate -> Nat \ {0}] parameter r of a candidate
          Limits,        \* bounds: draws of the candidates, and number of faults
          MaxActivities, \* bound: the largest number of draws of a candidate
          NoId

Node == Voter \cup Candidate
Draw == {"campaign", "rumor"}

\* The k-th campaign or rumor of a candidate; the program draws a random id.
Id == Candidate \X (1..MaxActivities)

ASSUME ElectionAssumption ==
  /\ IsFiniteSet(Voter) /\ Voter \cap Candidate = {}
  /\ Neighbors \in [Node -> SUBSET Node]
  /\ Receives \in [Candidate -> Nat \ {0}]
  /\ MaxActivities \in Nat
  /\ Limits \subseteq [draws : [Candidate -> Seq(Draw)], faults : Nat]
  /\ \A l \in Limits, c \in Candidate : Len(l.draws[c]) <= MaxActivities
  /\ NoId \notin Id

VARIABLES
  \* candidates
  started,   \* [Candidate -> Nat] campaignCounter + chooseMeCounter
  kind,      \* [Id -> {"none", "campaign", "rumor"}]
  current,   \* [Candidate -> Id or NoId] currentRumorId
  counter,   \* [Candidate -> Nat] feedbackCounter
  \* voters
  level,     \* [Voter -> Opinion]
  tellers,   \* [Voter -> [Id -> SUBSET Node]] rumors[].from; {}: not known
  \* both
  task,      \* [Node -> Task] the handler that holds the semaphore
  queue,     \* [Node -> Seq(Message)] handlers that wait for it
  unsent,    \* [Node -> [Id -> SUBSET Voter]] rest of the loop in distributeRumor
  feedback,  \* SUBSET Message: sends of voters that nobody awaits
  faults,
  \* campaigns, see EchoFeedback
  informed, complete,
  limit,     \* the bounds of this behaviour, one of Limits
  \* history
  counted,   \* [Id -> SUBSET Voter] whose feedback was counted
  believers  \* [Id -> SUBSET Node] the initiator, and the voters that agreed

candidateVars == <<started, kind, current, counter, counted>>
voterVars     == <<level, tellers>>
campaignVars  == <<informed, complete>>
vars == <<candidateVars, voterVars, task, queue, unsent, feedback, faults,
          campaignVars, limit, believers>>

Message == [id : Id, from : Node]
Idle    == [pc |-> "idle", id |-> NoId, from |-> NoId]
\* tell: a loop that the handler awaits; count: before feedbackCounter++;
\* callback: of the campaign that is complete.
Task    == {Idle} \cup [pc : {"tell", "count", "callback"}, id : Id, from : Node]

Campaigns == INSTANCE EchoFeedback WITH Initiator <- [id \in Id |-> id[1]]

\* The friends do not include the candidates (electionNode.js:19-21).
Friends == [n \in Node |-> Neighbors[n] \ Candidate]

\* The first of the candidates that are neighbours, if there is any.
Supported(v) ==
  LET candidates == Neighbors[v] \cap Candidate
  IN  IF candidates = {} THEN {} ELSE {CHOOSE c \in candidates : TRUE}

TypeOK ==
  /\ started \in [Candidate -> Nat]
  /\ \A c \in Candidate : started[c] <= Len(limit.draws[c])
  /\ kind \in [Id -> Draw \cup {"none"}]
  /\ current \in [Candidate -> Id \cup {NoId}]
  /\ counter \in [Candidate -> Nat]
  /\ level \in [Voter -> Opinion]
  /\ tellers \in [Voter -> [Id -> SUBSET Node]]
  /\ task \in [Node -> Task]
  /\ queue \in [Node -> Seq(Message)]
  /\ unsent \in [Node -> [Id -> SUBSET Voter]]
  /\ feedback \in SUBSET Message
  /\ faults \in Nat
  /\ limit \in Limits
  /\ informed \in [Id -> SUBSET Node]
  /\ complete \in [Id -> BOOLEAN]
  /\ counted \in [Id -> SUBSET Voter]
  /\ believers \in [Id -> SUBSET Node]

FirstOpinions(v) ==
  IF Supported(v) = {} THEN RandomOpinions
  ELSE {SupporterOpinion(c) : c \in Supported(v)}

Init ==
  /\ started = [c \in Candidate |-> 0]
  /\ kind = [id \in Id |-> "none"]
  /\ current = [c \in Candidate |-> NoId]
  /\ counter = [c \in Candidate |-> 0]
  /\ level \in [Voter -> Opinion]
  /\ \A v \in Voter : level[v] \in FirstOpinions(v)
  /\ tellers = [v \in Voter |-> [id \in Id |-> {}]]
  /\ task = [n \in Node |-> Idle]
  /\ queue = [n \in Node |-> <<>>]
  /\ unsent = [n \in Node |-> [id \in Id |-> {}]]
  /\ feedback = {}
  /\ faults = 0
  /\ limit \in Limits
  /\ Campaigns!Init
  /\ counted = [id \in Id |-> {}]
  /\ believers = [id \in Id |-> {}]

-----------------------------------------------------------------------------
(* The candidates.                                                         *)

\* A send fails or a finished node drops a message.
Fault == faults < limit.faults /\ faults' = faults + 1

\* Plausible mistake: the current rumor is not reset.
KeepRumor(c) == current[c]

\* What resetCurrentRumorId() leaves.
ResetRumor(c) == NoId

\* initEcho().  The handler's own part of it is left to Echo.tla.
StartCampaign(c, id) ==
  /\ kind' = [kind EXCEPT ![id] = "campaign"]
  /\ current' = [current EXCEPT ![c] = ResetRumor(c)]
  /\ Campaigns!Begin(id)
  /\ task' = [task EXCEPT ![c] = Idle]
  /\ UNCHANGED <<unsent, believers>>

\* initiateRumorDistribution() up to its first await; next is what the handler
\* does then.
StartRumor(c, id, next) ==
  /\ kind' = [kind EXCEPT ![id] = "rumor"]
  /\ current' = [current EXCEPT ![c] = id]
  /\ unsent' = [unsent EXCEPT ![c][id] = Friends[c]]
  /\ believers' = [believers EXCEPT ![id] = {c}]
  /\ task' = [task EXCEPT ![c] = next]
  /\ UNCHANGED campaignVars

\* The handler that begins to tell a rumor to the nodes of S.
Telling(n, id, S) == IF S = {} THEN Idle ELSE [pc |-> "tell", id |-> id, from |-> n]

\* shouldISentACampaign(): the random draws are settled with the bounds.
SendsCampaign(c) == limit.draws[c][started[c] + 1] = "campaign"

\* startCampaignOrChooseMeRumor(): a campaign or a rumor.  A handler that awaits
\* it holds the semaphore until the rumor is told.
StartActivity(c, awaited) ==
  LET id == <<c, started[c] + 1>> IN
  /\ started[c] < Len(limit.draws[c])
  /\ started' = [started EXCEPT ![c] = @ + 1]
  /\ \/ SendsCampaign(c) /\ StartCampaign(c, id)
     \/ ~SendsCampaign(c) /\ StartRumor(c, id, IF awaited THEN Telling(c, id, Friends[c]) ELSE Idle)

\* INIT; it comes once.
HandleInit(c) ==
  /\ started[c] = 0
  /\ task[c] = Idle
  /\ StartActivity(c, TRUE)
  /\ UNCHANGED <<counter, counted, voterVars, queue, feedback, faults>>

\* The last answer to a campaign comes: the handler calls the callback.
CompleteCampaign(c, id) ==
  /\ id[1] = c
  /\ task[c] = Idle
  /\ Campaigns!Finish(id)
  /\ task' = [task EXCEPT ![c] = [pc |-> "callback", id |-> id, from |-> c]]
  /\ UNCHANGED <<candidateVars, voterVars, queue, unsent, feedback, faults, believers>>

\* The callback, which nobody awaits: a rumor is told while further handlers run.
Callback(c) ==
  /\ task[c].pc = "callback"
  /\ StartActivity(c, FALSE)
  /\ UNCHANGED <<counter, counted, voterVars, queue, feedback, faults>>

\* Plausible mistake: feedback to any rumor counts.
NeverOutdated(c, id) == FALSE

Outdated(c, id) == current[c] # id

\* incFeedbackCounter(): feedback to an old rumor is dropped, else the handler
\* awaits semaFeedbackCounter, which only such handlers take.
HandleFeedback(c) ==
  /\ task[c] = Idle /\ queue[c] # <<>>
  /\ queue' = [queue EXCEPT ![c] = Tail(@)]
  /\ LET m == Head(queue[c]) IN
     task' = [task EXCEPT ![c] =
                IF Outdated(c, m.id) THEN Idle
                ELSE [pc |-> "count", id |-> m.id, from |-> m.from]]
  /\ UNCHANGED <<candidateVars, voterVars, unsent, feedback, faults, campaignVars, believers>>

EnoughFeedback(c, n) == n % Receives[c] = 0

CountFeedback(c) ==
  /\ task[c].pc = "count"
  /\ counter' = [counter EXCEPT ![c] = @ + 1]
  /\ counted' = [counted EXCEPT ![task[c].id] = @ \cup {task[c].from}]
  /\ IF EnoughFeedback(c, counter[c] + 1)
     THEN StartActivity(c, TRUE)
     ELSE /\ task' = [task EXCEPT ![c] = Idle]
          /\ UNCHANGED <<started, kind, current, unsent, campaignVars, believers>>
  /\ UNCHANGED <<voterVars, queue, feedback, faults>>

-----------------------------------------------------------------------------
(* The rumors.                                                             *)

\* The friends the loop has still to tell: before each send the loop of a
\* voter asks anew who told it the rumor itself.
ToTell(n, id) == IF n \in Candidate THEN unsent[n][id] ELSE unsent[n][id] \ tellers[n][id]

\* The handler leaves the semaphore after the last send of its loop.
AfterTelling(n, id, v) ==
  IF task[n].pc = "tell" /\ task[n].id = id /\ ToTell(n, id) = {v} THEN [task EXCEPT ![n] = Idle] ELSE task

\* One send of the loop; one that fails is not repeated.
Tell(n, id, v) ==
  /\ v \in ToTell(n, id)
  /\ unsent' = [unsent EXCEPT ![n][id] = @ \ {v}]
  /\ UNCHANGED voterVars
  /\ task' = AfterTelling(n, id, v)
  /\ \/ /\ queue' = [queue EXCEPT ![v] = Append(@, [id |-> id, from |-> n])]
        /\ UNCHANGED faults
     \/ Fault /\ UNCHANGED queue
  /\ UNCHANGED <<candidateVars, feedback, campaignVars, believers>>

\* Plausible mistake: the answer of the listener is not looked at.
Everybody(opinion, c) == TRUE

\* The listener's answer: true, iff the rumor shall be distributed.
Agrees(opinion, c) == IsFavorite(opinion, c)

\* Plausible mistake: only who agrees sends feedback.
FeedbackIfAgreed(opinion, c, m) == IF IsFavorite(opinion, c) THEN {m} ELSE {}

\* KEEP_IT_UP or NOT_YOU, which count alike.
FeedbackOf(opinion, c, m) == {m}

\* A known rumor: one more teller.
HearAgain(v) ==
  LET m == Head(queue[v]) IN
  /\ task[v] = Idle /\ queue[v] # <<>>
  /\ tellers[v][m.id] # {}
  /\ queue' = [queue EXCEPT ![v] = Tail(@)]
  /\ tellers' = [tellers EXCEPT ![v][m.id] = @ \cup {m.from}]
  /\ UNCHANGED <<candidateVars, level, task, unsent, feedback, faults, campaignVars, believers>>

\* A new rumor: onNewIncomingChooseMeMsg() changes the level, begins to send
\* its feedback without awaiting it and says whether to tell the friends.
HearFirst(v) ==
  LET m       == Head(queue[v])
      c       == m.id[1]
      opinion == OnChooseMe(level[v], c)
      agrees  == Agrees(opinion, c)
  IN
  /\ task[v] = Idle /\ queue[v] # <<>>
  /\ tellers[v][m.id] = {}
  /\ queue' = [queue EXCEPT ![v] = Tail(@)]
  /\ tellers' = [tellers EXCEPT ![v][m.id] = {m.from}]
  /\ level' = [level EXCEPT ![v] = opinion]
  /\ feedback' = feedback \cup FeedbackOf(opinion, c, [id |-> m.id, from |-> v])
  /\ IF agrees
     THEN /\ unsent' = [unsent EXCEPT ![v][m.id] = Friends[v]]
          /\ task' = [task EXCEPT ![v] = Telling(v, m.id, Friends[v] \ {m.from})]
     ELSE UNCHANGED <<unsent, task>>
  /\ believers' = IF IsFavorite(opinion, c) THEN [believers EXCEPT ![m.id] = @ \cup {v}] ELSE believers
  /\ UNCHANGED <<candidateVars, faults, campaignVars>>

\* The feedback arrives, or does not.
SendFeedback(m) ==
  /\ m \in feedback
  /\ feedback' = feedback \ {m}
  /\ \/ /\ queue' = [queue EXCEPT ![m.id[1]] = Append(@, m)]
        /\ UNCHANGED faults
     \/ Fault /\ UNCHANGED queue
  /\ UNCHANGED <<candidateVars, voterVars, task, unsent, campaignVars, believers>>

\* A node that has reached its snapshot time takes no more messages in.
DropFinished(n) ==
  /\ task[n] = Idle /\ queue[n] # <<>>
  /\ Fault
  /\ queue' = [queue EXCEPT ![n] = Tail(@)]
  /\ UNCHANGED <<candidateVars, voterVars, task, unsent, feedback, campaignVars, believers>>

\* A campaign reaches a node; a voter changes its levels.
HearCampaign(n, id) ==
  /\ task[n] = Idle
  /\ Campaigns!Inform(id, n)
  /\ level' = IF n \in Voter THEN [level EXCEPT ![n] = OnCampaign(@, id[1])] ELSE level
  /\ UNCHANGED <<candidateVars, tellers, task, queue, unsent, feedback, faults, believers>>

-----------------------------------------------------------------------------
NodeStep(n) ==
  \/ n \in Candidate /\ (Callback(n) \/ HandleFeedback(n) \/ CountFeedback(n))
  \/ n \in Voter /\ (HearFirst(n) \/ HearAgain(n))
  \/ \E id \in Id, v \in Voter : Tell(n, id, v)

Next ==
  /\ UNCHANGED limit
  /\ \/ \E c \in Candidate : HandleInit(c) \/ \E id \in Id : CompleteCampaign(c, id)
     \/ \E n \in Node : \/ NodeStep(n) \/ DropFinished(n)
                        \/ \E id \in Id : HearCampaign(n, id)
     \/ \E m \in feedback : SendFeedback(m)

\* The event loop runs what is ready.  That campaigns come to their end is the
\* business of Echo and is not assumed here.
Fairness ==
  /\ \A n \in Node : WF_vars(NodeStep(n) /\ UNCHANGED limit)
  /\ WF_vars((\E m \in feedback : SendFeedback(m)) /\ UNCHANGED limit)

Spec == Init /\ [][Next]_vars /\ Fairness

-----------------------------------------------------------------------------
(* Properties.                                                             *)

\* A candidate does one thing at a time, although callbacks of campaigns run
\* beside the handlers and old rumors are still being told: a campaign that is
\* open is the latest activity and no rumor is current then; the rumor that is
\* current is the latest activity; and the feedback that a handler is about to
\* count is still about it after the await (candidate.js:49-71).
OneActivity ==
  \A c \in Candidate :
    /\ current[c] # NoId => current[c] = <<c, started[c]>> /\ kind[current[c]] = "rumor"
    /\ \A k \in 1..(started[c] - 1) : kind[<<c, k>>] = "campaign" => complete[<<c, k>>]
    /\ task[c].pc = "count" => task[c].id = current[c]

\* A candidate goes on from a choose-me rumor after the feedback of exactly
\* Receives different voters to this rumor, although it counts with one number
\* for all rumors that is never reset (candidate.js:55-58).
CountedFeedback ==
  \A c \in Candidate : \A k \in 1..started[c] :
    kind[<<c, k>>] = "rumor" =>
      IF k = started[c] THEN Cardinality(counted[<<c, k>>]) < Receives[c]
                        ELSE Cardinality(counted[<<c, k>>]) = Receives[c]

Heard(id) == {v \in Voter : tellers[v][id] # {}}

\* A rumor goes from believers to friends only, to each of them once, and a
\* voter makes up its mind once, although tellers and feedback cross (README.md:55-56
\* "wobei ein Knoten die Nachricht nur dann weiterleitet, wenn er dem Kandidaten
\* anhand des Confidence-Levels zustimmt").
Spread == INSTANCE RumorSpread WITH
            told <- [id \in Id |-> {p \in Node \X Voter : p[1] \in tellers[p[2]][id]}],
            Initiator <- [id \in Id |-> id[1]]
RumorSpreads == Spread!Spec

\* A candidate does not fall silent in a rumor that enough voters have heard,
\* unless a message was lost.  It may in one that too few hear, for those that
\* do not agree pass nothing on (candidate.js:56, voter.js:34-48).
HeardByEnough(c) == current[c] # NoId /\ Cardinality(Heard(current[c])) >= Receives[c]
GoesOn ==
  \A c \in Candidate :
    HeardByEnough(c) ~> (~HeardByEnough(c) \/ faults > 0 \/ started[c] = Len(limit.draws[c]))

\* A voter changes sides only when it hears a new rumor of the other candidate,
\* never by a campaign, and a level that has come down to zero stays there,
\* whatever the order of campaigns and rumors (confidenceLevel.js:28-39, 70-80).
OpinionsSettle ==
  [][\A v \in Voter, c \in Candidate :
       /\ level[v][c] = 0 => level'[v][c] = 0
       /\ IsFavorite(level[v], c) /\ ~IsFavorite(level'[v], c) =>
            \E id \in Id : id[1] = Competitor(c) /\ v \in Heard(id)' \ Heard(id)]_vars

Statuses == [n \in Node |-> IF n \in Voter THEN level[n] ELSE NoLevels]

\* Whenever the observer counts, a candidate has the votes of all its supporters,
\* of no supporter of the other and of the other voters it has won; so with as
\* many supporters on either side, as in a generated network, they cancel out
\* and the other voters decide (observerNode.js:51-77).
SupportersCount ==
  LET r == Result(Statuses)
      supporters(c) == Cardinality({v \in Voter : c \in Supported(v)})
      won(c) == Cardinality({v \in Voter : Supported(v) = {} /\ IsFavorite(level[v], c)})
  IN \A c \in Candidate :
       /\ r.count[c] = supporters(c) + won(c)
       /\ supporters(c) = supporters(Competitor(c)) =>
            (r.winner = c <=> won(c) > won(Competitor(c)))
=============================================================================
