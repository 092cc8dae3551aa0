------------------------------ MODULE Snapshot ------------------------------
(***************************************************************************)
(* The observer's snapshot of the votes: lib/algorithm/snapshot/*.js in    *)
(* the observer (election/observerNode.js) and in every node               *)
(* (election/electionNode.js), on top of the message handler and the       *)
(* vector clock of network-core/serverLogic.js.                            *)
(*                                                                         *)
(* The observer collects the local times, adds a margin to the largest     *)
(* entry of its clock and proposes the result as the snapshot time; a node *)
(* that has passed it says so, the margin is doubled and the proposal is   *)
(* repeated.  When all have agreed the observer puts the snapshot time     *)
(* into the entries of its own clock and sends that clock around, which    *)
(* makes every node reach the snapshot time and report its vote.           *)
(*                                                                         *)
(* A node's handler of a snapshot message touches only the node's state    *)
(* and ends with its single send, so it is one action.  The observer's     *)
(* loops over the nodes and the loops with which the nodes spread          *)
(* campaigns and rumors are one action per send.                           *)
(***************************************************************************)
EXTENDS VectorTime, Sequences, FiniteSets

CONSTANTS Node,          \* candidates and voters
          Observer,      \* the id of the observer
          Vote,          \* what a voter may currently prefer
          Elapsed,       \* [Node -> Nat] events of a node before the model starts
          Backlog,       \* campaign and rumor messages that wait at each node then
          Margin,        \* CONSTANT_START_VALUE_PER_NODE
          MaxTakeSnapshot, \* bound: take-snapshot messages to the observer
          MaxApp,        \* bound: campaign and rumor messages sent
          MaxCrashes,    \* bound
          None

Proc == Node \cup {Observer}

ASSUME ProcAssumption == IsFiniteSet(Node) /\ Node # {} /\ Observer \notin Node
ASSUME NumberAssumption ==
  /\ Elapsed \in [Node -> Nat]
  /\ Backlog \in Nat /\ Margin \in Nat \ {0}
  /\ MaxTakeSnapshot \in Nat /\ MaxApp \in Nat /\ MaxCrashes \in Nat

VARIABLES
  clock,             \* [Proc -> [Proc -> Nat]]  myVectorTime
  inbox,             \* [Proc -> Seq(Message)]   acknowledged, waiting for the semaphore
  alive,             \* SUBSET Node
  vote,              \* [Node -> Vote]           stands for the confidence levels
  telling,           \* [Node -> SUBSET Node]    whom a campaign or rumor loop has still to reach
  snapshotTimestamp, \* [Node -> Nat or None]    SnapshotReceiver; None is Number.MAX_VALUE
  finishedTimestamp, \* [Node -> Nat or None]    ServerLogic; None is -1
  reported,          \* [Node -> Vote or None]   the status sent; None: ~statusAlreadySent
  obs,               \* the observer's SnapshotAlgorithm and SnapshotState
  sending,           \* the observer's _sendMsgToAllNodes loop, or None
  nodeFinishedStates,\* Seq(Content)             what onFinishedSnapshot will count
  illegal,           \* TRUE once an "Illegal-state" error was thrown
  asked, told        \* take-snapshot and app messages so far

nodeVars == <<vote, telling, snapshotTimestamp, finishedTimestamp, reported>>
obsVars  == <<obs, sending, nodeFinishedStates, illegal>>
vars == <<clock, inbox, alive, nodeVars, obsVars, asked, told>>

Phase == {"idle", "collect-timestamps", "calculate-snapshot-timestamp",
          "distribute-snapshot-timestamp", "timestamp-distributed",
          "collect-node-state", "finished"}

Clock     == [Proc -> Nat]
Content   == [is : {"time"}, value : Nat] \cup [is : {"valid", "invalid"}]
               \cup [is : {"status"}, of : Node, value : Vote]
Sends     == [type : {"get-local-vector-timestamp", "take-snapshot-at", "update-vector-clock"},
              rest : SUBSET Node, contacted : Nat]
Message   == [type : {"take-snapshot", "app", "get-local-vector-timestamp",
                      "update-vector-clock"}, from : Proc, time : Clock]
               \cup [type : {"take-snapshot-at"}, from : Proc, time : Clock, at : Nat]
               \cup [type : {"response"}, from : Proc, time : Clock, content : Content]

ASSUME NoneAssumption == None \notin Vote /\ None \notin Nat /\ None \notin Sends

TypeOK ==
  /\ clock \in [Proc -> Clock]
  /\ inbox \in [Proc -> Seq(Message)]
  /\ alive \subseteq Node
  /\ vote \in [Node -> Vote]
  /\ telling \in [Node -> SUBSET Node]
  /\ snapshotTimestamp \in [Node -> Nat \cup {None}]
  /\ finishedTimestamp \in [Node -> Nat \cup {None}]
  /\ reported \in [Node -> Vote \cup {None}]
  /\ obs \in [state : Phase, responses : Nat, expected : Nat, negative : BOOLEAN,
              margin : Nat, timestamp : Nat, killed : BOOLEAN]
  /\ sending \in {None} \cup Sends
  /\ nodeFinishedStates \in Seq(Content)
  /\ illegal \in BOOLEAN
  /\ asked \in 0..MaxTakeSnapshot /\ told \in 0..MaxApp

Init ==
  \* the "I am born" tick of the observer; the election has been going on for
  \* a while, and campaign and rumor messages wait at every node
  /\ clock = [p \in Proc |-> IF p = Observer THEN Tick(NewClock(Proc), p)
                             ELSE [NewClock(Proc) EXCEPT ![p] = Elapsed[p]]]
  /\ inbox = [p \in Proc |-> IF p = Observer THEN <<>>
                ELSE [i \in 1..Backlog |->
                        [type |-> "app", from |-> p, time |-> NewClock(Proc)]]]
  /\ alive = Node
  /\ vote \in {[n \in Node |-> v] : v \in Vote}
  /\ telling = [n \in Node |-> {}]
  /\ snapshotTimestamp = [n \in Node |-> None]
  /\ finishedTimestamp = [n \in Node |-> None]
  /\ reported = [n \in Node |-> None]
  /\ obs = [state |-> "idle", responses |-> 0, expected |-> 0, negative |-> FALSE,
            margin |-> Margin * Cardinality(Node), timestamp |-> 0, killed |-> FALSE]
  /\ sending = None
  /\ nodeFinishedStates = <<>>
  /\ illegal = FALSE
  /\ asked = 0 /\ told = 0

-----------------------------------------------------------------------------
(* The nodes: ServerLogic.onReceiveData, ElectionNode and SnapshotReceiver *)

\* The clock of p after the tick and the update with the message's time.
Received(p, msg) == Update(Tick(clock[p], p), msg.time)

\* _isFinished of an ElectionNode whose own counter is t.
NeverFinished(n, t) == FALSE                          \* a plausible mistake
Finished(n, t) == snapshotTimestamp[n] # None /\ t >= snapshotTimestamp[n]

\* The part every node handler starts with: the semaphore is free, the first
\* waiting message is taken, c is the clock after it, and the first time the
\* node finds itself finished is kept.
Take(n, type, c) ==
  /\ n \in alive
  /\ telling[n] = {}
  /\ inbox[n] # <<>>
  /\ Head(inbox[n]).type = type
  /\ c = Received(n, Head(inbox[n]))
  /\ finishedTimestamp' =
       [finishedTimestamp EXCEPT ![n] = IF Finished(n, c[n]) /\ @ = None THEN c[n] ELSE @]
  /\ UNCHANGED <<alive, obsVars, asked>>

\* sendSnapshotResponse, the last step of the handlers of snapshot messages;
\* a stopped observer refuses the connection.
Reply(n, c, content) ==
  /\ clock' = [clock EXCEPT ![n] = Tick(c, n)]
  /\ inbox' = [inbox EXCEPT
       ![n] = Tail(@),
       ![Observer] = IF obs.killed THEN @
                     ELSE Append(@, [type |-> "response", from |-> n,
                                     time |-> Tick(c, n), content |-> content])]

SendLocalTimestamp(n) ==
  LET c == Received(n, Head(inbox[n])) IN
  /\ Take(n, "get-local-vector-timestamp", c)
  /\ Reply(n, c, [is |-> "time", value |-> c[n]])
  /\ UNCHANGED <<vote, telling, snapshotTimestamp, reported, told>>

\* A proposal is good as long as the node's own counter is below it.
Acceptable(at, t) == at > t

TakeSnapshotAt(n) ==
  LET msg == Head(inbox[n])
      c   == Received(n, msg) IN
  /\ Take(n, "take-snapshot-at", c)
  /\ IF Acceptable(msg.at, c[n])
     THEN /\ snapshotTimestamp' = [snapshotTimestamp EXCEPT ![n] = msg.at]
          /\ Reply(n, c, [is |-> "valid"])
     ELSE /\ Reply(n, c, [is |-> "invalid"])
          /\ UNCHANGED snapshotTimestamp
  /\ UNCHANGED <<vote, telling, reported, told>>

\* The status is sent once, however often the clock is updated.
UpdateVectorClock(n) ==
  LET c == Received(n, Head(inbox[n])) IN
  /\ Take(n, "update-vector-clock", c)
  /\ IF reported[n] = None
     THEN /\ reported' = [reported EXCEPT ![n] = vote[n]]
          /\ Reply(n, c, [is |-> "status", of |-> n, value |-> vote[n]])
     ELSE /\ clock' = [clock EXCEPT ![n] = c]
          /\ inbox' = [inbox EXCEPT ![n] = Tail(@)]
          /\ UNCHANGED reported
  /\ UNCHANGED <<vote, telling, snapshotTimestamp, told>>

\* A campaign or choose-me message.  A finished node drops it; otherwise the
\* vote may change and the node may start to tell some of the others.
HandleApp(n) ==
  LET c == Received(n, Head(inbox[n])) IN
  /\ Take(n, "app", c)
  /\ clock' = [clock EXCEPT ![n] = c]
  /\ inbox' = [inbox EXCEPT ![n] = Tail(@)]
  /\ \/ /\ Finished(n, c[n])
        /\ UNCHANGED <<vote, telling, told>>
     \/ /\ ~Finished(n, c[n])
        /\ \E v \in Vote : vote' = [vote EXCEPT ![n] = v]
        /\ \E S \in SUBSET (Node \ {n}) :
             /\ told + Cardinality(S) <= MaxApp
             /\ told' = told + Cardinality(S)
             /\ telling' = [telling EXCEPT ![n] = S]
  /\ UNCHANGED <<snapshotTimestamp, reported>>

\* One send of that loop; a send to a dead node fails unnoticed.
Tell(n, m) ==
  /\ n \in alive
  /\ m \in telling[n]
  /\ telling' = [telling EXCEPT ![n] = @ \ {m}]
  /\ clock' = [clock EXCEPT ![n] = Tick(@, n)]
  /\ inbox' = [inbox EXCEPT ![m] =
       IF m \in alive
       THEN Append(@, [type |-> "app", from |-> n, time |-> Tick(clock[n], n)])
       ELSE @]
  /\ UNCHANGED <<alive, vote, snapshotTimestamp, finishedTimestamp, reported,
                 obsVars, asked, told>>

\* The process of a node ends.
Crash(n) ==
  /\ n \in alive
  /\ Cardinality(Node \ alive) < MaxCrashes
  /\ alive' = alive \ {n}
  /\ UNCHANGED <<clock, inbox, nodeVars, obsVars, asked, told>>

NodeStep(n) ==
  \/ SendLocalTimestamp(n) \/ TakeSnapshotAt(n) \/ UpdateVectorClock(n) \/ HandleApp(n)
  \/ \E m \in Node : Tell(n, m)

-----------------------------------------------------------------------------
(* The observer: SnapshotAlgorithm and SnapshotState                       *)

NextState == [s \in Phase |->
  CASE s = "idle" -> "collect-timestamps"
    [] s = "collect-timestamps" -> "calculate-snapshot-timestamp"
    [] s = "calculate-snapshot-timestamp" -> "distribute-snapshot-timestamp"
    [] s = "distribute-snapshot-timestamp" -> "timestamp-distributed"
    [] s = "timestamp-distributed" -> "collect-node-state"
    [] OTHER -> "finished"]

Collecting == {"collect-timestamps", "distribute-snapshot-timestamp", "collect-node-state"}

\* The tick and the send of the loop of _sendMsgToAllNodes to one node;
\* success is that the node answered with its acknowledgement.
SendToNode(n) ==
  LET time == Tick(clock[Observer], Observer)
      base == [type |-> sending.type, from |-> Observer, time |-> time]
      msg  == IF sending.type = "take-snapshot-at"
              THEN [type |-> sending.type, from |-> Observer, time |-> time, at |-> obs.timestamp]
              ELSE base IN
  /\ sending # None
  /\ n \in sending.rest
  /\ clock' = [clock EXCEPT ![Observer] = time]
  /\ inbox' = [inbox EXCEPT ![n] = IF n \in alive THEN Append(@, msg) ELSE @]
  /\ sending' = [sending EXCEPT !.rest = @ \ {n},
                                !.contacted = IF n \in alive THEN @ + 1 ELSE @]
  /\ UNCHANGED <<alive, nodeVars, obs, nodeFinishedStates, illegal, asked, told>>

\* The loop ended: waitForResponses, which throws in the wrong state.
WaitForResponses ==
  /\ sending # None
  /\ sending.rest = {}
  /\ sending' = None
  /\ IF obs.state \in Collecting \cup {"finished"}
     THEN illegal' = TRUE /\ UNCHANGED obs
     ELSE /\ obs' = [obs EXCEPT !.state = NextState[@], !.responses = 0,
                                !.expected = sending.contacted]
          /\ UNCHANGED illegal
  /\ UNCHANGED <<clock, inbox, alive, nodeVars, nodeFinishedStates, asked, told>>

\* Plausible mistake: the observer counts itself among the nodes.
LoopWithObserver(type) == [type |-> type, rest |-> Proc, contacted |-> 0]

Loop(type) == [type |-> type, rest |-> Node, contacted |-> 0]

\* Plausible mistake: what a negative answer asked for is forgotten when
\* another node agrees.
LastAnswerCounts(o, negative) == [o EXCEPT !.responses = @ + 1, !.negative = negative]

\* The counting of incomingResponse.
Counted(o, negative) == [o EXCEPT !.responses = @ + 1, !.negative = @ \/ negative]

\* Plausible mistakes: one response too early; no second proposal.
EarlyTransition(o) ==
  IF o.responses < o.expected - 1 THEN o
  ELSE IF o.negative THEN [o EXCEPT !.negative = FALSE, !.state = "calculate-snapshot-timestamp"]
  ELSE [o EXCEPT !.state = NextState[@]]
NoRetry(o) ==
  IF o.responses # o.expected \/ o.negative THEN o ELSE [o EXCEPT !.state = NextState[@]]

\* Its transition once the expected number of responses has come in.
Transition(o) ==
  IF o.responses # o.expected THEN o
  ELSE IF o.negative THEN [o EXCEPT !.negative = FALSE, !.state = "calculate-snapshot-timestamp"]
  ELSE [o EXCEPT !.state = NextState[@]]

\* The observer after processIncomingMessage, up to its transition.
AfterResponse(content) ==
  LET negative == obs.state = "distribute-snapshot-timestamp" /\ content.is # "valid" IN
  Transition(Counted([obs EXCEPT !.margin = IF negative THEN 2 * @ ELSE @], negative))

\* _calculateSnapshotTimestamp
SnapshotTime(c, margin) == MaxTimestamp(c) + margin

\* _manipulateVectorClock
Manipulated(c, t) == [p \in Proc |-> IF p \in Node THEN Larger(c[p], t) ELSE c[p]]

\* The observer's semaphore, held while a loop of sends is on its way.
ObserverAlwaysFree == TRUE                            \* a plausible mistake
ObserverFree == sending = None

\* The observer's handler of a message, up to the start of its next loop.
ObserverTakes(msg) ==
  /\ ObserverFree
  /\ ~obs.killed
  /\ inbox[Observer] # <<>>
  /\ msg = Head(inbox[Observer])
  /\ inbox' = [inbox EXCEPT ![Observer] = Tail(@)]
  /\ UNCHANGED <<alive, nodeVars, asked, told>>

StartSnapshot ==
  LET msg == Head(inbox[Observer]) IN
  /\ ObserverTakes(msg)
  /\ msg.type = "take-snapshot"
  /\ clock' = [clock EXCEPT ![Observer] = Received(Observer, msg)]
  /\ sending' = Loop("get-local-vector-timestamp")
  /\ UNCHANGED <<obs, nodeFinishedStates, illegal>>

ReceiveResponse ==
  LET msg == Head(inbox[Observer])
      c   == Received(Observer, msg)
      o   == AfterResponse(msg.content) IN
  /\ ObserverTakes(msg)
  /\ msg.type = "response"
  /\ IF obs.state \notin Collecting
     THEN /\ illegal' = TRUE
          /\ clock' = [clock EXCEPT ![Observer] = c]
          /\ UNCHANGED <<obs, sending, nodeFinishedStates>>
     ELSE /\ nodeFinishedStates' = IF obs.state = "collect-node-state"
                                   THEN Append(nodeFinishedStates, msg.content)
                                   ELSE nodeFinishedStates
          /\ obs' = [o EXCEPT
               !.timestamp = IF o.state = "calculate-snapshot-timestamp"
                             THEN SnapshotTime(c, o.margin) ELSE @,
               !.killed = o.state = "finished"]
          /\ sending' = CASE o.state = "calculate-snapshot-timestamp" -> Loop("take-snapshot-at")
                          [] o.state = "timestamp-distributed" -> Loop("update-vector-clock")
                          [] OTHER -> None
          /\ clock' = [clock EXCEPT ![Observer] =
               IF o.state = "timestamp-distributed" THEN Manipulated(c, o.timestamp) ELSE c]
          /\ UNCHANGED illegal

\* The test suite or a user asks for the snapshot (run-election.js).
RequestSnapshot ==
  /\ asked < MaxTakeSnapshot
  /\ asked' = asked + 1
  /\ ~obs.killed
  /\ inbox' = [inbox EXCEPT ![Observer] =
       Append(@, [type |-> "take-snapshot", from |-> Observer, time |-> NewClock(Proc)])]
  /\ UNCHANGED <<clock, alive, nodeVars, obsVars, told>>

ObserverStep ==
  \/ StartSnapshot \/ ReceiveResponse \/ WaitForResponses
  \/ \E n \in Node : SendToNode(n)

Next ==
  \/ RequestSnapshot \/ ObserverStep
  \/ \E n \in Node : NodeStep(n) \/ Crash(n)

\* Settled promises are continued and the semaphores are FIFO; whether a
\* snapshot is requested or a process dies is up to the environment.
Fairness == WF_vars(ObserverStep) /\ \A n \in Node : WF_vars(NodeStep(n))

Spec == Init /\ [][Next]_vars /\ Fairness

-----------------------------------------------------------------------------
(* Properties.                                                             *)

\* No "Illegal-state" error is thrown: a response never comes in while the
\* observer is idle, calculates or is done, and a loop never ends in a state
\* that waits for responses (snapshotState.js:51-55, 73-77).  Responses come
\* while the loop still runs, so this rests on the observer's semaphore.
NoIllegalState == ~illegal

\* Clocks are forced only after all have agreed: from the moment on when the
\* last answer came in, every node that lives has accepted the very snapshot
\* time the observer is about to force, also after repeated proposals with
\* agreeing and refusing nodes (snapshotAlgorithm.js:111-116).
AgreedBeforeForced ==
  obs.state \in {"timestamp-distributed", "collect-node-state", "finished"} =>
    \A n \in alive : snapshotTimestamp[n] = obs.timestamp

\* The result counts each living node once, with the status it sent, and
\* nothing but statuses: no answer to an earlier question is taken for a status
\* (snapshotAlgorithm.js:79-81; observerNode.js:45-64 skips what has no
\* confidence level).
TallyIsComplete ==
  obs.state = "finished" =>
    LET results == nodeFinishedStates IN
    /\ \A i \in 1..Len(results) :
         /\ results[i].is = "status"
         /\ results[i].value = reported[results[i].of]
         /\ \A j \in 1..Len(results) : results[j] = results[i] => j = i
    /\ \A n \in alive : \E i \in 1..Len(results) : results[i].of = n

\* Once a node has sent its status its vote is the one it reported, although
\* campaigns and rumors keep arriving.
ReportIsFrozen ==
  \A n \in Node : reported[n] # None => vote[n] = reported[n]

\* A requested snapshot gets to its result unless a node dies: proposals are
\* repeated until one is in the future of every node.
SnapshotFinishes ==
  (asked > 0) ~> (obs.state = "finished" \/ alive # Node)

\* What the assignment asks (uebung02.pdf, page 3): a node that has reached
\* the snapshot time it was given fixes its choice.  finishedTimestamp is
\* where the node writes that down (serverLogic.js:83-85).
VoteFixedWhenFinished ==
  [][\A n \in Node : finishedTimestamp[n] # None => vote'[n] = vote[n]]_vars

\* The snapshot is consistent (README.md:178): a node that has not reached
\* the agreed snapshot time does not take in a message that was sent by a
\* node which had.
ConsistentSnapshot ==
  [][\A n \in Node :
       (/\ obs.state \in {"timestamp-distributed", "collect-node-state"}
        /\ inbox[n] # <<>> /\ inbox'[n] = Tail(inbox[n])
        /\ Head(inbox[n]).type = "app"
        /\ clock'[n][n] < obs.timestamp)
       => LET msg == Head(inbox[n]) IN msg.time[msg.from] < obs.timestamp]_vars
=============================================================================
