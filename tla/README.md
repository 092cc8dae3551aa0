# TLA+ models of the rumor election

The program is an exercise in distributed algorithms: processes that talk over
TCP hold an election. Candidates campaign among the nodes, voters change their
confidence in the candidates, an observer takes a snapshot of the votes and
announces the result. This directory holds TLA+ modules that model the
program's algorithms, TLC configurations that check them on small networks, and
proofs, checked by TLAPS, that hold for all networks and all values of the other
constants.

Paths are relative to `src/src/` unless they begin with `src/`.

## The system

### Processes and how they interact

Every node of the graph is one Node.js process. Ids 1 and 2 are the candidates
(`election/candidateIdsManager.js`), the others voters; a voter next to a
candidate is its supporter. Id 0 is the observer. A process sends a message by
opening a connection, writing one JSON object and awaiting the answer
(`lib/client.js`); the receiver answers `{}` as soon as the data is there and
then waits for the node's semaphore, which serialises its handlers
(`network-core/serverLogic.js`). A handler may send messages of its own and
awaits each of them while it holds the semaphore. Every message carries the
sender's vector clock.

    tools/init.js, run-election.js        user: init, take-snapshot, stop, stop all
            |
            v                 TCP, one connection per message
       ServerLogic (semaphore, vector clock, killed, finishedTimestamp)
            |
       ElectionNode ---- EchoAlgorithm      campaigns
       /     |     \---- RumorAlgorithm     choose-me rumors, voters only
    Candidate Voter \--- SnapshotReceiver <----> SnapshotAlgorithm (ObserverNode)
             |
       ConfidenceLevel

### Components: state, operations, what is hard, what makes them correct

| Component | State | Operations | Hard | Correct when |
|---|---|---|---|---|
| `EchoAlgorithm`, `EchoState` | per echo id: colour, counter, first neighbour, content | `initEcho`, `processIncomingMsg`, `sendExplorer`, `sendEchoTo` | awaits between recording a message and recording where it came from; the initiator's loop runs beside its handler; a counter compared with `===`; failing sends | the callback runs once, only when all nodes have the campaign and nothing of it is under way, and it does run when nothing fails |
| `ServerLogic`, `Client`, `Server`, `Semaphore` | semaphore and its queue, `killed`, open connections, clock | `onReceiveData`, `sendMsgTo`, `stop`, `sendStopSignalToNeighbors` | handlers in a circle sending to each other; STOP ALL racing with closing servers; a stopped process with answered messages; peers that die | handlers end, answered messages get their turn, order is kept, STOP ALL gets everywhere, a stopped process drops what it has answered |
| `SnapshotAlgorithm`, `SnapshotState`, `ObserverNode` | phase, responses, expected, repeat flag, margin, snapshot time, statuses | `processIncomingMessage`, `_sendMsgToAllNodes`, `waitForResponses`, `incomingResponse` | responses that come while the loop of sends runs; refusals mixed with agreements; forced clocks that spread with every message; dying nodes | never in an illegal state; clocks are forced only when all agreed; every living node is counted once |
| `SnapshotReceiver`, `ElectionNode` | `snapshotTimestamp`, `statusAlreadySent`, `finishedTimestamp` | the three snapshot requests, `_isFinished` | the finished test is made once per message, clocks go on | the vote that was reported is the vote that stays |
| `VectorClock` | entries per id | `tick`, `update`, `getMaxTimestamp` | entries that do not exist yet | entry-wise maximum |
| `RumorAlgorithm` | known rumors with their tellers, current rumor | `initiateRumorDistribution`, `processIncomingMessage` | tellers that come while the loop runs | a node tells each friend at most once and no one who told it; its listener runs once per rumor |
| `Candidate` | feedback counter, current campaign or rumor | `incFeedbackCounter`, `startCampaignOrChooseMeRumor` | callbacks outside of the semaphore, outdated feedback | one activity at a time; the candidate does not fall silent |
| `Voter`, `ConfidenceLevel` | a level per candidate | `onNewIncomingChooseMeMsg`, `onNewIncomingCampaignMsg` | un-awaited feedback; cut-off at 0 and 100 | levels within 0..100, one feedback per rumor |
| Observer's result | statuses | `onFinishedSnapshot` | candidates among the statuses, no status at all | shares and the winner agree with the votes |
| `EndpointManager`, parsers | nodes, neighbours, endpoints | parsing at start-up | duplicate edges | symmetric neighbours |
| Graph generation | degrees, edges | Havel-Hakimi, supporters | sequences no graph has | the degrees asked for, or a refusal |
| `run-election`, `SpawnElectionNodes` | lines counted, callbacks | spawn, init, snapshot, stop | output comes in chunks that need not end where lines end | the election begins when all are ready, and it ends |
| `tools/init.js`, helpers | none | dialogue, files, console | | pure I/O |

`PROJECT.json` lists the same parts with what is modelled of each, and under
`hazards` the lines at which this code can go wrong in ways a unit test hardly
reaches, with the properties that watch them.

## Modules

| Module | Models | Used by |
|---|---|---|
| `Echo` | the campaigns, on every node | `MCEcho`, `EchoInvariant` |
| `EchoFeedback` | what campaigns promise: propagation of information with feedback | `Echo` (`Feedback == INSTANCE EchoFeedback WITH ...`) |
| `EchoInvariant` | the inductive invariant of `Echo` | `MCEcho`, `EchoProofs` |
| `EchoProofs` | the theorems about `Echo` | |
| `VectorTime` | the vector clock, as operators | `Snapshot` |
| `Snapshot` | the snapshot of the votes: observer and nodes | `SnapshotInvariant` |
| `SnapshotInvariant` | the inductive invariant of `Snapshot` | `MCSnapshot`, `SnapshotProofs` |
| `SnapshotProofs` | the theorems about `Snapshot` | |
| `ServerLogic` | message handler and connections | `ServerLogicInvariant` |
| `AtomicSend` | what the message handler promises the algorithms: sends that are one step | `ServerLogic` (`Sends == INSTANCE AtomicSend WITH ...`) |
| `ServerLogicInvariant` | the inductive invariant of `ServerLogic` | `MCServerLogic`, `ServerLogicProofs` |
| `ServerLogicProofs` | the invariant of `ServerLogic`, and order | `AtomicSendProofs` |
| `AtomicSendProofs` | that `ServerLogic` implements `AtomicSend` | |
| `GraphGeneration` | the network an election runs in | `GraphInvariant` |
| `GraphInvariant` | the inductive invariant of `GraphGeneration` | `MCGraphGeneration`, `GraphProofs` |
| `GraphProofs` | the theorems about `GraphGeneration` | |
| `Endpoints` | what a node makes of the graph file: neighbours and addresses, as operators | `GraphGeneration` |
| `Confidence` | a voter's levels, as operators | `ElectionResult`, `ConfidenceProofs` |
| `ElectionResult` | the observer's count of the votes, as an operator | `Election` |
| `RumorSpread` | what choose-me rumors promise | `Election` (`Spread == INSTANCE RumorSpread WITH ...`) |
| `Election` | candidates, voters and the rumors between them, over the promises of `EchoFeedback` | `ElectionInvariant` |
| `ElectionInvariant` | the inductive invariant of `Election` | `MCElection`, `ElectionProofs` |
| `ConfidenceProofs`, `ElectionProofs` | the theorems about `Confidence` and `Election` | |
| `Launcher` | the launching of an election, from the first process to the last | `LauncherInvariant` |
| `LauncherInvariant` | the inductive invariant of `Launcher` | `MCLauncher`, `LauncherProofs` |
| `LauncherProofs` | the theorems about `Launcher` | |
| `MCEcho`, `MCSnapshot`, `MCServerLogic`, `MCGraphGeneration`, `MCElection`, `MCLauncher` | small instances for TLC | |

In each module a few operators are marked "plausible mistake" and used by no
definition. They are the alternatives with which the properties were tested:
put in the place of the definition that follows them, each makes TLC report a
violation of the property it is listed with in `PROJECT.json`.

### Echo

State. `state`, `counter`, `firstNeighborId` and `message` are the fields of
`EchoState`, one per echo id. `queue[n]` are the handlers of node n that wait
for the semaphore, with the messages they hold; `task[n]` is the handler that
has it and where it stands between two awaits; `unsent` holds what the `for`
loop of `sendExplorer` has still to do. `distributed` counts the calls of
`onEchoDistributed`.

Actions. `InitEcho` is `initEcho` up to its first await; `ProcessFirst`,
`ProcessNext`, `HandlerSend`, `FinishExploring` and `SendEcho` are the stretches
of `processIncomingMsg` between two awaits. In particular `FinishExploring`
records the first neighbour after the awaits of the loop, as line 76 does.
`InitiatorSend` is the initiator's own loop, which the candidate's callback
starts without awaiting it (`election/candidate.js:68`,
`lib/algorithm/echoAlgorithm.js:83`) and which hence runs beside the handlers.
`Lose`, `Discard` and `Crash` are the failures: a send that throws is logged and
forgotten (`network-core/serverLogic.js:148-156`), a finished node drops campaign
messages (`network-core/serverLogic.js:83-87`), a process ends.

A send is one action. The steps of a connection are in `ServerLogic`, which
implements `AtomicSend`, where a send is one step, too (`AtomicSends`): the peer
answers before it takes its semaphore, the sender awaits the answer, and the queue
is FIFO, so what a node sends one after the other is handled in that order
(`InOrder`) and no send waits for a handler (`HandlerReturns`). The initiator's
loop, which no handler awaits, is outside of `AtomicSend`.

### Snapshot

State. `clock` are the vector clocks, `inbox` what has been acknowledged and
waits for the semaphore, `obs` the fields of `SnapshotAlgorithm` and
`SnapshotState`, `sending` the loop `_sendMsgToAllNodes` with the nodes it has
still to reach. `vote` stands for a voter's confidence levels; `telling` is the
loop with which a node spreads a campaign or a rumor.

Actions. A node's handler of a snapshot message touches its own state only and
ends with its one send, so it is one action, trailing `Reply` included.
`HandleApp` is any campaign or choose-me message: it may change the vote and
start a loop. The loops of the observer and of `HandleApp` are one action per
send, because each send ticks the clock. `ReceiveResponse` is the observer's
whole handler up to the first await of the next loop. `Init` is an election
under way: nodes with different clocks and messages waiting.

### ServerLogic and AtomicSend

State. `conn` are the connections ever opened, with their phase; `waiting` and
`holder` the queue and the owner of the semaphore; `rest` and `awaited` the loop
of the handler that runs. Actions: `Connect`, `Receive` (answer, then
`sem.take()`), `Reset`, then one per branch of `onReceiveData` and one per send
and per settled send. `Stop` and `StopAll` keep the semaphore as the code does;
`Leave` of the observer may come with `stop()`, since its algorithm calls it when
it has the result. A peer that dies after accepting a connection may just end it:
`client.js` listens for `data` and `error` only, so the send never settles
(phase `hung`).

`AtomicSend` knows no connections, only `mailbox`, `handling`, `unsent` and `stopped` of
each process. Under the mapping the mailbox is the queue of the semaphore with the
sender and type of each message, `handling` the type of the message whose handler has
the semaphore, `unsent` what the loop has still to do *and* the sends under way, and
`stopped` is `killed`. So a message is sent when the peer answers it; it is lost when
the connection is refused or reset, or when a process dies with it, which may lose
several at once. Sends that no handler awaits, a candidate's rumor after a campaign
and a voter's feedback, are not of this kind; they are in `Election`.

### GraphGeneration

State. `degree` and `edges` are `elements` and `graph.nodes` of the generator, `pc`
is the step that comes next or how it ended. The list of elements is a function
from ids to degrees: which of the elements of equal degree come first is up to
the JavaScript engine, and the model allows each order. One action per check, one
per round of the loop (`ConnectFirstNode`: sort, then connect), then the test for
connectedness and the supporters of `ElectionGraph`. What it produces is what
`Echo` assumes of its constants. `AddressesFit` takes the edges further, through
what each process makes of the file (`Endpoints`): who its neighbours are, which
ports they have, and whether the fixed addresses that `run-election.js` sends INIT
and STOP ALL to are those of the candidates. The two agree because the candidates
have the smallest ids, and only if both have supporters.

### Confidence and ElectionResult

A voter's levels are numbers of steps of 1/`Point` up to `Full`. JavaScript's
are floating-point numbers: a tenth of a level is rounded up here, so that a level
above zero grows with each choose-me message until it is full, as it does there,
and zero stays. `OnChooseMe` and `OnCampaign` are the two updates, cut off at both
ends. `Result` is `onFinishedSnapshot`: it counts over all statuses, those of the
candidates included, which have no levels.

### Election and RumorSpread

State. Of a candidate: `started`, how many campaigns and choose-me rumors it has
begun, `kind` of each, `current` (`currentRumorId`) and `counter`
(`feedbackCounter`). Of a voter: `level` and `tellers`, the known rumors with those
that told them (`rumors[].from`). Of both: `task`, the handler that has the
semaphore and the await it stands at, `queue`, the handlers that wait, and `unsent`,
the rest of the loop in `distributeRumor`. `feedback` is what voters have begun to
send without awaiting it. `counted` and `believers` are history: whose feedback was
counted for a rumor, and who agreed with it.

Actions. `StartActivity` is `startCampaignOrChooseMeRumor` up to its first await; it
is part of `HandleInit`, of `CountFeedback` (both hold the semaphore until the rumor
is told) and of `Callback`, which nobody awaits, so that the rumor it starts is told
while further handlers run. `HandleFeedback` is `incFeedbackCounter` up to
`semaFeedbackCounter.take()`, `CountFeedback` the rest. `HearFirst` and `HearAgain`
are `processIncomingMessage` of the rumor algorithm with the voter's listener;
`Tell` is one send of the loop, which asks again before each send who has told the
rumor meanwhile. `SendFeedback` is the end of an un-awaited send. A send may fail
and a finished node drops messages (`Fault`).

Composition. A campaign is what `EchoFeedback` promises: `HearCampaign` and
`CompleteCampaign` are its `Inform` and `Finish`, and `Echo` implements it. The votes
are counted with `ElectionResult` in every state. The snapshot takes the votes of
different nodes at different times; `SupportersCount` rests on what holds of each
supporter at all times (`SupporterOK`) and so applies there, too. `RumorSpread` says
without queues and loops what the rumors do; `RumorSpreads` is the refinement.

The random draws of a candidate (`shouldISentACampaign`) are a sequence per
candidate, one of those in `Limits`; they are bounds of a behaviour and part of
its first state.

### Launcher

State. `phase` is the await in which `main()` of `run-election.js` stands; `lineCount`
and `startedNodes` are the launcher's counters; `process[c]` says how far a process
is, `pipe[c]` what it has printed and the launcher has not read, `tool` the addresses
that `tools/init.js` has still to contact. Actions: the lines a process prints
before it listens (`StartUp`: two of npm, two of its own), `Listen`, failures
(`Fail`, `Complain`), lines of the election (`Log`), the observer's last three lines
(`Report`), and of the launcher `Read`, `ReadCut`, `ReadErr`, `Contact` and `GoOn`.

A chunk is what a `data` event brings. In `Read` it is all that is in a pipe, so any
grouping of whole lines comes from when the launcher reads. In `ReadCut` it ends
inside a line, whose rest stays in the pipe, or between a line and its newline,
which stays there alone. `countNonEmptyLines` counts the parts of a text that are
not empty: both parts of a cut line, but not a newline alone. `cuts` counts the
chunks that were cut, so that the properties can say what depends on them.

## Runs

| Run | Instance | What it shows |
|---|---|---|
| `echo_graph` | the graph of `src/config/graph2.dot` (4 nodes, 5 edges, two cycles), one campaign, at most one failure | all campaign properties, refinement of `EchoFeedback`, completion without failures, handlers return |
| `echo_two` | triangle, the campaigns of two candidates at once, at most one failure | the inductive invariant `Inv`, and that campaigns that share handlers both come to their end |
| `snapshot` | two nodes with clocks 3 and 7, one message waiting at each, three more sent, margin 1 per node, at most one crash | no illegal state, agreement before clocks are forced, a complete tally, votes frozen once reported, and a result if no node dies; the inductive invariant |
| `server` | three processes in a line, the last one stopping itself, two algorithm messages between them, two requests, a crash of the middle one | handlers end, answered messages are handled, order is kept, a send may be taken for one step (`AtomicSends`), STOP ALL gets everywhere; the inductive invariant |
| `graph_generation` | all degree sequences of up to five voters, elections of up to six voters with up to six friends and three supporters | generated networks have the degrees asked for, are simple and connected, with disjoint supporters; only sequences that none of all graphs of the voters has are refused; the loop ends; the addresses the processes derive from the file fit those the launcher uses; the inductive invariant |
| `election` | both candidates with a supporter each, a voter between them, all voters friends; five scripts of draws with up to three activities, one of them with a lost message | one activity at a time, feedback counted for the rumor it is about, rumors that spread as `RumorSpread` says, votes that settle, supporters that cancel out in the count, and a candidate that goes on when enough voters have heard it; the inductive invariant |
| `launcher` | three nodes and the observer, one failure, one line of the election, one chunk that ends inside a line | when the observer starts and when INIT is sent no more processes have not said Hello than lines were cut; launching ends; stopping the candidates stops all; the inductive invariant |
| `graph_refusal`, `graph_supporters` | as `graph_generation` | a violation each, see Findings |
| `snapshot_vote_fixed` | as `snapshot`, no crash, more messages | a violation, see Findings |
| `snapshot_consistent` | as `snapshot`, no crash, more messages | a violation, see Findings |
| `launcher_finish` | as `launcher`, no failure, no line cut | a violation, see Findings |

`Inv` is in each component the inductive invariant of the section on proofs; its first
conjunct is the type invariant `TypeOK`.

`CHECK_DEADLOCK FALSE` is in every configuration because the systems do come to
rest: a campaign is over, a snapshot is taken, all processes are stopped.
Where rest would be wrong a liveness property says so.

### Bounds

`MaxFaults`, `MaxApp`, `MaxTakeSnapshot`, `MaxCrashes`, `Mortal`, `MaxAlgorithm`,
`MaxRequests`, `Backlog`, `MaxLog`, `MaxCuts`, `Limits` and `MaxActivities` are bounds
of the models, not of the code.

* Echo. What makes campaigns hard are cycles, where a node hears the campaign
  from a neighbour while it tells that neighbour, nodes with one and with several
  children, and neighbours of different depth; the graph of `graph2.dot` has all
  of these. One failure is enough to leave a counter short at any place. The
  safety properties are proved for all networks, campaigns and numbers of
  failures, so these runs only have to be good at finding mistakes, and at
  liveness.
* Snapshot. Two nodes with clocks 3 and 7 and a margin of 1 per node make the
  first proposal fail for one node, for both or for none, and the second one may
  fail again: in one instance there are refusals, mixed answers and repetitions.
  Three further messages let a node tick past a proposal at each point.
* GraphGeneration. With five nodes there are sequences that fail at each of the
  checks, ties that lead to different graphs, and degrees that fall below zero on
  the way; with six voters of two friends each, networks that fall into two parts
  or not depending on the ties.
* ServerLogic. `MaxAlgorithm` counts the algorithm messages that were sent and those
  that a loop has still to send, so no loop is ever cut short. Two neighbours of the
  line are the smallest circle of sends, and two messages from one to the other let
  the second overtake the first were it not awaited. The STOP ALL of one end has to
  pass a node that closes its server, and two requests let STOP and STOP ALL, or two
  STOP ALL, meet. The process that may die (`Mortal`) is the one in the middle: both
  others talk to it and only to it, so its death meets them as senders and as
  receivers. All safety properties are proved for any network and any deaths.
* Election. A candidate that needs two feedbacks and one that needs one, a campaign
  before, between and after rumors, and the rumors of both candidates at once: the
  feedback to an old rumor meets the next one, in the queue and in the handler, and
  rumors meet on the way. Levels of 0 to 3 with `Point` 2 have cut-offs at both
  ends, a tenth smaller than a point, and odd and even levels. All safety
  properties are proved for any bounds, so the run has to find mistakes and to
  check liveness.
* Launcher. Three nodes print twelve lines in chunks of any size; one failure may
  hit any of them, or the observer, at any stage, one chunk may end inside any line,
  and one line of the election may be in the pipe when lines of a new process are
  counted. One cut is enough to start the observer, or send INIT, one Hello too
  early; that more cuts add up and do no worse is proved.

### Fairness

Weak fairness is assumed of what the event loop runs by itself: a handler or a
loop whose promise is settled goes on; in `ServerLogic` also of TCP, which
connects to a listening process and delivers what was written. The queue of the
npm package `semaphore` behind `lib/async-semaphore.js` is served in order and is
modelled as a sequence, so no stronger fairness is needed for a handler to get
its turn. Nothing is assumed of the environment: no request, failure, crash,
discarded message or reset need ever come, and whether a campaign is started is
open as well. `HandleApp` and the sends of a node are bounded by `MaxApp`, which
is why the repeated proposals of a snapshot get ahead of the clocks; in the
program it is the doubling of the margin that does it as long as clocks do not
double in the time of one proposal.

`HandlerReturns` and `AnsweredIsHandled` of `ServerLogic` exempt a handler whose
peer died in the middle of a connection (`Hung`). That is not a weakness of the
model but of the program: there is no timeout, and such a handler keeps its
semaphore for ever.

In `Election` weak fairness is assumed of the nodes' own steps, sends included, and
of the un-awaited feedback; not of `HearCampaign` and `CompleteCampaign`, whose
progress is the business of `Echo`, nor of `HandleInit`. `GoesOn` asks that enough
voters have *heard* the current rumor, because nothing makes them hear it: voters
that do not prefer the candidate pass nothing on, so a candidate with few
supporters may wait for ever, and it exempts lost messages, which are not sent
again. In `Launcher` the processes run, the pipes are read and the launcher goes
on; no failure, warning or log line need ever come.

## Proofs

### Campaigns

`EchoProofs` proves for every `Node`, `Neighbors`, `Id`, `Initiator` and
`MaxFaults` that

* `Invariance`: `Spec => []Inv`, where `Inv` is the inductive invariant;
* `TypeCorrect`, `CompletionInformsAllHolds`, `DistributedOnceHolds`,
  `NothingPendingAtCompletionHolds`, `OneMessagePerEdgeHolds`, `EchoHasParentHolds`:
  each safety property of `Echo` that the runs check;
* `FeedbackRefined`: `Spec => FeedbackSpec`, that is, `Echo` implements
  `EchoFeedback` under the mapping "informed: has a content; complete: the callback
  has run".

The assumptions are those of `Echo`: the set of nodes is finite, the neighbour
relation is symmetric and has no loops, the network is connected, and every
initiator has a neighbour. The parser makes neighbours symmetric
(`parser/graphvizParser.js:44-45`) and the generator makes connected graphs
without loops, in which each candidate has supporters (`NetworkSuitsElection` of
`GraphGeneration`; without supporters a candidate is not in the file at all). A candidate without
neighbours would wait for ever for a message, because only a message makes a
node look at its counter.

Why an inductive invariant is needed: that all nodes are green when the
initiator is does not follow from itself. `Inv` explains the state by what the
edges have carried: `CarriedOK` and `HandledOK` (an edge carries one message per
direction, counted at most once, and the sender has turned red and ticked the
receiver off), `ParentOK` and `TreeOK` (every node that is not white heard of the
campaign from its parent, the message it sends there is its echo, and parents do
not run in a circle), together with what may be in queues, loops and handlers. The
argument for completion: a green initiator has counted a message of every
neighbour, so all its neighbours are informed. Suppose some informed node is not
done. By `TreeOK` there is one whose parent is done; but a done parent has
counted a message from it, and the only message a node sends to its parent is the
echo, which it sends last. Hence all informed nodes are done. A done node
has got a message from every neighbour, so the informed nodes have no
uninformed neighbour, and as the network is connected they are all nodes.

There is one lemma per action for `Inv`, one for the shared last part of a handler
(`CheckCounter`) and lemmas about sending; the safety properties follow from
`Inv`, and every step maps to a step of `EchoFeedback` or a stutter.

### Levels, candidates, voters and rumors

`ConfidenceProofs` proves for every `Point` and `Full` (`LevelAssumption`) that a campaign
never changes whom a voter prefers (`CampaignKeepsFavorite`), that a choose-me
message can only win a voter for its sender (`ChooseMeKeepsFavorite`), that a level
of zero stays in both cases, and that 100 and 0, with which supporters begin, are a
fixed point (`SupportersNeverWaver`).

`ElectionProofs` proves for every network, every `Receives`, all draws and any
number of lost messages (`ElectionAssumption`: finitely many voters, draws within
`MaxActivities`, which may be any number) that

* `Invariance`: `Spec => []Inv`, with `Inv` of `ElectionInvariant`;
* `OneActivityHolds`, `CountedFeedbackHolds`, `SupportersCountHolds`: the invariants of
  the run `election`;
* `OpinionsSettleHolds`: its action property;
* `RumorSpreadsHolds`: `Spec => RumorSpreads`, the refinement of `RumorSpread` under the
  mapping "told: n is among the tellers of v".

Neither symmetry nor connectedness of the network is assumed.

The inductive invariant. `CountedFeedback` needs that no feedback is counted twice,
which depends on where it has been before: `FeedbackOK` says that a voter's feedback
to a rumor is in one place at most, on its way, in the queue, in the handler that
awaits the semaphore, or counted, and only once the voter knows the rumor. So each
one that is counted is of another voter. `CounterOK` ties the only counter, which is
never reset, to these sets: modulo `Receives` it is the number of voters counted for
the current rumor, because every earlier rumor was left with exactly `Receives` of
them and feedback to it is dropped from then on. For that, what a handler holds over
its await must not be stale (`TaskOK`), and it is not because while a rumor is current
no campaign of the same candidate is open whose callback could start something
else (`ActivityOK`, `CurrentOK`). `SpreadOK` says the same of rumors as `FeedbackOK` of
feedback: what one node has to tell another is in the loop, in the queue or among
the tellers, in one of them only, it comes from a believer and goes to a friend.
This makes each step of a voter a step of `RumorSpread`. `SupporterOK` rests on
`SupportersNeverWaver`: a supporter is counted for its candidate in every state. So
the votes of a candidate are its supporters and the other voters that prefer it, two
disjoint sets, and where both candidates have as many supporters, as in each
generated network (`NetworkSuitsElection`), these cancel out and the other voters
alone decide who wins.

The proof has one lemma per action; what `HandleInit`, `Callback` and `CountFeedback`
share is `ActivityStarted` with one lemma per conjunct (`StartKeeps...`).

### Snapshot

`SnapshotProofs` proves for every number of nodes, all clocks, votes and margins, any
number of messages and crashes (`ProcAssumption`, `NumberAssumption`, and
`NoneAssumption`: the value that stands for "none" is no other value) that

* `TypeCorrect`: `Spec => []TypeOK`;
* `Invariance`, `NoIllegalStateHolds`, `AgreedBeforeForcedHolds`, `TallyIsCompleteHolds`,
  `ReportIsFrozenHolds`: the inductive invariant and each safety property the run
  `snapshot` checks, if `MaxTakeSnapshot <= 1`.

The launcher asks for one snapshot (`run-election.js:61-65`), and with a
second request in the middle of the first the hypothesis cannot be dropped: the
observer does reach an illegal state. `TypeCorrect` needs no hypothesis, so it has
a proof of its own.

The inductive invariant. `responses === expected` is the only test by which the
observer knows that a round is over, and a response does not say to which round it
belongs. `RoundOK` therefore says that a node's part in a round is open at one place
at most, as the question at the node or as the answer at the observer, and that
`expected - responses` is the number of open parts (while the loop of sends runs, the
number of those contacted is); `InboxOK` and `PhaseOK` that all of them belong to the observer's state.
From there the properties follow one from the other. Who was counted without a
refusal has accepted the proposed time (`AgreementOK`); so when clocks are forced all
living nodes have that time, and none is refused. The forced clock carries a node
to its time before it reports (`ReportOK`), and from its time on it drops what would
change its vote. The statuses counted are those reported, each by a node whose
part is closed (`TallyOK`), so at the end there is one of each living node.

### Message handler and connections

`ServerLogicProofs` proves for every network, observer and bounds (`NodeAssumption`,
`BoundAssumption`) `TypeCorrect`, `Invariance` and `InOrderHolds`;
`AtomicSendProofs` proves `AtomicSendsRefined`: `Spec => AtomicSends`, that is,
`ServerLogic` implements `AtomicSend`. Neither symmetry nor connectedness of the
network is assumed.

The inductive invariant. Order rests on the await in `sendMsgTo`: the send of a process
that is not settled is its last one and the one its handler awaits (`SendOK`), so it
is opened after all that were answered, and answering it appends it behind them. What
is in a queue was answered (`QueueOK`), queues are served from the front, so what
was handled, what has its turn and what waits are in the order of the connections
(`OrderOK`). Numbers of connections are the history here: `Before` and `Ascending` say
of any two messages of one process that the one opened first stands first.

For the refinement a connection under way has to stand for a message not yet sent,
the same one for as long as it lasts. A handler that awaits a send handles an
algorithm message, and its peer is no more in `rest` (`LoopOK`); a handler that stops
the process sends STOP ALL to each neighbour once and never leaves, so these sends
do not meet another of the same process (`FloodOK`). Hence the connections under way
from a process to another are at most one, it carries the type of what the process
handles, and its end takes the receiver out of `unsent` and nobody else. The proof has
a lemma per action: the steps of the network are `Send`, `Lose` or a stutter, the steps
of handlers are `Handle`, `Drop`, `Finish` or a stutter.

### Launcher

`LauncherProofs` proves for every number of nodes from two on, every network and any
number of failures, log lines and cut lines (`LauncherAssumption`)

* `TypeCorrect` and `Invariance`: `Spec => []Inv`, with `Inv` of `LauncherInvariant`;
* `ReadyUnlessCutHolds`: of the nodes when the observer starts, and of all processes
  when INIT is sent, no more than lines were cut have not said Hello;
* `WholeLinesAreEnough`: as long as no chunk ends inside a line, all have.

The launcher counts lines, whoever prints them, and goes on when it has counted four
per process. How far this is right needs a sum over the pipes, which the invariant
says without one: `ReadLines` is the set of the lines that were read to their end,
each as a process and the number of a line. `CountOK` says that what has been counted,
together with the four lines per node counted before the observer started, is at
most the cardinality of this set and one for each cut. It holds over a chunk because
the lines that leave the pipe are the ones that come into the set, and a chunk
counts each of its lines once and at most one that stays behind. What is counted may
be less: two chunks can end in the same line, and what exceeds four lines per node is
forgotten when the count starts again. When the count is reached, the lines of all
processes that were not read are so at most as many as the cuts, and each process
that is not ready has such a line, its Hello (`MissingCounts`). No line of the
election can be among those counted, because nobody was told to do anything before
(`QuietOK`), and a failing process prints fewer lines, never more (`Lines`).

### Graph generation

`GraphProofs` proves for every set of requests (`RequestsAssumption`) `TypeCorrect`,
`Invariance`, `DegreesAsAskedHolds`, `RefusedHasNoGraphHolds`, `NetworkSuitsElectionHolds`
and `AddressesFitHolds`.

The generator never looks whether the edge it draws is already there; a degree below
zero is its only sign that something went wrong. Why that is enough is `RoundsOK`: the
voter that is connected first has no degree left afterwards, so one of the two ends
of each edge has degree zero or less, and an edge that is drawn again leads below
zero, where it stays. As long as no degree is below zero no edge is double and the
friends a voter has plus its degree left are the degree asked for. `LowerOK` bounds the
degrees from below. `PlainOK` has symmetry and no loops, `AcceptedOK` what the checks
before the supporters establish, `GeneratedOK` which voters are made supporters: every
other one, in a range that lies within the voters. From this follow the disjoint
supporters, that the network stays connected with the candidates added, and the
addresses: the smallest ids in the file are the candidates' if and only if they have
supporters.

That nothing is refused that exists is the theorem of Havel and Hakimi. `ResidueOK`
says that if some graph has the degrees asked for, some graph has the degrees left,
and `RefusedOK` for which degrees the generator gives up, none of which a graph has: one
below zero, one as large as the number of voters, an odd number of odd ones
(`Handshake`). A round keeps `ResidueOK` because in a graph with these degrees the
friends of the voter that comes first may be taken to be those of the largest
degrees: of all such graphs the one with the fewest other friends has none
(`Preferred`), since a friend `b` that is not among them can be exchanged for one that
is, `a`, by way of a friend of `a` that `b` has not (`Exchange`, `OtherFriend`). "The one with
the fewest" is where the induction is; it is that strict inclusion of finite sets is
well-founded (`Smallest`), a fact of the library without an operator as parameter.

### Model-checked only

* Liveness, which needs fairness and ENABLED: `StartedCampaignCompletes`, `HandlerReturns`,
  `AnsweredIsHandled`, `StopAllStopsAll`, `SnapshotFinishes`, `Terminates`, `GoesOn`,
  `LaunchCompletes`, `NobodyLeftRunning`.
* That `Echo` implements `EchoFeedback` is proved; that `Election` over `EchoFeedback`
  behaves as `Election` over `Echo` would is the meaning of the composition and not a
  theorem. The same holds of the algorithms over `AtomicSend`.

All other properties of passing runs are theorems.

## Findings

* A voter that has reached its snapshot time votes on (`snapshot_vote_fixed`). When
  another node refuses the proposal, the observer proposes a later time and the
  voter, which has meanwhile passed the first one and noted its
  `finishedTimestamp`, replaces its `snapshotTimestamp` and is open to campaigns
  again. The assignment (`src/uebung02.pdf`, page 3) asks that a node that passes
  a given time fixes its choice. The votes counted are those at the last time.
* The snapshot is not consistent (`snapshot_consistent`). A node looks whether it is
  finished when a message comes in, not in the loops that send. It may pass the
  agreed time in the middle of a loop and tell a neighbour that has not reached
  it, whose vote may so depend on an event after the cut. `src/README.md:178` speaks
  of a consistent snapshot.
* The generator does not refuse degrees that are too large (`graph_refusal`).
  `tools/helpers/hakimiGraphGenerator.js:45` subtracts 1 from the list, not from its
  length, and compares degrees with NaN. Such input ends in a TypeError further on.
* One supporter fewer than described (`graph_supporters`). `src/README.md:145-146` says
  that a random node *and* the 2 * s nodes after it become supporters, 2 * s + 1 in
  all. `tools/helpers/electionGraph.js:50-52` ends with the 2 * s-th, so that each
  candidate has s, as the help text says (`src/README.md:163`).
* The launcher may miss the result (`launcher_finish`). The observer prints the line
  of its last snapshot message, the FINISH line and the SHUTDOWN line in one handler;
  `process-helpers/spawn-election-nodes.js:78` looks whether a *chunk* starts with
  FINISH. When two lines come in one chunk, `main()` waits for ever and stops nobody,
  although `src/README.md:178-179` says that all processes are ended as soon as a
  result is available.

`ReadyUnlessCut` says how far one more sentence of the documentation is true:
`src/README.md:175-177` has the observer started when the output tells that all nodes
are ready. A line that comes in two chunks is counted twice
(`process-helpers/spawn-election-nodes.js:69, 84-86`), and each such line may let the
launcher go on with one Hello missing. A Hello, moreover, is printed before the
process listens (`run-node.js:50`).

## Not modelled

* TCP segments: `lib/server.js:26` parses each `data` event as one JSON object.
* `GET_STATUS`, log lines, the JSON form of clocks.
* The random ids of campaigns and rumors are taken to be fresh.
* A second `take-snapshot` while one runs: `MaxTakeSnapshot` is 1 in the runs. With
  2 the observer does reach an illegal state; see Plan.
* A second INIT to a candidate. The launcher sends one; a user of `tools/init.js` may
  send more, and the feedback to the rumor that is then replaced stays in the
  counter, so that `CountedFeedback` would not hold.
* In `Snapshot` every loop of sends holds its node's semaphore, and in `ServerLogic` a
  handler awaits all its sends. The loops that do not, a candidate's rumor after a
  campaign and a voter's feedback, are in `Election`, without clocks.
* The fields `believe` and `onMessageProcessed` of the rumor algorithm: nothing in
  `src/` outside of tests uses them.
* The parsers' regular expressions, the file of endpoints (`--endpointFilename`) and
  the duplicate edges it or a hand-written graph may bring: `Endpoints` takes the
  edges as parsed, with their number of lines.
* The text of the lines a process prints. The launcher takes the eleventh word of
  the FINISH line (`process-helpers/spawn-election-nodes.js:79`), which is the right one
  if the date before it has as many words as in the authors' time zone.
* That `exec` fails, the delays of the launcher, its options, `EdgeGenerator` (used by
  its own test only), the writer of graph files, console and file helpers.

## Plan

Done, in this order: `Echo` with `EchoFeedback`, `EchoInvariant` and `EchoProofs`, because
campaigns are the heart of the program; `VectorTime` and `Snapshot`, the largest state
machine; `ServerLogic`, on which both rest; `GraphGeneration`, which gives the
campaigns the network they assume; then `Confidence`, `ElectionResult`, `RumorSpread`
and `Election`, which put the parts together, with their proofs; `Endpoints`; `Launcher`;
the invariants and proofs of `Snapshot`, `ServerLogic`, `Launcher` and `GraphGeneration`;
`AtomicSend`, which `ServerLogic` is proved to implement.

To come:

1. An abstract specification of the snapshot: propose until all agree, force, collect.
2. A run for the second `take-snapshot`, and one for a second INIT.
