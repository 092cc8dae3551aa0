-------------------------------- MODULE Echo --------------------------------
(***************************************************************************)
(* The campaigns of the candidates: lib/algorithm/echoAlgorithm.js and     *)
(* echoStates.js on every node, driven by the message handler of           *)
(* network-core/serverLogic.js.                                            *)
(*                                                                         *)
(* A campaign is one echo id.  A node that hears of it for the first time  *)
(* turns red and sends explorers to all neighbours but the one it heard    *)
(* from; when as many messages have arrived as it has neighbours it turns  *)
(* green and echoes to the first neighbour.  The initiator, when green,    *)
(* runs its onEchoDistributed callback, from which the candidate starts    *)
(* its next campaign or rumor.                                             *)
(*                                                                         *)
(* A node handles one message at a time (the semaphore of ServerLogic),    *)
(* the others wait in a queue.  The handler stays busy across the awaits   *)
(* of its sends; a send ends when the peer has put the message into its    *)
(* queue, because the peer acknowledges before it waits for its semaphore. *)
(* Only the initiator's own sending loop is a thread of its own: restarted *)
(* from the callback, it runs outside the semaphore (candidate.js:68-71).  *)
(* A campaign started by the INIT handler runs under the semaphore and has *)
(* fewer interleavings, all of them included here.                         *)
(***************************************************************************)
EXTENDS Integers, Sequences, FiniteSets

CONSTANTS Node,       \* ids of the nodes, candidates included
          Neighbors,  \* [Node -> SUBSET Node], the graph of the .dot file
          Id,         \* the echo ids that are ever generated
          Initiator,  \* [Id -> Node], the candidate that draws the id
          MaxFaults,  \* bound: failed sends, discarded messages, crashes
          None,       \* null
          NoContent   \* '', the content of an echo message

ASSUME NodeAssumption ==
  /\ IsFiniteSet(Node)
  /\ None \notin Node /\ NoContent \notin Node /\ None # NoContent
ASSUME NeighborsAssumption ==
  /\ Neighbors \in [Node -> SUBSET Node]
  /\ \A m, n \in Node : m \in Neighbors[n] <=> n \in Neighbors[m]
  /\ \A n \in Node : n \notin Neighbors[n]
ASSUME ConnectedAssumption ==
  \A S \in SUBSET Node : (S # {} /\ S # Node) =>
     \E m \in S, n \in Node \ S : n \in Neighbors[m]
ASSUME InitiatorAssumption ==
  /\ Initiator \in [Id -> Node]
  /\ \A id \in Id : Neighbors[Initiator[id]] # {}
ASSUME MaxFaultsAssumption == MaxFaults \in Nat

(***************************************************************************)
(* The content of a campaign is the id of its candidate, that of an echo   *)
(* is ''.  The type of a message ('explorer' or 'echo') is never read, so  *)
(* it is left out.                                                         *)
(***************************************************************************)
Content(id) == Initiator[id]
Contents    == {NoContent} \cup Node
Message     == [id : Id, from : Node, content : Contents]

IdleTask    == [pc |-> "idle", id |-> None, from |-> None]
Task        == {IdleTask} \cup [pc : {"explore", "echo"}, id : Id, from : Node]

VARIABLES
  state,           \* [Node -> [Id -> colour]]          EchoState.state
  counter,         \* [Node -> [Id -> Nat]]             EchoState.counter
  firstNeighborId, \* [Node -> [Id -> Node or None]]    EchoState.firstNeighborId
  message,         \* [Node -> [Id -> content or None]] EchoState.message
  unsent,          \* [Node -> [Id -> SUBSET Node]] neighbours the loop of sendExplorer has still to reach
  task,            \* [Node -> Task] the handler that holds the semaphore
  queue,           \* [Node -> Seq(Message)] handlers waiting for it, FIFO
  alive,           \* SUBSET Node: the processes that run
  distributed,     \* [Id -> Nat] calls of onEchoDistributed
  faults,          \* faults so far
  carried,         \* history: [Id -> [Node -> [Node -> Nat]]] messages from one node put into the queue of another
  handled          \* history: [Node -> [Id -> SUBSET Node]] senders whose message was counted

echoState == <<state, counter, firstNeighborId, message>>
history   == <<carried, handled>>
vars == <<echoState, unsent, task, queue, alive, distributed, faults, history>>

TypeOK ==
  /\ state \in [Node -> [Id -> {"white", "red", "green"}]]
  /\ counter \in [Node -> [Id -> Nat]]
  /\ firstNeighborId \in [Node -> [Id -> Node \cup {None}]]
  /\ message \in [Node -> [Id -> Contents \cup {None}]]
  /\ unsent \in [Node -> [Id -> SUBSET Node]]
  /\ task \in [Node -> Task]
  /\ queue \in [Node -> Seq(Message)]
  /\ alive \in SUBSET Node
  /\ distributed \in [Id -> Nat]
  /\ faults \in Nat
  /\ carried \in [Id -> [Node -> [Node -> Nat]]]
  /\ handled \in [Node -> [Id -> SUBSET Node]]

Init ==
  /\ state = [n \in Node |-> [id \in Id |-> "white"]]
  /\ counter = [n \in Node |-> [id \in Id |-> 0]]
  /\ firstNeighborId = [n \in Node |-> [id \in Id |-> None]]
  /\ message = [n \in Node |-> [id \in Id |-> None]]
  /\ unsent = [n \in Node |-> [id \in Id |-> {}]]
  /\ task = [n \in Node |-> IdleTask]
  /\ queue = [n \in Node |-> <<>>]
  /\ alive = Node
  /\ distributed = [id \in Id |-> 0]
  /\ faults = 0
  /\ carried = [id \in Id |-> [m \in Node |-> [n \in Node |-> 0]]]
  /\ handled = [n \in Node |-> [id \in Id |-> {}]]

-----------------------------------------------------------------------------
(* Sending: EchoAlgorithm.sendMsg through ServerLogic.sendMsgTo.           *)

\* Plausible mistake: acknowledge only when the semaphore is free.
AcknowledgeWhenFree(n, m, msg) ==
  /\ m \in alive /\ task[m].pc = "idle" /\ queue[m] = <<>>
  /\ queue' = [queue EXCEPT ![m] = Append(@, msg)]
  /\ carried' = [carried EXCEPT ![msg.id][n][m] = @ + 1]
  /\ UNCHANGED faults

\* The peer's process accepts the connection, acknowledges and queues the
\* message behind its semaphore.
Deliver(n, m, msg) ==
  /\ m \in alive
  /\ queue' = [queue EXCEPT ![m] = Append(@, msg)]
  /\ carried' = [carried EXCEPT ![msg.id][n][m] = @ + 1]
  /\ UNCHANGED faults

\* A send that fails is logged and swallowed; the algorithm is not told.
Lose(n, m) ==
  /\ \/ m \notin alive /\ UNCHANGED faults
     \/ m \in alive /\ faults < MaxFaults /\ faults' = faults + 1
  /\ UNCHANGED <<queue, carried>>

Send(n, m, msg) == Deliver(n, m, msg) \/ Lose(n, m)

\* The neighbours that sendExplorer visits; skip is the sender, or None.
NoSkip(n, skip) == Neighbors[n]                  \* a plausible mistake
ExplorerTargets(n, skip) == Neighbors[n] \ {skip}

-----------------------------------------------------------------------------
(* The initiator.                                                          *)

\* initEcho, up to its first send.
InitEcho(id) ==
  LET n == Initiator[id] IN
  /\ n \in alive
  /\ message[n][id] = None
  /\ message' = [message EXCEPT ![n][id] = Content(id)]
  /\ state' = [state EXCEPT ![n][id] = "red"]
  /\ unsent' = [unsent EXCEPT ![n][id] = ExplorerTargets(n, None)]
  /\ UNCHANGED <<counter, firstNeighborId, task, queue, alive, distributed,
                 faults, history>>

\* One round of the loop of sendExplorer on node n.
SendExplorer(n, id, m) ==
  /\ m \in unsent[n][id]
  /\ unsent' = [unsent EXCEPT ![n][id] = @ \ {m}]
  /\ Send(n, m, [id |-> id, from |-> n, content |-> message[n][id]])
  /\ UNCHANGED <<echoState, task, alive, distributed, handled>>

\* The initiator's loop, a thread next to the node's message handler.
InitiatorSend(id) ==
  /\ Initiator[id] \in alive
  /\ \E m \in unsent[Initiator[id]][id] : SendExplorer(Initiator[id], id, m)

-----------------------------------------------------------------------------
(* The message handler of a node.                                          *)

\* Plausible mistake: handle a message although another one is at an await.
NoSemaphore(n) == n \in alive

\* sem.take() succeeds: no handler of this node is between take and leave.
Free(n) == n \in alive /\ task[n].pc = "idle"

\* As many messages as neighbours have come in, and two plausible mistakes.
ParentNotCounted(n, c)  == c = Cardinality(Neighbors[n]) - 1
AtLeastChildren(n, c)   == c >= Cardinality(Neighbors[n]) - 1
AllHeard(n, c)          == c = Cardinality(Neighbors[n])

\* The last part of processIncomingMsg, c being the counter by now: the
\* neighbour count is reached exactly once, then the node is green, and the
\* initiator runs its callback while the others go on to send the echo.
CheckCounter(n, id, c, from) ==
  IF AllHeard(n, c)
  THEN /\ state' = [state EXCEPT ![n][id] = "green"]
       /\ IF n = Initiator[id]
          THEN /\ distributed' = [distributed EXCEPT ![id] = @ + 1]
               /\ task' = [task EXCEPT ![n] = IdleTask]
          ELSE /\ task' = [task EXCEPT ![n] =
                             [pc |-> "echo", id |-> id, from |-> from]]
               /\ UNCHANGED distributed
  ELSE /\ task' = [task EXCEPT ![n] = IdleTask]
       /\ UNCHANGED <<state, distributed>>

\* Take the first waiting message: the start of processIncomingMsg, which
\* stores the content when there is none yet and counts the message.
Accept(n, msg) ==
  /\ Free(n)
  /\ queue[n] # <<>>
  /\ msg = Head(queue[n])
  /\ queue' = [queue EXCEPT ![n] = Tail(@)]
  /\ message' = [message EXCEPT ![n][msg.id] = IF @ = None THEN msg.content ELSE @]
  /\ counter' = [counter EXCEPT ![n][msg.id] = @ + 1]
  /\ handled' = [handled EXCEPT ![n][msg.id] = @ \cup {msg.from}]
  /\ UNCHANGED <<firstNeighborId, alive, faults, carried>>

\* The first message of a campaign: turn red and start the loop of
\* sendExplorer, keeping the semaphore.
ProcessFirst(n) ==
  LET msg == Head(queue[n]) IN
    /\ Accept(n, msg)
    /\ state[n][msg.id] = "white"
    /\ state' = [state EXCEPT ![n][msg.id] = "red"]
    /\ unsent' = [unsent EXCEPT ![n][msg.id] = ExplorerTargets(n, msg.from)]
    /\ task' = [task EXCEPT ![n] =
                  [pc |-> "explore", id |-> msg.id, from |-> msg.from]]
    /\ UNCHANGED distributed

\* A later message of a campaign: only the counter is checked.
ProcessNext(n) ==
  LET msg == Head(queue[n]) IN
    /\ Accept(n, msg)
    /\ state[n][msg.id] # "white"
    /\ CheckCounter(n, msg.id, counter[n][msg.id] + 1, msg.from)
    /\ UNCHANGED unsent

\* The handler's loop of sendExplorer.
HandlerSend(n) ==
  /\ n \in alive
  /\ task[n].pc = "explore"
  /\ \E m \in unsent[n][task[n].id] : SendExplorer(n, task[n].id, m)

\* The loop ended: the first neighbour is recorded only now, after the
\* awaits, and then the counter is checked.
FinishExploring(n) ==
  LET t == task[n] IN
  /\ n \in alive
  /\ t.pc = "explore"
  /\ unsent[n][t.id] = {}
  /\ firstNeighborId' = [firstNeighborId EXCEPT ![n][t.id] = t.from]
  /\ CheckCounter(n, t.id, counter[n][t.id], t.from)
  /\ UNCHANGED <<counter, message, unsent, queue, alive, faults, history>>

\* sendEchoTo(getFirstNeighborId()), then the semaphore is released.
\* _getNeighborById throws for an id that is not a neighbour: see
\* EchoHasParent.
SendEcho(n) ==
  LET t == task[n]
      parent == firstNeighborId[n][t.id] IN
  /\ n \in alive
  /\ t.pc = "echo"
  /\ task' = [task EXCEPT ![n] = IdleTask]
  /\ Send(n, parent, [id |-> t.id, from |-> n, content |-> NoContent])
  /\ UNCHANGED <<echoState, unsent, alive, distributed, handled>>

\* A node whose snapshot time is reached handles control and snapshot
\* messages only: the campaign message is taken from the queue and dropped.
\* The clock is not modelled here, so any message may meet that fate.
Discard(n) ==
  /\ Free(n)
  /\ queue[n] # <<>>
  /\ faults < MaxFaults
  /\ faults' = faults + 1
  /\ queue' = [queue EXCEPT ![n] = Tail(@)]
  /\ UNCHANGED <<echoState, unsent, task, alive, distributed, history>>

\* The process of a node ends, at any point of its handler; nobody restarts it.
Crash(n) ==
  /\ n \in alive
  /\ faults < MaxFaults
  /\ faults' = faults + 1
  /\ alive' = alive \ {n}
  /\ UNCHANGED <<echoState, unsent, task, queue, distributed, history>>

-----------------------------------------------------------------------------
HandlerStep(n) ==
  ProcessFirst(n) \/ ProcessNext(n) \/ HandlerSend(n) \/ FinishExploring(n) \/ SendEcho(n)

Next ==
  \/ \E id \in Id : InitEcho(id) \/ InitiatorSend(id)
  \/ \E n \in Node : HandlerStep(n) \/ Discard(n) \/ Crash(n)

\* A promise that can settle is settled by the event loop, and the queue of
\* the semaphore is served in order; whether a campaign is started, and
\* whether anything fails, is up to the environment.
Fairness ==
  /\ \A n \in Node : WF_vars(HandlerStep(n))
  /\ \A id \in Id : WF_vars(InitiatorSend(id))

Spec     == Init /\ [][Next]_vars
FairSpec == Spec /\ Fairness
-----------------------------------------------------------------------------
(* Properties.                                                             *)

Complete(id) == distributed[id] > 0

\* When the callback of a campaign runs, the campaign is over on every node:
\* all are green and all have taken the content of the initiator for the
\* campaign, never the '' of an echo that overtook the explorers
\* (echoAlgorithm.js:64-65, 79; test 'makes all nodes green').
CompletionInformsAll ==
  \A id \in Id : Complete(id) =>
    \A n \in Node : state[n][id] = "green" /\ message[n][id] = Content(id)

\* onEchoDistributed runs at most once for a campaign: a second call would
\* start a second chain of campaigns of the candidate (candidate.js:68-71).
DistributedOnce == \A id \in Id : distributed[id] <= 1

\* Nothing of a campaign is under way once its callback ran, although
\* messages reach a node while it still sends: no queue holds one, no handler
\* works on one, no loop has a neighbour left, and every edge has carried
\* exactly one message in each direction (test 'sends the correct amount of
\* messages', which counts 12 in a network of 6 edges).
NothingPendingAtCompletion ==
  \A id \in Id : Complete(id) =>
    /\ \A n \in Node : /\ \A m \in Neighbors[n] : carried[id][n][m] = 1
                       /\ unsent[n][id] = {}
                       /\ task[n].pc # "idle" => task[n].id # id
                       /\ \A i \in 1..Len(queue[n]) : queue[n][i].id # id

\* No edge carries two messages of a campaign in the same direction, and a
\* node never counts more messages than it has neighbours: the counter is
\* compared with ===, a count beyond would leave the campaign open for ever
\* (echoAlgorithm.js:79).
OneMessagePerEdge ==
  \A id \in Id, n \in Node :
    /\ \A m \in Node : carried[id][n][m] <= (IF m \in Neighbors[n] THEN 1 ELSE 0)
    /\ counter[n][id] <= Cardinality(Neighbors[n])

\* The echo goes to a neighbour that is itself informed and, until it gets
\* the echo, not green.  firstNeighborId is written after the awaits of the
\* loop (echoAlgorithm.js:75-76), so a handler that came in between would find
\* null and _getNeighborById would throw (lines 132-140).
EchoHasParent ==
  \A n \in Node : task[n].pc = "echo" =>
    LET parent == firstNeighborId[n][task[n].id] IN
    /\ parent \in Neighbors[n]
    /\ state[parent][task[n].id] = "red"

\* A campaign that was started is reported back to its candidate unless
\* something failed: without the callback the candidate never acts again.
StartedCampaignCompletes ==
  \A id \in Id : (message[Initiator[id]][id] # None) ~> (Complete(id) \/ faults > 0)

\* Whatever fails between two sends, a handler gives the semaphore back (or
\* its process is gone): two nodes that send to each other do not wait for
\* each other, since a peer acknowledges before it takes its semaphore.  A
\* peer that dies in the middle of a connection is in ServerLogic.
HandlerReturns ==
  \A n \in Node : (task[n].pc # "idle") ~> (task[n].pc = "idle" \/ n \notin alive)

\* A campaign implements the propagation of information with feedback of
\* EchoFeedback, faults included: failures may keep it from completing, but
\* never make it complete too early.
Feedback == INSTANCE EchoFeedback WITH
  informed <- [id \in Id |-> {n \in Node : message[n][id] # None}],
  complete <- [id \in Id |-> Complete(id)]

FeedbackSpec == Feedback!Spec
=============================================================================
