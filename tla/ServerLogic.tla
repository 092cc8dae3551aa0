---------------------------- MODULE ServerLogic ----------------------------
(***************************************************************************)
(* The message handler every node shares: network-core/serverLogic.js with *)
(* lib/client.js, lib/server.js and lib/async-semaphore.js.  Echo and      *)
(* Snapshot abstract from what happens here between the start and the end  *)
(* of a send; this module has every step of it.                            *)
(*                                                                         *)
(* A message has a TCP connection of its own.  The sender connects, writes *)
(* and waits for the answer, which the receiver gives before it queues for *)
(* its semaphore.  A handler of an algorithm message sends to some of its  *)
(* neighbours, one after the other, and leaves the semaphore.  STOP closes *)
(* the server and keeps the semaphore for ever; STOP ALL is first sent to  *)
(* all neighbours, without waiting for the answers.                        *)
(***************************************************************************)
EXTENDS Integers, Sequences, FiniteSets

CONSTANTS Node,         \* ids of the processes
          Neighbors,    \* [Node -> SUBSET Node]
          Observer,     \* the process that stops itself when its result is there
          User,         \* tools/init.js
          MaxAlgorithm, \* bound: algorithm messages that handlers send
          MaxRequests,  \* bound: messages of the user
          Mortal        \* bound: the processes that may crash

ASSUME NodeAssumption ==
  /\ IsFiniteSet(Node) /\ User \notin Node /\ Observer \in Node
  /\ Neighbors \in [Node -> SUBSET Node]
ASSUME BoundAssumption ==
  MaxAlgorithm \in Nat /\ MaxRequests \in Nat /\ Mortal \subseteq Node

VARIABLES
  conn,    \* Seq of [from, to, type, phase]: the connections ever opened
  waiting, \* [Node -> Seq(index of conn)] handlers behind sem.take()
  holder,  \* [Node -> index of conn or 0] the handler that holds the semaphore
  rest,    \* [Node -> SUBSET Node] whom that handler has still to send to
  awaited, \* [Node -> index of conn or 0] the send it waits for
  killed,  \* [Node -> BOOLEAN]; the server is closed with it
  alive,   \* SUBSET Node: processes that have not crashed
  handled  \* history: [Node -> Seq(index of conn)], in the order they got its semaphore

vars == <<conn, waiting, holder, rest, awaited, killed, alive, handled>>

Types  == {"algorithm", "STOP", "STOP ALL"}
\* "acked": answered; "failed": the send threw; "hung": the peer's end closed
\* without an answer and without an error, so the promise never settles.
Phases == {"connecting", "connected", "acked", "failed", "hung"}
Connection == [from : Node \cup {User}, to : Node, type : Types, phase : Phases]
Index == 1..Len(conn)

TypeOK ==
  /\ conn \in Seq(Connection)
  /\ waiting \in [Node -> Seq(Index)]
  /\ holder \in [Node -> 0..Len(conn)]
  /\ rest \in [Node -> SUBSET Node]
  /\ awaited \in [Node -> 0..Len(conn)]
  /\ killed \in [Node -> BOOLEAN]
  /\ alive \subseteq Node
  /\ handled \in [Node -> Seq(Index)]

Init ==
  /\ conn = <<>>
  /\ waiting = [n \in Node |-> <<>>]
  /\ holder = [n \in Node |-> 0]
  /\ rest = [n \in Node |-> {}]
  /\ awaited = [n \in Node |-> 0]
  /\ killed = [n \in Node |-> FALSE]
  /\ alive = Node
  /\ handled = [n \in Node |-> <<>>]

-----------------------------------------------------------------------------
(* Connections.                                                            *)

\* Plausible mistake: the sender's endpoint instead of the receiver's.
Swapped(from, to, type) == [from |-> to, to |-> from, type |-> type, phase |-> "connecting"]

Opened(from, to, type) == [from |-> from, to |-> to, type |-> type, phase |-> "connecting"]

\* Connections to a set of processes, in some order.
OpenedAll(from, S, type) ==
  LET order == CHOOSE f \in [1..Cardinality(S) -> S] : \A m \in S : \E i \in DOMAIN f : f[i] = m
  IN  [i \in 1..Cardinality(S) |-> Opened(from, order[i], type)]

\* connect() succeeds while the peer listens; the message is written at once.
Connect(c) ==
  LET up == conn[c].to \in alive /\ ~killed[conn[c].to] IN
  /\ conn[c].phase = "connecting"
  /\ conn' = [conn EXCEPT ![c].phase = IF up THEN "connected" ELSE "failed"]
  /\ UNCHANGED <<waiting, holder, rest, awaited, killed, alive, handled>>

\* Plausible mistake: take the semaphore first, then answer.
AfterTake(n) == n \in alive /\ holder[n] = 0 /\ waiting[n] = <<>>

\* When onReceiveData answers: as soon as the data is there.
AtOnce(n) == n \in alive

\* The data event of the peer: the answer is written, then the handler waits
\* for the semaphore.  A connection accepted before close() is still served.
Receive(c) ==
  LET n == conn[c].to IN
  /\ conn[c].phase = "connected"
  /\ AtOnce(n)
  /\ conn' = [conn EXCEPT ![c].phase = "acked"]
  /\ waiting' = [waiting EXCEPT ![n] = Append(@, c)]
  /\ UNCHANGED <<holder, rest, awaited, killed, alive, handled>>

\* close() drops a connection that the server has not accepted yet.
Reset(c) ==
  /\ conn[c].phase = "connected"
  /\ killed[conn[c].to]
  /\ conn' = [conn EXCEPT ![c].phase = "failed"]
  /\ UNCHANGED <<waiting, holder, rest, awaited, killed, alive, handled>>

\* The user sends a message, as the tools do: init, msg, stop, stop all.
Request(n, type) ==
  /\ Cardinality({c \in Index : conn[c].from = User}) < MaxRequests
  /\ conn' = Append(conn, Opened(User, n, type))
  /\ UNCHANGED <<waiting, holder, rest, awaited, killed, alive, handled>>

\* A process dies: what it was sending is not connected any more, and an open
\* connection to it ends with an error or just ends.
Crash(n) ==
  /\ n \in alive \cap Mortal
  /\ alive' = alive \ {n}
  /\ \E end \in {"failed", "hung"} :
       conn' = [c \in Index |->
         IF conn[c].to = n /\ conn[c].phase = "connected" THEN [conn[c] EXCEPT !.phase = end]
         ELSE IF conn[c].from = n /\ conn[c].phase = "connecting" THEN [conn[c] EXCEPT !.phase = "failed"]
         ELSE conn[c]]
  /\ UNCHANGED <<waiting, holder, rest, awaited, killed, handled>>

-----------------------------------------------------------------------------
(* The handler.                                                            *)

\* sem.take() of the first handler in the queue.
Take(n, c) ==
  /\ n \in alive
  /\ holder[n] = 0
  /\ waiting[n] # <<>>
  /\ c = Head(waiting[n])
  /\ waiting' = [waiting EXCEPT ![n] = Tail(@)]

\* Plausible mistake: no check of killed after the semaphore.
AlwaysProceed(n) == TRUE

Proceed(n) == ~killed[n]

\* A stopped process gives the semaphore straight back.
DropWhenKilled(n) ==
  /\ \E c \in Index : Take(n, c)
  /\ ~Proceed(n)
  /\ UNCHANGED <<conn, holder, rest, awaited, killed, alive, handled>>

\* Messages that handlers have sent or are going to send.
AlgorithmSends ==
  Cardinality({c \in Index : conn[c].from \in Node /\ conn[c].type = "algorithm"})
    + Cardinality({e \in Node \X Node : e[2] \in rest[e[1]]})

StartAlgorithm(n) ==
  \E c \in Index :
    /\ Take(n, c)
    /\ Proceed(n)
    /\ conn[c].type = "algorithm"
    /\ holder' = [holder EXCEPT ![n] = c]
    /\ handled' = [handled EXCEPT ![n] = Append(@, c)]
    /\ \E S \in SUBSET Neighbors[n] :
         AlgorithmSends + Cardinality(S) <= MaxAlgorithm /\ rest' = [rest EXCEPT ![n] = S]
    /\ UNCHANGED <<conn, awaited, killed, alive>>

\* The semaphore is not given back.
Stop(n) ==
  \E c \in Index :
    /\ Take(n, c)
    /\ Proceed(n)
    /\ conn[c].type = "STOP"
    /\ holder' = [holder EXCEPT ![n] = c]
    /\ handled' = [handled EXCEPT ![n] = Append(@, c)]
    /\ killed' = [killed EXCEPT ![n] = TRUE]
    /\ UNCHANGED <<conn, rest, awaited, alive>>

\* Plausible mistake: a return inside of the loop.
FirstNeighborOnly(n) == {CHOOSE m \in Neighbors[n] : TRUE}

FloodTargets(n) == Neighbors[n]

\* The loop of sendStopSignalToNeighbors awaits nothing, so all connections
\* are under way when the server is closed.
StopAll(n) ==
  \E c \in Index :
    /\ Take(n, c)
    /\ Proceed(n)
    /\ conn[c].type = "STOP ALL"
    /\ holder' = [holder EXCEPT ![n] = c]
    /\ handled' = [handled EXCEPT ![n] = Append(@, c)]
    /\ killed' = [killed EXCEPT ![n] = TRUE]
    /\ conn' = conn \o OpenedAll(n, FloodTargets(n), "STOP ALL")
    /\ UNCHANGED <<rest, awaited, alive>>

Busy(n) == holder[n] # 0 /\ conn[holder[n]].type = "algorithm"

\* The next send of the algorithm's loop.
SendNext(n, m) ==
  /\ n \in alive
  /\ Busy(n) /\ awaited[n] = 0 /\ m \in rest[n]
  /\ rest' = [rest EXCEPT ![n] = @ \ {m}]
  /\ conn' = Append(conn, Opened(n, m, "algorithm"))
  /\ awaited' = [awaited EXCEPT ![n] = Len(conn) + 1]
  /\ UNCHANGED <<waiting, holder, killed, alive, handled>>

\* Plausible mistake: the send is not awaited.
NotAwaited(c) == TRUE

\* The promise of a send is settled; an error has been caught and logged.
Settled(c) == conn[c].phase \in {"acked", "failed"}

Continue(n) ==
  /\ n \in alive
  /\ awaited[n] # 0
  /\ Settled(awaited[n])
  /\ awaited' = [awaited EXCEPT ![n] = 0]
  /\ UNCHANGED <<conn, waiting, holder, rest, killed, alive, handled>>

\* Plausible mistake: an early return of the handler without sem.leave().
NoLeave(n, c) == c

\* Who holds the semaphore after the handler of c is through: nobody.
AfterLeave(n, c) == 0

\* The algorithm is through: nobody is left to send to.
Leave(n) ==
  /\ n \in alive
  /\ Busy(n) /\ awaited[n] = 0 /\ rest[n] = {}
  /\ holder' = [holder EXCEPT ![n] = AfterLeave(n, holder[n])]
  \* the observer's algorithm calls stop() when it has its result
  /\ \/ UNCHANGED killed
     \/ n = Observer /\ killed' = [killed EXCEPT ![n] = TRUE]
  /\ UNCHANGED <<conn, waiting, rest, awaited, alive, handled>>

HandlerStep(n) ==
  \/ DropWhenKilled(n) \/ StartAlgorithm(n) \/ Stop(n) \/ StopAll(n)
  \/ Continue(n) \/ Leave(n)
  \/ \E m \in Node : SendNext(n, m)

NetworkStep == \E c \in Index : Connect(c) \/ Receive(c)

Next ==
  \/ NetworkStep
  \/ \E c \in Index : Reset(c)
  \/ \E n \in Node : HandlerStep(n) \/ Crash(n) \/ \E type \in Types : Request(n, type)

\* TCP answers a connect and delivers what was written, the event loop runs
\* what is ready; requests, resets and crashes come as they like.
Fairness == WF_vars(NetworkStep) /\ \A n \in Node : WF_vars(HandlerStep(n))

Spec == Init /\ [][Next]_vars /\ Fairness

-----------------------------------------------------------------------------
(* Properties.                                                             *)

\* A connection to n ended without answer and without error.
Hung(n) == awaited[n] # 0 /\ conn[awaited[n]].phase = "hung"

\* A handler comes to its end, although handlers send to each other in
\* circles while they hold their semaphores (serverLogic.js:53-58).  The one
\* exception is a peer that dies after it accepted the connection: client.js
\* has no handler for the end of a connection.
HandlerReturns ==
  \A n \in Node : Busy(n) ~> (~Busy(n) \/ n \notin alive \/ Hung(n))

\* The answer is a promise: a message that was answered gets its turn, unless
\* its process has stopped, died or hangs (serverLogic.js:56-58, 92).
AnsweredIsHandled ==
  \A n \in Node :
    (waiting[n] # <<>>) ~> (waiting[n] = <<>> \/ killed[n] \/ n \notin alive \/ Hung(n))

HandledType(n, type) == \E i \in 1..Len(handled[n]) : conn[handled[n][i]].type = type

\* STOP ALL stops every process of a connected network, although a process
\* closes its server at once and its neighbours do the same meanwhile,
\* provided that none was stopped on its own before and none died
\* (init.js:90 "stop all: Stop all rumor nodes").
StopAllStopsAll ==
  (\E n \in Node : HandledType(n, "STOP ALL"))
    ~> \/ \A n \in Node : killed[n]
       \/ alive # Node
       \/ \E n \in Node : HandledType(n, "STOP")
       \/ killed[Observer] /\ ~HandledType(Observer, "STOP ALL")

\* What one process sends to another is handled in the order it was sent,
\* although each message has a connection of its own: a send is awaited until
\* the message is in the queue, and the queue is FIFO.
InOrder ==
  \A n \in Node : \A i, j \in 1..Len(handled[n]) :
    LET c == handled[n][i]
        d == handled[n][j] IN
    (/\ conn[c].type = "algorithm" /\ conn[d].type = "algorithm"
     /\ conn[c].from \in Node
     /\ conn[c].from = conn[d].from
     /\ c < d) => i < j

\* The message handler implements the atomic sends that the models of the
\* algorithms are written over: a send happens when the peer answers, it is
\* lost when it is refused, and the await of the answer (serverLogic.js:149)
\* keeps the sender's loop and its handler from running ahead of it.
InFlight(c) == conn[c].phase \in {"connecting", "connected"}

Mail == [c \in Index |-> [from |-> conn[c].from, type |-> conn[c].type]]

Mailbox  == [n \in Node |-> [i \in 1..Len(waiting[n]) |-> Mail[waiting[n][i]]]]
Handling == [n \in Node |-> IF holder[n] = 0 THEN "nothing" ELSE conn[holder[n]].type]
Unsent   == [n \in Node |-> rest[n] \cup {m \in Node : \E c \in Index :
               conn[c].from = n /\ conn[c].to = m /\ InFlight(c)}]

Sends == INSTANCE AtomicSend WITH
  mailbox <- Mailbox, handling <- Handling, unsent <- Unsent, stopped <- killed

AtomicSends == Sends!Spec
=============================================================================
