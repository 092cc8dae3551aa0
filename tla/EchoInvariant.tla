--------------------------- MODULE EchoInvariant ---------------------------
(***************************************************************************)
(* The inductive invariant of Echo, checked by TLC on small networks and   *)
(* proved for all of them in EchoProofs.  That everybody is green once *)
(* the initiator is follows from three of its parts: the edges (a message  *)
(* is counted only where it was carried), the colours (a green node has    *)
(* counted all its neighbours) and the tree (following the first           *)
(* neighbours leads to the initiator).                                     *)
(***************************************************************************)
EXTENDS Echo

Nonwhite(n, id)  == state[n][id] # "white"
Exploring(n, id) == task[n].pc = "explore" /\ task[n].id = id
Echoing(n, id)   == task[n].pc = "echo" /\ task[n].id = id
Carried(id, m, n) == carried[id][m][n] # 0

\* The neighbour a node heard of the campaign from.  Between the start and
\* the end of sendExplorer only the handler knows it.
Parent(n, id) == IF Exploring(n, id) THEN task[n].from ELSE firstNeighborId[n][id]

\* A waiting message was carried by its edge and is not counted yet, no two
\* of a campaign come from the same node, and only explorers wait at a node
\* that is white.
WaitingOK(n, i) ==
  LET q == queue[n][i] IN
  /\ Carried(q.id, q.from, n)
  /\ q.from \notin handled[n][q.id]
  /\ q.content = NoContent => Nonwhite(n, q.id)
  /\ q.content # NoContent => q.content = Content(q.id)
  /\ \A j \in 1..Len(queue[n]) :
       (queue[n][j].id = q.id /\ queue[n][j].from = q.from) => j = i

QueueOK == \A n \in Node : \A i \in 1..Len(queue[n]) : WaitingOK(n, i)

\* What is counted was carried.
HandledOK ==
  \A n \in Node, id \in Id :
    /\ counter[n][id] = Cardinality(handled[n][id])
    /\ \A m \in handled[n][id] : Carried(id, m, n)
    /\ state[n][id] = "green" => handled[n][id] = Neighbors[n]
    /\ state[n][id] = "white" => handled[n][id] = {}

\* An edge carries one message, of a node that is not white and has ticked
\* the neighbour off.
CarriedOK ==
  \A id \in Id : \A m, n \in Node :
    /\ carried[id][m][n] \in {0, 1}
    /\ Carried(id, m, n) => /\ n \in Neighbors[m]
                            /\ Nonwhite(m, id)
                            /\ n \notin unsent[m][id]

UnsentOK ==
  \A n \in Node, id \in Id :
    /\ unsent[n][id] \subseteq Neighbors[n]
    /\ unsent[n][id] # {} => /\ Nonwhite(n, id)
                             /\ n = Initiator[id] \/ Exploring(n, id)

MessageOK ==
  \A n \in Node, id \in Id :
    message[n][id] = (IF Nonwhite(n, id) THEN Content(id) ELSE None)

TaskOK ==
  \A n \in Node :
    /\ task[n].pc = "explore" => state[n][task[n].id] = "red"
    /\ task[n].pc = "echo" => state[n][task[n].id] = "green"
    /\ task[n].pc # "idle" => n # Initiator[task[n].id]

\* A node that is not white heard of the campaign from its parent, and what
\* it sends there is its echo, after which it is done.
ParentOK ==
  \A n \in Node, id \in Id : (Nonwhite(n, id) /\ n # Initiator[id]) =>
    /\ Parent(n, id) \in Node
    /\ Carried(id, Parent(n, id), n)
    /\ Parent(n, id) \notin unsent[n][id]
    /\ Carried(id, n, Parent(n, id)) =>
         state[n][id] = "green" /\ ~Echoing(n, id)

\* The parents form a tree: they do not run in a circle.
TreeOK ==
  \A id \in Id : \A S \in SUBSET {n \in Node : Nonwhite(n, id) /\ n # Initiator[id]} :
    S # {} => \E n \in S : Parent(n, id) \notin S

InitiatorOK ==
  \A id \in Id :
    /\ \A n \in Node : Nonwhite(n, id) => Nonwhite(Initiator[id], id)
    /\ distributed[id] = (IF state[Initiator[id]][id] = "green" THEN 1 ELSE 0)

\* The state of the campaigns is explained by what the edges have carried.
Inv ==
  /\ TypeOK
  /\ QueueOK
  /\ HandledOK
  /\ CarriedOK
  /\ UnsentOK
  /\ MessageOK
  /\ TaskOK
  /\ ParentOK
  /\ TreeOK
  /\ InitiatorOK
=============================================================================
