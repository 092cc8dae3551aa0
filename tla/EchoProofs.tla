----------------------------- MODULE EchoProofs -----------------------------
(***************************************************************************)
(* Proofs about the campaigns (Echo), for every connected network, every   *)
(* set of campaigns and any number of faults.                              *)
(***************************************************************************)
EXTENDS EchoInvariant, FiniteSetTheorems, TLAPS

-----------------------------------------------------------------------------
(* The network.                                                            *)

LEMMA NeighborFacts ==
  ASSUME NEW n \in Node
  PROVE  /\ Neighbors[n] \in SUBSET Node
         /\ n \notin Neighbors[n]
         /\ IsFiniteSet(Neighbors[n])
         /\ \A m \in Node : m \in Neighbors[n] <=> n \in Neighbors[m]
BY NodeAssumption, NeighborsAssumption, FS_Subset

-----------------------------------------------------------------------------
(* Queues.                                                                 *)

LEMMA AppendFacts ==
  ASSUME NEW S, NEW s \in Seq(S), NEW e \in S
  PROVE  /\ Append(s, e) \in Seq(S)
         /\ Len(Append(s, e)) = Len(s) + 1
         /\ \A i \in 1..Len(s) : Append(s, e)[i] = s[i]
         /\ Append(s, e)[Len(s) + 1] = e
OBVIOUS

LEMMA TailFacts ==
  ASSUME NEW S, NEW s \in Seq(S), s # <<>>
  PROVE  /\ Tail(s) \in Seq(S)
         /\ Len(s) \in Nat \ {0}
         /\ Len(Tail(s)) = Len(s) - 1
         /\ \A i \in 1..Len(Tail(s)) : Tail(s)[i] = s[i + 1] /\ i + 1 \in 1..Len(s)
         /\ 1 \in 1..Len(s) /\ Head(s) = s[1] /\ Head(s) \in S
OBVIOUS

-----------------------------------------------------------------------------
(* The initial states.                                                     *)

LEMMA InvInit == Init => Inv
<1> SUFFICES ASSUME Init PROVE Inv
  OBVIOUS
<1>1. TypeOK
  BY DEF Init, TypeOK, Task, IdleTask
<1>2. \A n \in Node, id \in Id : state[n][id] = "white" /\ ~Nonwhite(n, id)
  BY DEF Init, Nonwhite
<1>3. \A id \in Id : \A m, n \in Node : carried[id][m][n] = 0 /\ ~Carried(id, m, n)
  BY DEF Init, Carried
<1>4. \A n \in Node : task[n].pc = "idle" /\ queue[n] = <<>>
  BY DEF Init, IdleTask
<1>5. QueueOK
  BY <1>4 DEF QueueOK
<1>6. HandledOK
  <2>1. \A n \in Node, id \in Id : counter[n][id] = 0 /\ handled[n][id] = {}
    BY DEF Init
  <2> QED
    BY <2>1, <1>2, FS_EmptySet DEF HandledOK
<1>7. CarriedOK
  BY <1>3 DEF CarriedOK
<1>8. UnsentOK
  BY DEF Init, UnsentOK
<1>9. MessageOK
  BY <1>2 DEF Init, MessageOK
<1>10. TaskOK
  BY <1>4 DEF TaskOK
<1>11. ParentOK
  BY <1>2 DEF ParentOK
<1>12. TreeOK
  BY <1>2 DEF TreeOK
<1>13. InitiatorOK
  <2>1. \A id \in Id : Initiator[id] \in Node /\ distributed[id] = 0
    BY InitiatorAssumption DEF Init
  <2> QED
    BY <1>2, <2>1 DEF InitiatorOK
<1> QED
  BY <1>1, <1>5, <1>6, <1>7, <1>8, <1>9, <1>10, <1>11, <1>12, <1>13 DEF Inv

-----------------------------------------------------------------------------
(* What a step keeps when it leaves most of the state alone.               *)

\* Queues, when nothing is sent, taken or counted.
LEMMA QueueFrame ==
  ASSUME Inv, UNCHANGED <<queue, carried, handled>>,
         \A a \in Node, i \in Id : Nonwhite(a, i) => Nonwhite(a, i)'
  PROVE  QueueOK'
<1> SUFFICES ASSUME NEW a \in Node, NEW k \in 1..Len(queue'[a])
             PROVE  WaitingOK(a, k)'
  BY DEF QueueOK
<1>1. queue[a] \in Seq(Message) /\ queue[a][k] \in Message /\ WaitingOK(a, k)
  BY DEF Inv, TypeOK, QueueOK
<1>2. queue[a][k].id \in Id
  BY <1>1 DEF Message
<1> QED
  BY <1>1, <1>2 DEF WaitingOK, Carried

\* Edges, when nothing is sent and only nodes that were white get targets.
LEMMA CarriedFrame ==
  ASSUME Inv, UNCHANGED carried,
         \A a \in Node, i \in Id : Nonwhite(a, i) => Nonwhite(a, i)',
         \A a \in Node, i \in Id :
            Nonwhite(a, i) => unsent'[a][i] \subseteq unsent[a][i]
  PROVE  /\ CarriedOK'
         /\ \A i \in Id : \A a, b \in Node : Carried(i, a, b)' <=> Carried(i, a, b)
<1>1. \A i \in Id : \A a, b \in Node : Carried(i, a, b)' <=> Carried(i, a, b)
  BY DEF Carried
<1>2. ASSUME NEW i \in Id, NEW a \in Node, NEW b \in Node
      PROVE  /\ carried'[i][a][b] \in {0, 1}
             /\ Carried(i, a, b)' => /\ b \in Neighbors[a]
                                     /\ Nonwhite(a, i)'
                                     /\ b \notin unsent'[a][i]
  <2>1. /\ carried[i][a][b] \in {0, 1}
        /\ Carried(i, a, b) => /\ b \in Neighbors[a]
                               /\ Nonwhite(a, i)
                               /\ b \notin unsent[a][i]
    BY DEF Inv, CarriedOK
  <2>2. Nonwhite(a, i) => Nonwhite(a, i)' /\ unsent'[a][i] \subseteq unsent[a][i]
    OBVIOUS
  <2> QED
    BY <1>1, <2>1, <2>2
<1> QED
  BY <1>1, <1>2 DEF CarriedOK

\* The tree, when no node turns red and no parent changes.
LEMMA TreeFrame ==
  ASSUME Inv,
         \A a \in Node, i \in Id : Nonwhite(a, i)' <=> Nonwhite(a, i),
         \A a \in Node, i \in Id :
            Nonwhite(a, i) /\ a # Initiator[i] => Parent(a, i)' = Parent(a, i)
  PROVE  TreeOK'
<1> SUFFICES ASSUME NEW i \in Id,
                    NEW S \in SUBSET {a \in Node : Nonwhite(a, i)' /\ a # Initiator[i]},
                    S # {}
             PROVE  \E a \in S : Parent(a, i)' \notin S
  BY DEF TreeOK
<1>1. S \in SUBSET {a \in Node : Nonwhite(a, i) /\ a # Initiator[i]}
  OBVIOUS
<1>2. PICK a \in S : Parent(a, i) \notin S
  BY <1>1 DEF Inv, TreeOK
<1> QED
  BY <1>1, <1>2

-----------------------------------------------------------------------------
(* A send of a message on an edge that has not carried one yet keeps the   *)
(* invariants about queues and edges, whether it arrives or fails.         *)

LEMMA SendFacts ==
  ASSUME Inv, NEW n \in Node, NEW m \in Node, NEW msg \in Message,
         msg.from = n, m \in Neighbors[n], Nonwhite(n, msg.id),
         ~Carried(msg.id, n, m),
         msg.content = NoContent => Nonwhite(m, msg.id),
         msg.content # NoContent => msg.content = Content(msg.id),
         Send(n, m, msg), UNCHANGED <<state, handled>>,
         unsent' \in [Node -> [Id -> SUBSET Node]],
         m \notin unsent'[n][msg.id],
         \A a \in Node, i \in Id : unsent'[a][i] \subseteq unsent[a][i]
  PROVE  /\ queue' \in [Node -> Seq(Message)]
         /\ carried' \in [Id -> [Node -> [Node -> Nat]]]
         /\ faults' \in Nat
         /\ QueueOK' /\ CarriedOK'
         /\ \A i \in Id : \A a, b \in Node :
              /\ Carried(i, a, b) => Carried(i, a, b)'
              /\ Carried(i, a, b)' =>
                   Carried(i, a, b) \/ (i = msg.id /\ a = n /\ b = m)
<1>0. /\ msg.id \in Id /\ TypeOK
      /\ carried \in [Id -> [Node -> [Node -> Nat]]]
      /\ queue \in [Node -> Seq(Message)]
      /\ QueueOK /\ CarriedOK
  BY DEF Message, Inv, TypeOK
<1>1. CASE Lose(n, m)
  <2>1. UNCHANGED <<queue, carried>> /\ faults' \in Nat
    BY <1>1 DEF Lose, Inv, TypeOK
  <2>2. \A i \in Id : \A a, b \in Node : Carried(i, a, b) <=> Carried(i, a, b)'
    BY <2>1 DEF Carried
  <2>3. \A a \in Node, i \in Id : Nonwhite(a, i) <=> Nonwhite(a, i)'
    BY DEF Nonwhite
  <2>4. QueueOK'
    <3> SUFFICES ASSUME NEW a \in Node, NEW i \in 1..Len(queue'[a])
                 PROVE  WaitingOK(a, i)'
      BY DEF QueueOK
    <3>1. WaitingOK(a, i) /\ queue'[a] = queue[a] /\ queue[a][i] \in Message
      BY <2>1, <1>0 DEF QueueOK
    <3> QED
      BY <2>1, <3>1 DEF WaitingOK, Carried, Nonwhite
  <2>5. CarriedOK'
    <3> SUFFICES ASSUME NEW i \in Id, NEW a \in Node, NEW b \in Node
                 PROVE  /\ carried'[i][a][b] \in {0, 1}
                        /\ Carried(i, a, b)' => /\ b \in Neighbors[a]
                                                /\ Nonwhite(a, i)'
                                                /\ b \notin unsent'[a][i]
      BY DEF CarriedOK
    <3> QED
      <4>1. /\ carried[i][a][b] \in {0, 1}
            /\ Carried(i, a, b) => /\ b \in Neighbors[a]
                                   /\ Nonwhite(a, i)
                                   /\ b \notin unsent[a][i]
        BY <1>0 DEF CarriedOK
      <4>2. unsent'[a][i] \subseteq unsent[a][i]
        OBVIOUS
      <4> QED
        BY <2>1, <2>2, <2>3, <4>1, <4>2
  <2> QED
    BY <1>0, <2>1, <2>2, <2>4, <2>5
<1>2. CASE Deliver(n, m, msg)
  <2>1. /\ queue' \in [Node -> Seq(Message)]
        /\ queue'[m] = Append(queue[m], msg)
        /\ \A a \in Node : a # m => queue'[a] = queue[a]
    BY <1>0, <1>2 DEF Deliver
  <2>3. faults' \in Nat
    BY <1>2 DEF Deliver, Inv, TypeOK
  <2>4. /\ carried' \in [Id -> [Node -> [Node -> Nat]]]
        /\ \A i \in Id : \A a, b \in Node :
             /\ carried[i][a][b] \in Nat
             /\ carried'[i][a][b] = IF i = msg.id /\ a = n /\ b = m
                                    THEN carried[i][a][b] + 1
                                    ELSE carried[i][a][b]
    <3>1. carried' = [carried EXCEPT ![msg.id][n][m] = carried[msg.id][n][m] + 1]
      BY <1>2 DEF Deliver
    <3>2. carried[msg.id][n][m] + 1 \in Nat
      BY <1>0
    <3> DEFINE row == [carried[msg.id][n] EXCEPT ![m] = carried[msg.id][n][m] + 1]
    <3>3. row \in [Node -> Nat] /\ carried[msg.id][n] \in [Node -> Nat]
      BY <1>0, <3>2
    <3>4. carried' \in [Id -> [Node -> [Node -> Nat]]]
      BY <1>0, <3>1, <3>2, <3>3
    <3>5. ASSUME NEW i \in Id, NEW a \in Node, NEW b \in Node
          PROVE  /\ carried[i][a][b] \in Nat
                 /\ carried'[i][a][b] = IF i = msg.id /\ a = n /\ b = m
                                        THEN carried[i][a][b] + 1
                                        ELSE carried[i][a][b]
      <4>1. carried[i][a][b] \in Nat
        BY <1>0
      <4>2. carried' = [carried EXCEPT ![msg.id] = [carried[msg.id] EXCEPT ![n] = row]]
        BY <1>0, <3>1
      <4>3. CASE i # msg.id
        BY <1>0, <4>2, <4>3
      <4>4. CASE i = msg.id /\ a # n
        BY <1>0, <4>2, <4>4
      <4>5. CASE i = msg.id /\ a = n
        <5>1. carried'[i][a] = row
          BY <1>0, <4>2, <4>5
        <5> QED
          BY <1>0, <4>5, <5>1
      <4> QED
        BY <4>1, <4>3, <4>4, <4>5
    <3> QED
      BY <3>4, <3>5
  <2>5. \A i \in Id : \A a, b \in Node :
          /\ Carried(i, a, b) => Carried(i, a, b)'
          /\ Carried(i, a, b)' =>
               Carried(i, a, b) \/ (i = msg.id /\ a = n /\ b = m)
    BY <2>4 DEF Carried
  <2>6. CarriedOK'
    <3> SUFFICES ASSUME NEW i \in Id, NEW a \in Node, NEW b \in Node
                 PROVE  /\ carried'[i][a][b] \in {0, 1}
                        /\ Carried(i, a, b)' => /\ b \in Neighbors[a]
                                                /\ Nonwhite(a, i)'
                                                /\ b \notin unsent'[a][i]
      BY DEF CarriedOK
    <3>1. CASE i = msg.id /\ a = n /\ b = m
      BY <3>1, <2>4 DEF Carried, Nonwhite
    <3>2. CASE ~(i = msg.id /\ a = n /\ b = m)
      <4>1. carried'[i][a][b] = carried[i][a][b] /\ (Carried(i, a, b)' => Carried(i, a, b))
        BY <3>2, <2>4, <2>5
      <4>2. Nonwhite(a, i)' <=> Nonwhite(a, i)
        BY DEF Nonwhite
      <4> QED
        <5>1. /\ carried[i][a][b] \in {0, 1}
              /\ Carried(i, a, b) => /\ b \in Neighbors[a]
                                     /\ Nonwhite(a, i)
                                     /\ b \notin unsent[a][i]
          BY <1>0 DEF CarriedOK
        <5>2. unsent'[a][i] \subseteq unsent[a][i]
          OBVIOUS
        <5> QED
          BY <4>1, <4>2, <5>1, <5>2
    <3> QED
      BY <3>1, <3>2
  <2>7. QueueOK'
    <3> SUFFICES ASSUME NEW a \in Node, NEW i \in 1..Len(queue'[a])
                 PROVE  WaitingOK(a, i)'
      BY DEF QueueOK
    <3>1. CASE a # m
      <4>1. WaitingOK(a, i) /\ queue'[a] = queue[a] /\ queue[a][i] \in Message
        BY <3>1, <2>1, <1>0 DEF Inv, QueueOK
      <4> QED
        BY <4>1, <2>5 DEF WaitingOK, Nonwhite, Message
    <3>2. CASE a = m
      <4>1. /\ queue[m] \in Seq(Message) /\ Len(queue[m]) \in Nat
            /\ Len(queue'[m]) = Len(queue[m]) + 1
            /\ \A k \in 1..Len(queue[m]) : queue'[m][k] = queue[m][k] /\ queue[m][k] \in Message
            /\ queue'[m][Len(queue[m]) + 1] = msg
        BY <1>0, <2>1, AppendFacts
      <4>2. \A k \in 1..Len(queue[m]) :
              /\ WaitingOK(m, k)
              /\ Carried(queue[m][k].id, queue[m][k].from, m)'
              /\ ~(queue[m][k].id = msg.id /\ queue[m][k].from = n)
        BY <4>1, <2>5 DEF Inv, QueueOK, WaitingOK, Message
      <4>3. Carried(msg.id, n, m)' /\ n \notin handled[m][msg.id]
        <5>1. n \notin handled[m][msg.id]
          BY <1>0 DEF Inv, HandledOK
        <5>2. carried'[msg.id][n][m] = carried[msg.id][n][m] + 1 /\ carried[msg.id][n][m] \in Nat
          BY <1>0, <2>4
        <5> QED
          BY <5>1, <5>2 DEF Carried
      <4>4. CASE i = Len(queue[m]) + 1
        <5>1. queue'[m][i] = msg
          BY <4>1, <4>4
        <5>2. \A j \in 1..Len(queue'[m]) :
                (queue'[m][j].id = msg.id /\ queue'[m][j].from = n) => j = i
          BY <4>1, <4>2, <4>4
        <5> QED
          BY <3>2, <4>3, <5>1, <5>2 DEF WaitingOK, Nonwhite
      <4>5. CASE i \in 1..Len(queue[m])
        <5>1. queue'[m][i] = queue[m][i] /\ WaitingOK(m, i)
          BY <4>5, <4>1, <4>2
        <5>2. \A j \in 1..Len(queue'[m]) :
                (queue'[m][j].id = queue[m][i].id /\ queue'[m][j].from = queue[m][i].from) => j = i
          BY <4>5, <4>1, <4>2 DEF WaitingOK
        <5> QED
          BY <3>2, <4>2, <4>5, <5>1, <5>2 DEF WaitingOK, Nonwhite
      <4> QED
        BY <3>2, <4>1, <4>4, <4>5
    <3> QED
      BY <3>1, <3>2
  <2> QED
    BY <2>1, <2>3, <2>4, <2>5, <2>6, <2>7
<1> QED
  BY <1>1, <1>2 DEF Send

-----------------------------------------------------------------------------
(* Taking a message from a queue.                                          *)

\* What the invariant says about the message that is taken next.
LEMMA HeadFacts ==
  ASSUME Inv, NEW n \in Node, queue[n] # <<>>
  PROVE  LET msg == Head(queue[n]) IN
         /\ msg \in Message /\ msg.id \in Id /\ msg.from \in Node
         /\ msg.from \in Neighbors[n] /\ n \in Neighbors[msg.from]
         /\ msg.from \notin handled[n][msg.id]
         /\ Carried(msg.id, msg.from, n)
         /\ Nonwhite(msg.from, msg.id)
         /\ msg.content = NoContent => Nonwhite(n, msg.id)
         /\ msg.content # NoContent => msg.content = Content(msg.id)
<1> DEFINE msg == Head(queue[n])
<1>1. /\ msg \in Message /\ msg = queue[n][1] /\ 1 \in 1..Len(queue[n])
  BY TailFacts DEF Inv, TypeOK
<1>2. msg.id \in Id /\ msg.from \in Node
  BY <1>1 DEF Message
<1>3. WaitingOK(n, 1)
  BY <1>1 DEF Inv, QueueOK
<1>4. /\ msg.from \notin handled[n][msg.id]
      /\ Carried(msg.id, msg.from, n)
      /\ msg.content = NoContent => Nonwhite(n, msg.id)
      /\ msg.content # NoContent => msg.content = Content(msg.id)
  BY <1>1, <1>3 DEF WaitingOK
<1>5. n \in Neighbors[msg.from] /\ Nonwhite(msg.from, msg.id)
  BY <1>2, <1>4 DEF Inv, CarriedOK
<1>6. msg.from \in Neighbors[n]
  BY <1>2, <1>5, NeighborFacts
<1> QED
  BY <1>1, <1>2, <1>4, <1>5, <1>6

\* The rest of the queue keeps its order and its properties when the first
\* message is counted or dropped.
LEMMA TakeFacts ==
  ASSUME Inv, NEW n \in Node, queue[n] # <<>>,
         queue' = [queue EXCEPT ![n] = Tail(@)], UNCHANGED carried,
         \A a \in Node, i \in Id :
            \/ handled'[a][i] = handled[a][i]
            \/ /\ a = n /\ i = Head(queue[n]).id
               /\ handled'[a][i] = handled[a][i] \cup {Head(queue[n]).from},
         \A a \in Node, i \in Id : Nonwhite(a, i) => Nonwhite(a, i)'
  PROVE  queue' \in [Node -> Seq(Message)] /\ QueueOK'
<1>1. /\ queue[n] \in Seq(Message) /\ Len(queue[n]) \in Nat
      /\ \A a \in Node : queue[a] \in Seq(Message)
      /\ QueueOK
  BY DEF Inv, TypeOK
<1>2. /\ queue' \in [Node -> Seq(Message)]
      /\ queue'[n] = Tail(queue[n])
      /\ \A a \in Node : a # n => queue'[a] = queue[a]
  BY <1>1, TailFacts DEF Inv, TypeOK
<1>3. ASSUME NEW a \in Node, NEW i \in 1..Len(queue'[a])
      PROVE  WaitingOK(a, i)'
  <2>1. CASE a # n
    <3>1. WaitingOK(a, i) /\ queue'[a] = queue[a] /\ queue[a][i] \in Message
      BY <1>1, <1>2, <2>1 DEF QueueOK
    <3>2. queue[a][i].id \in Id
      BY <3>1 DEF Message
    <3>3. handled'[a][queue[a][i].id] = handled[a][queue[a][i].id]
      BY <2>1, <3>2
    <3> QED
      BY <3>1, <3>2, <3>3 DEF WaitingOK, Carried
  <2>2. CASE a = n
    <3>1. /\ i + 1 \in 1..Len(queue[n]) /\ queue'[n][i] = queue[n][i + 1]
          /\ queue[n][i + 1] \in Message /\ Head(queue[n]) = queue[n][1]
          /\ 1 \in 1..Len(queue[n]) /\ i + 1 # 1
          /\ Len(queue'[n]) = Len(queue[n]) - 1
          /\ \A j \in 1..Len(queue'[n]) :
                queue'[n][j] = queue[n][j + 1] /\ j + 1 \in 1..Len(queue[n])
      BY <1>1, <1>2, <2>2, TailFacts
    <3>2. WaitingOK(n, i + 1) /\ WaitingOK(n, 1)
      BY <1>1, <3>1 DEF QueueOK
    <3>3. queue[n][i + 1].id \in Id
      BY <3>1 DEF Message
    <3>4. ~(queue[n][1].id = queue[n][i + 1].id /\ queue[n][1].from = queue[n][i + 1].from)
      BY <3>1, <3>2 DEF WaitingOK
    <3>5. queue[n][i + 1].from \notin handled'[n][queue[n][i + 1].id]
      BY <3>1, <3>2, <3>3, <3>4 DEF WaitingOK
    <3>6. \A j \in 1..Len(queue'[n]) :
            (/\ queue'[n][j].id = queue'[n][i].id
             /\ queue'[n][j].from = queue'[n][i].from) => j = i
      <4> SUFFICES ASSUME NEW j \in 1..Len(queue'[n]),
                          queue'[n][j].id = queue'[n][i].id,
                          queue'[n][j].from = queue'[n][i].from
                   PROVE  j = i
        OBVIOUS
      <4>1. j + 1 \in 1..Len(queue[n]) /\ queue'[n][j] = queue[n][j + 1]
        BY <3>1
      <4>2. j + 1 = i + 1
        BY <3>1, <3>2, <4>1 DEF WaitingOK
      <4> QED
        BY <1>1, <2>2, <3>1, <4>2
    <3> QED
      BY <2>2, <3>1, <3>2, <3>3, <3>5, <3>6 DEF WaitingOK, Carried
  <2> QED
    BY <2>1, <2>2
<1> QED
  BY <1>2, <1>3 DEF QueueOK

-----------------------------------------------------------------------------
(* The steps, one lemma for each action.                                   *)

LEMMA ContentFacts ==
  ASSUME NEW id \in Id
  PROVE  /\ Content(id) \in Node /\ Content(id) \in Contents
         /\ Content(id) # None /\ Content(id) # NoContent
         /\ Initiator[id] \in Node
BY InitiatorAssumption, NodeAssumption DEF Content, Contents

LEMMA InitEchoInv ==
  ASSUME Inv, NEW id \in Id, InitEcho(id)
  PROVE  Inv'
<1> DEFINE n == Initiator[id]
<1>0. /\ n \in Node /\ TypeOK /\ Content(id) # None
      /\ Content(id) \in Contents /\ Content(id) \in Node
  BY ContentFacts DEF Inv
<1>1. /\ message[n][id] = None
      /\ message' = [message EXCEPT ![n][id] = Content(id)]
      /\ state' = [state EXCEPT ![n][id] = "red"]
      /\ unsent' = [unsent EXCEPT ![n][id] = ExplorerTargets(n, None)]
      /\ UNCHANGED <<counter, firstNeighborId, task, queue, alive, distributed,
                     faults, carried, handled>>
  BY DEF InitEcho, history
<1>2. ~Nonwhite(n, id) /\ state[n][id] = "white"
  BY <1>0, <1>1 DEF Inv, MessageOK, Nonwhite
<1>3. \A a \in Node : ~Nonwhite(a, id)
  BY <1>2 DEF Inv, InitiatorOK
<1>4. ExplorerTargets(n, None) = Neighbors[n] /\ Neighbors[n] \in SUBSET Node
  BY <1>0, NeighborFacts, NodeAssumption DEF ExplorerTargets
<1>5. \A a \in Node, i \in Id :
        /\ (a = n /\ i = id) => /\ state'[a][i] = "red"
                                /\ unsent'[a][i] = Neighbors[n]
                                /\ message'[a][i] = Content(id)
        /\ ~(a = n /\ i = id) => /\ state'[a][i] = state[a][i]
                                 /\ unsent'[a][i] = unsent[a][i]
                                 /\ message'[a][i] = message[a][i]
  BY <1>0, <1>1, <1>4 DEF TypeOK
<1>6. TypeOK'
  BY <1>0, <1>1, <1>4 DEF TypeOK
<1>7. \A a \in Node, i \in Id :
        /\ Nonwhite(a, i)' <=> (Nonwhite(a, i) \/ (a = n /\ i = id))
        /\ Parent(a, i)' = Parent(a, i)
        /\ Echoing(a, i)' = Echoing(a, i)
        /\ Exploring(a, i)' = Exploring(a, i)
  BY <1>0, <1>1, <1>2, <1>5 DEF Nonwhite, Parent, Exploring, Echoing
<1>8. QueueOK'
  BY <1>1, <1>7, QueueFrame
<1>9. /\ CarriedOK'
      /\ \A i \in Id : \A a, b \in Node : Carried(i, a, b)' <=> Carried(i, a, b)
  BY <1>1, <1>2, <1>5, <1>7, CarriedFrame
<1>10. HandledOK'
  BY <1>1, <1>2, <1>5, <1>9 DEF Inv, HandledOK, Carried
<1>11. UnsentOK'
  BY <1>0, <1>5, <1>7 DEF Inv, UnsentOK
<1>12. MessageOK'
  BY <1>5, <1>7 DEF Inv, MessageOK
<1>13. TaskOK'
  <2> SUFFICES ASSUME NEW a \in Node
               PROVE  /\ task[a].pc = "explore" => state'[a][task[a].id] = "red"
                      /\ task[a].pc = "echo" => state'[a][task[a].id] = "green"
                      /\ task[a].pc # "idle" => a # Initiator[task[a].id]
    BY <1>1 DEF TaskOK
  <2>1. task[a] \in Task
    BY <1>0 DEF TypeOK
  <2>2. /\ task[a].pc = "explore" => state[a][task[a].id] = "red"
        /\ task[a].pc = "echo" => state[a][task[a].id] = "green"
        /\ task[a].pc # "idle" => a # Initiator[task[a].id]
    BY DEF Inv, TaskOK
  <2>3. task[a].pc # "idle" => task[a].id \in Id
    BY <2>1 DEF Task, IdleTask
  <2> QED
    BY <1>5, <2>2, <2>3
<1>14. ParentOK'
  <2> SUFFICES ASSUME NEW a \in Node, NEW i \in Id, Nonwhite(a, i)', a # Initiator[i]
               PROVE  /\ Parent(a, i)' \in Node
                      /\ Carried(i, Parent(a, i), a)'
                      /\ Parent(a, i)' \notin unsent'[a][i]
                      /\ Carried(i, a, Parent(a, i))' =>
                           state'[a][i] = "green" /\ ~Echoing(a, i)'
    BY DEF ParentOK
  <2>1. Nonwhite(a, i) /\ ~(a = n /\ i = id)
    BY <1>7
  <2>2. /\ Parent(a, i) \in Node
        /\ Carried(i, Parent(a, i), a)
        /\ Parent(a, i) \notin unsent[a][i]
        /\ Carried(i, a, Parent(a, i)) => state[a][i] = "green" /\ ~Echoing(a, i)
    BY <2>1 DEF Inv, ParentOK
  <2> QED
    BY <1>1, <1>5, <1>7, <2>1, <2>2 DEF Carried
<1>15. TreeOK'
  <2> SUFFICES ASSUME NEW i \in Id,
                      NEW S \in SUBSET {a \in Node : Nonwhite(a, i)' /\ a # Initiator[i]},
                      S # {}
               PROVE  \E a \in S : Parent(a, i)' \notin S
    BY DEF TreeOK
  <2>1. S \in SUBSET {a \in Node : Nonwhite(a, i) /\ a # Initiator[i]}
    BY <1>7
  <2>2. PICK a \in S : Parent(a, i) \notin S
    BY <2>1 DEF Inv, TreeOK
  <2> QED
    BY <1>7, <2>1, <2>2
<1>16. InitiatorOK'
  <2> SUFFICES ASSUME NEW i \in Id
               PROVE  /\ \A a \in Node : Nonwhite(a, i)' => Nonwhite(Initiator[i], i)'
                      /\ distributed'[i] = IF state'[Initiator[i]][i] = "green" THEN 1 ELSE 0
    BY DEF InitiatorOK
  <2>1. /\ \A a \in Node : Nonwhite(a, i) => Nonwhite(Initiator[i], i)
        /\ distributed[i] = IF state[Initiator[i]][i] = "green" THEN 1 ELSE 0
        /\ Initiator[i] \in Node
    BY InitiatorAssumption DEF Inv, InitiatorOK
  <2>2. CASE i = id
    BY <1>1, <1>2, <1>5, <1>7, <2>1, <2>2
  <2>3. CASE i # id
    BY <1>1, <1>5, <1>7, <2>1, <2>3
  <2> QED
    BY <2>2, <2>3
<1> QED
  BY <1>6, <1>8, <1>9, <1>10, <1>11, <1>12, <1>13, <1>14, <1>15, <1>16 DEF Inv

\* The steps that send leave the colours and the handled messages alone, and
\* the rest of the invariant with them, provided that a node does not send to
\* its parent before it is done.
LEMMA SendFrame ==
  ASSUME Inv, UNCHANGED <<echoState, alive, distributed, handled>>,
         queue' \in [Node -> Seq(Message)],
         carried' \in [Id -> [Node -> [Node -> Nat]]],
         faults' \in Nat, task' \in [Node -> Task],
         unsent' \in [Node -> [Id -> SUBSET Node]],
         QueueOK', CarriedOK', UnsentOK', TaskOK',
         \A a \in Node, i \in Id : Parent(a, i)' = Parent(a, i),
         \A a \in Node, i \in Id : unsent'[a][i] \subseteq unsent[a][i],
         \A i \in Id : \A a, b \in Node : Carried(i, a, b) => Carried(i, a, b)',
         \A a \in Node, i \in Id :
            (Nonwhite(a, i) /\ a # Initiator[i] /\ Carried(i, a, Parent(a, i))') =>
               state[a][i] = "green" /\ ~Echoing(a, i)'
  PROVE  Inv'
<1>0. UNCHANGED <<state, counter, firstNeighborId, message, alive, distributed, handled>>
  BY DEF echoState
<1>1. TypeOK'
  BY <1>0 DEF Inv, TypeOK
<1>2. \A a \in Node, i \in Id : Nonwhite(a, i)' <=> Nonwhite(a, i)
  BY <1>0 DEF Nonwhite
<1>3. HandledOK'
  <2> SUFFICES ASSUME NEW a \in Node, NEW i \in Id
               PROVE  /\ counter[a][i] = Cardinality(handled[a][i])
                      /\ \A b \in handled[a][i] : Carried(i, b, a)'
                      /\ state[a][i] = "green" => handled[a][i] = Neighbors[a]
                      /\ state[a][i] = "white" => handled[a][i] = {}
    BY <1>0 DEF HandledOK
  <2>1. /\ counter[a][i] = Cardinality(handled[a][i])
        /\ \A b \in handled[a][i] : Carried(i, b, a)
        /\ state[a][i] = "green" => handled[a][i] = Neighbors[a]
        /\ state[a][i] = "white" => handled[a][i] = {}
        /\ handled[a][i] \in SUBSET Node
    BY DEF Inv, TypeOK, HandledOK
  <2> QED
    BY <2>1
<1>4. MessageOK'
  BY <1>0, <1>2 DEF Inv, MessageOK
<1>5. ParentOK'
  <2> SUFFICES ASSUME NEW a \in Node, NEW i \in Id, Nonwhite(a, i)', a # Initiator[i]
               PROVE  /\ Parent(a, i)' \in Node
                      /\ Carried(i, Parent(a, i), a)'
                      /\ Parent(a, i)' \notin unsent'[a][i]
                      /\ Carried(i, a, Parent(a, i))' =>
                           state'[a][i] = "green" /\ ~Echoing(a, i)'
    BY DEF ParentOK
  <2>1. /\ Parent(a, i) \in Node
        /\ Carried(i, Parent(a, i), a)
        /\ Parent(a, i) \notin unsent[a][i]
    BY <1>2 DEF Inv, ParentOK
  <2>2. Parent(a, i)' = Parent(a, i) /\ unsent'[a][i] \subseteq unsent[a][i]
    OBVIOUS
  <2>3. Carried(i, Parent(a, i), a)'
    <3>1. carried'[i][Parent(a, i)][a] # 0
      BY <2>1 DEF Carried
    <3> QED
      BY <2>2, <3>1 DEF Carried
  <2>4. Carried(i, a, Parent(a, i))' => state'[a][i] = "green" /\ ~Echoing(a, i)'
    BY <1>0, <1>2
  <2> QED
    BY <2>1, <2>2, <2>3, <2>4
<1>6. TreeOK'
  BY <1>2, TreeFrame
<1>7. InitiatorOK'
  BY <1>0, <1>2, InitiatorAssumption DEF Inv, InitiatorOK
<1> QED
  BY <1>1, <1>3, <1>4, <1>5, <1>6, <1>7 DEF Inv

LEMMA SendExplorerInv ==
  ASSUME Inv, NEW n \in Node, NEW id \in Id, NEW m, SendExplorer(n, id, m)
  PROVE  Inv'
<1>0. /\ m \in unsent[n][id]
      /\ unsent' = [unsent EXCEPT ![n][id] = @ \ {m}]
      /\ Send(n, m, [id |-> id, from |-> n, content |-> message[n][id]])
      /\ UNCHANGED <<echoState, state, task, firstNeighborId, message, alive, distributed, handled>>
  BY DEF SendExplorer, echoState
<1>1. m \in Neighbors[n] /\ m \in Node /\ Nonwhite(n, id)
  BY <1>0, NeighborFacts DEF Inv, UnsentOK
<1>2. ~Carried(id, n, m)
  BY <1>0, <1>1 DEF Inv, CarriedOK
<1>3. message[n][id] = Content(id)
  BY <1>1 DEF Inv, MessageOK
<1>4. PICK msg \in Message :
        /\ msg = [id |-> id, from |-> n, content |-> message[n][id]]
        /\ msg.id = id /\ msg.from = n /\ msg.content = Content(id)
  <2>1. Content(id) \in Contents
    BY ContentFacts
  <2>2. [id |-> id, from |-> n, content |-> message[n][id]] \in Message
    BY <1>3, <2>1 DEF Message
  <2> QED
    BY <1>3, <2>2
<1>5. /\ unsent' \in [Node -> [Id -> SUBSET Node]]
      /\ \A a \in Node, i \in Id : unsent'[a][i] \subseteq unsent[a][i]
      /\ m \notin unsent'[n][id]
  BY <1>0 DEF Inv, TypeOK
<1>6. Send(n, m, msg) /\ msg.content # NoContent
  BY <1>0, <1>4, ContentFacts
<1>7. /\ queue' \in [Node -> Seq(Message)]
      /\ carried' \in [Id -> [Node -> [Node -> Nat]]]
      /\ faults' \in Nat
      /\ QueueOK' /\ CarriedOK'
      /\ \A i \in Id : \A a, b \in Node :
           /\ Carried(i, a, b) => Carried(i, a, b)'
           /\ Carried(i, a, b)' => Carried(i, a, b) \/ (i = id /\ a = n /\ b = m)
  <2>1. /\ Nonwhite(n, msg.id) /\ ~Carried(msg.id, n, m)
        /\ msg.content = NoContent => Nonwhite(m, msg.id)
        /\ msg.content # NoContent => msg.content = Content(msg.id)
        /\ m \notin unsent'[n][msg.id]
        /\ UNCHANGED <<state, handled>>
    BY <1>0, <1>1, <1>2, <1>4, <1>5, <1>6
  <2>2. /\ queue' \in [Node -> Seq(Message)]
        /\ carried' \in [Id -> [Node -> [Node -> Nat]]]
        /\ faults' \in Nat
        /\ QueueOK' /\ CarriedOK'
        /\ \A i \in Id : \A a, b \in Node :
             /\ Carried(i, a, b) => Carried(i, a, b)'
             /\ Carried(i, a, b)' => Carried(i, a, b) \/ (i = msg.id /\ a = n /\ b = m)
    BY <1>1, <1>4, <1>5, <1>6, <2>1, SendFacts
  <2> QED
    BY <1>4, <2>2
<1>8. \A a \in Node, i \in Id : /\ Parent(a, i)' = Parent(a, i)
                                /\ Nonwhite(a, i)' = Nonwhite(a, i)
                                /\ Exploring(a, i)' = Exploring(a, i)
                                /\ Echoing(a, i)' = Echoing(a, i)
  BY <1>0 DEF Parent, Exploring, Echoing, Nonwhite
<1>9. UnsentOK'
  BY <1>5, <1>8 DEF Inv, UnsentOK
<1>10. TaskOK' /\ task' \in [Node -> Task]
  BY <1>0 DEF Inv, TaskOK, TypeOK
<1>11. ASSUME NEW a \in Node, NEW i \in Id,
              Nonwhite(a, i), a # Initiator[i], Carried(i, a, Parent(a, i))'
       PROVE  state[a][i] = "green" /\ ~Echoing(a, i)'
  <2>1. /\ Parent(a, i) \in Node
        /\ Parent(a, i) \notin unsent[a][i]
        /\ Carried(i, a, Parent(a, i)) => state[a][i] = "green" /\ ~Echoing(a, i)
    BY <1>11 DEF Inv, ParentOK
  <2>2. carried'[i][a][Parent(a, i)] # 0
    BY <1>8, <1>11 DEF Carried
  <2>3. Carried(i, a, Parent(a, i))
    <3>1. ~(i = id /\ a = n /\ Parent(a, i) = m)
      BY <1>0, <2>1
    <3> QED
      BY <1>7, <2>1, <2>2, <3>1 DEF Carried
  <2> QED
    BY <1>8, <2>1, <2>3
<1> QED
  BY <1>0, <1>5, <1>7, <1>8, <1>9, <1>10, <1>11, SendFrame

\* A handler that is at its echo knows its parent, a neighbour that has not
\* heard from it.
LEMMA EchoingFacts ==
  ASSUME Inv, NEW n \in Node, task[n].pc = "echo"
  PROVE  LET id == task[n].id
             parent == firstNeighborId[n][id]
         IN  /\ id \in Id /\ n # Initiator[id] /\ state[n][id] = "green" /\ Nonwhite(n, id)
             /\ parent = Parent(n, id) /\ parent \in Node
             /\ parent \in Neighbors[n] /\ n \in Neighbors[parent]
             /\ Nonwhite(parent, id) /\ Carried(id, parent, n) /\ ~Carried(id, n, parent)
             /\ parent \notin unsent[n][id]
<1> DEFINE id == task[n].id
<1>1. id \in Id /\ Echoing(n, id) /\ ~Exploring(n, id)
  BY DEF Inv, TypeOK, Task, IdleTask, Echoing, Exploring
<1>2. n # Initiator[id] /\ state[n][id] = "green" /\ Nonwhite(n, id)
  BY DEF Inv, TaskOK, Nonwhite
<1>3. firstNeighborId[n][id] = Parent(n, id)
  BY <1>1 DEF Parent
<1>4. /\ Parent(n, id) \in Node
      /\ Carried(id, Parent(n, id), n)
      /\ Parent(n, id) \notin unsent[n][id]
      /\ ~Carried(id, n, Parent(n, id))
  BY <1>1, <1>2 DEF Inv, ParentOK
<1>5. n \in Neighbors[Parent(n, id)] /\ Nonwhite(Parent(n, id), id)
  BY <1>1, <1>4 DEF Inv, CarriedOK
<1>6. Parent(n, id) \in Neighbors[n]
  BY <1>4, <1>5, NeighborFacts
<1> QED
  BY <1>1, <1>2, <1>3, <1>4, <1>5, <1>6

LEMMA SendEchoInv ==
  ASSUME Inv, NEW n \in Node, SendEcho(n)
  PROVE  Inv'
<1>0. PICK id, m :
        /\ id = task[n].id /\ m = firstNeighborId[n][id]
        /\ task[n].pc = "echo"
        /\ task' = [task EXCEPT ![n] = IdleTask]
        /\ Send(n, m, [id |-> id, from |-> n, content |-> NoContent])
        /\ UNCHANGED <<echoState, state, firstNeighborId, message, unsent, alive,
                       distributed, handled>>
  BY DEF SendEcho, echoState
<1>1. /\ id \in Id /\ n # Initiator[id] /\ state[n][id] = "green" /\ Nonwhite(n, id)
      /\ m = Parent(n, id) /\ m \in Node /\ m \in Neighbors[n]
      /\ Nonwhite(m, id) /\ ~Carried(id, n, m) /\ m \notin unsent[n][id]
  BY <1>0, EchoingFacts
<1>2. PICK msg \in Message :
        /\ msg = [id |-> id, from |-> n, content |-> NoContent]
        /\ msg.id = id /\ msg.from = n /\ msg.content = NoContent
  <2>1. [id |-> id, from |-> n, content |-> NoContent] \in Message
    BY <1>1 DEF Message, Contents
  <2> QED
    BY <2>1
<1>3. /\ unsent' \in [Node -> [Id -> SUBSET Node]]
      /\ \A a \in Node, i \in Id : unsent'[a][i] \subseteq unsent[a][i]
  BY <1>0 DEF Inv, TypeOK
<1>4. /\ queue' \in [Node -> Seq(Message)]
      /\ carried' \in [Id -> [Node -> [Node -> Nat]]]
      /\ faults' \in Nat
      /\ QueueOK' /\ CarriedOK'
      /\ \A i \in Id : \A a, b \in Node :
           /\ Carried(i, a, b) => Carried(i, a, b)'
           /\ Carried(i, a, b)' => Carried(i, a, b) \/ (i = id /\ a = n /\ b = m)
  <2>1. /\ Nonwhite(n, msg.id) /\ ~Carried(msg.id, n, m)
        /\ msg.content = NoContent => Nonwhite(m, msg.id)
        /\ msg.content # NoContent => msg.content = Content(msg.id)
        /\ m \notin unsent'[n][msg.id]
        /\ UNCHANGED <<state, handled>>
        /\ Send(n, m, msg)
    BY <1>0, <1>1, <1>2
  <2>2. /\ queue' \in [Node -> Seq(Message)]
        /\ carried' \in [Id -> [Node -> [Node -> Nat]]]
        /\ faults' \in Nat
        /\ QueueOK' /\ CarriedOK'
        /\ \A i \in Id : \A a, b \in Node :
             /\ Carried(i, a, b) => Carried(i, a, b)'
             /\ Carried(i, a, b)' => Carried(i, a, b) \/ (i = msg.id /\ a = n /\ b = m)
    BY <1>1, <1>2, <1>3, <2>1, SendFacts
  <2> QED
    BY <1>2, <2>2
<1>5. /\ task' \in [Node -> Task]
      /\ task'[n] = IdleTask
      /\ \A a \in Node : a # n => task'[a] = task[a]
  BY <1>0 DEF Inv, TypeOK, Task
<1>6. \A a \in Node, i \in Id :
        /\ Parent(a, i)' = Parent(a, i)
        /\ Nonwhite(a, i)' = Nonwhite(a, i)
        /\ Exploring(a, i)' = Exploring(a, i)
        /\ Echoing(a, i)' = (Echoing(a, i) /\ a # n)
  BY <1>0, <1>5 DEF Parent, Exploring, Echoing, Nonwhite, IdleTask
<1>7. UnsentOK'
  BY <1>0, <1>6 DEF Inv, UnsentOK
<1>8. TaskOK'
  <2> SUFFICES ASSUME NEW a \in Node
               PROVE  /\ task'[a].pc = "explore" => state[a][task'[a].id] = "red"
                      /\ task'[a].pc = "echo" => state[a][task'[a].id] = "green"
                      /\ task'[a].pc # "idle" => a # Initiator[task'[a].id]
    BY <1>0 DEF TaskOK
  <2>1. CASE a = n
    BY <1>5, <2>1 DEF IdleTask
  <2>2. CASE a # n
    BY <1>5, <2>2 DEF Inv, TaskOK
  <2> QED
    BY <2>1, <2>2
<1>9. ASSUME NEW a \in Node, NEW i \in Id,
             Nonwhite(a, i), a # Initiator[i], Carried(i, a, Parent(a, i))'
      PROVE  state[a][i] = "green" /\ ~Echoing(a, i)'
  <2>1. /\ Parent(a, i) \in Node
        /\ Carried(i, a, Parent(a, i)) => state[a][i] = "green" /\ ~Echoing(a, i)
    BY <1>9 DEF Inv, ParentOK
  <2>2. carried'[i][a][Parent(a, i)] # 0
    BY <1>6, <1>9 DEF Carried
  <2>3. Carried(i, a, Parent(a, i)) \/ (i = id /\ a = n)
    BY <1>4, <2>1, <2>2 DEF Carried
  <2> QED
    BY <1>1, <1>6, <2>1, <2>3
<1> QED
  BY <1>0, <1>3, <1>4, <1>5, <1>6, <1>7, <1>8, <1>9, SendFrame

LEMMA DiscardInv ==
  ASSUME Inv, NEW n \in Node, Discard(n)
  PROVE  Inv'
<1>0. /\ queue[n] # <<>>
      /\ queue' = [queue EXCEPT ![n] = Tail(@)]
      /\ faults' = faults + 1
      /\ UNCHANGED <<echoState, state, counter, firstNeighborId, message, unsent,
                     task, alive, distributed, carried, handled>>
  BY DEF Discard, echoState, history
<1>1. \A a \in Node, i \in Id : /\ Nonwhite(a, i)' = Nonwhite(a, i)
                                /\ Parent(a, i)' = Parent(a, i)
                                /\ Exploring(a, i)' = Exploring(a, i)
                                /\ Echoing(a, i)' = Echoing(a, i)
  BY <1>0 DEF Nonwhite, Parent, Exploring, Echoing
<1>2. queue' \in [Node -> Seq(Message)] /\ QueueOK'
  BY <1>0, <1>1, TakeFacts
<1>3. /\ unsent' \in [Node -> [Id -> SUBSET Node]] /\ task' \in [Node -> Task]
      /\ faults' \in Nat /\ carried' \in [Id -> [Node -> [Node -> Nat]]]
  BY <1>0 DEF Inv, TypeOK
<1>4. /\ CarriedOK'
      /\ \A i \in Id : \A a, b \in Node : Carried(i, a, b)' <=> Carried(i, a, b)
  BY <1>0, <1>1, CarriedFrame
<1>5. UnsentOK' /\ TaskOK'
  BY <1>0, <1>1 DEF Inv, UnsentOK, TaskOK
<1>6. ASSUME NEW a \in Node, NEW i \in Id,
             Nonwhite(a, i), a # Initiator[i], Carried(i, a, Parent(a, i))'
      PROVE  state[a][i] = "green" /\ ~Echoing(a, i)'
  <2>1. Carried(i, a, Parent(a, i))
    BY <1>0, <1>1, <1>6 DEF Carried
  <2> QED
    BY <1>1, <1>6, <2>1 DEF Inv, ParentOK
<1> QED
  BY <1>0, <1>1, <1>2, <1>3, <1>4, <1>5, <1>6, SendFrame

LEMMA CrashInv ==
  ASSUME Inv, NEW n \in Node, Crash(n)
  PROVE  Inv'
<1>0. /\ faults' = faults + 1 /\ alive' = alive \ {n}
      /\ UNCHANGED <<state, counter, firstNeighborId, message, unsent,
                     task, queue, distributed, carried, handled>>
  BY DEF Crash, echoState, history
<1>1. TypeOK'
  BY <1>0 DEF Inv, TypeOK
<1>2. /\ QueueOK' <=> QueueOK
      /\ HandledOK' <=> HandledOK
      /\ CarriedOK' <=> CarriedOK
      /\ UnsentOK' <=> UnsentOK
      /\ MessageOK' <=> MessageOK
      /\ TaskOK' <=> TaskOK
      /\ ParentOK' <=> ParentOK
      /\ TreeOK' <=> TreeOK
      /\ InitiatorOK' <=> InitiatorOK
  BY <1>0 DEF QueueOK, WaitingOK, HandledOK, CarriedOK, UnsentOK, MessageOK, TaskOK,
              ParentOK, TreeOK, InitiatorOK, Nonwhite, Exploring, Echoing, Carried, Parent
<1> QED
  BY <1>1, <1>2 DEF Inv

LEMMA StutterInv ==
  ASSUME Inv, UNCHANGED vars
  PROVE  Inv'
<1>0. UNCHANGED <<state, counter, firstNeighborId, message, unsent,
                  task, queue, alive, distributed, faults, carried, handled>>
  BY DEF vars, echoState, history
<1>1. TypeOK' <=> TypeOK
  BY <1>0 DEF TypeOK
<1>2. /\ QueueOK' <=> QueueOK
      /\ HandledOK' <=> HandledOK
      /\ CarriedOK' <=> CarriedOK
      /\ UnsentOK' <=> UnsentOK
      /\ MessageOK' <=> MessageOK
      /\ TaskOK' <=> TaskOK
      /\ ParentOK' <=> ParentOK
      /\ TreeOK' <=> TreeOK
      /\ InitiatorOK' <=> InitiatorOK
  BY <1>0 DEF QueueOK, WaitingOK, HandledOK, CarriedOK, UnsentOK, MessageOK, TaskOK,
              ParentOK, TreeOK, InitiatorOK, Nonwhite, Exploring, Echoing, Carried, Parent
<1> QED
  BY <1>1, <1>2 DEF Inv

\* Counting a message: the counter stays the number of neighbours heard from,
\* and the content that is kept is the initiator's.
LEMMA AcceptFacts ==
  ASSUME Inv, NEW n \in Node, NEW msg, Accept(n, msg),
         \A a \in Node, i \in Id : Nonwhite(a, i) => Nonwhite(a, i)'
  PROVE  /\ msg.id \in Id /\ msg.from \in Neighbors[n] /\ msg.from \in Node
         /\ msg.from \notin handled[n][msg.id]
         /\ Carried(msg.id, msg.from, n) /\ Nonwhite(msg.from, msg.id)
         /\ task[n].pc = "idle"
         /\ UNCHANGED <<firstNeighborId, alive, faults, carried>>
         /\ queue' \in [Node -> Seq(Message)] /\ QueueOK'
         /\ message' \in [Node -> [Id -> Contents \cup {None}]]
         /\ counter' \in [Node -> [Id -> Nat]]
         /\ handled' \in [Node -> [Id -> SUBSET Node]]
         /\ handled'[n][msg.id] = handled[n][msg.id] \cup {msg.from}
         /\ counter'[n][msg.id] = counter[n][msg.id] + 1
         /\ message'[n][msg.id] = Content(msg.id)
         /\ \A a \in Node, i \in Id : ~(a = n /\ i = msg.id) =>
              /\ handled'[a][i] = handled[a][i]
              /\ message'[a][i] = message[a][i]
         /\ \A a \in Node, i \in Id :
              /\ counter'[a][i] = Cardinality(handled'[a][i])
              /\ handled'[a][i] \in SUBSET Neighbors[a]
              /\ \A b \in handled'[a][i] : Carried(i, b, a)
<1> DEFINE id == msg.id
           from == msg.from
<1>1. /\ queue[n] # <<>> /\ msg = Head(queue[n]) /\ task[n].pc = "idle"
      /\ queue' = [queue EXCEPT ![n] = Tail(@)]
      /\ message' = [message EXCEPT ![n][id] = IF @ = None THEN msg.content ELSE @]
      /\ counter' = [counter EXCEPT ![n][id] = @ + 1]
      /\ handled' = [handled EXCEPT ![n][id] = @ \cup {from}]
      /\ UNCHANGED <<firstNeighborId, alive, faults, carried>>
  BY DEF Accept, Free
<1>2. /\ msg \in Message /\ id \in Id /\ from \in Node
      /\ from \in Neighbors[n] /\ from \notin handled[n][id]
      /\ Carried(id, from, n) /\ Nonwhite(from, id)
      /\ msg.content = NoContent => Nonwhite(n, id)
      /\ msg.content # NoContent => msg.content = Content(id)
  BY <1>1, HeadFacts
<1>3. (IF message[n][id] = None THEN msg.content ELSE message[n][id]) = Content(id)
  <2>1. message[n][id] = IF Nonwhite(n, id) THEN Content(id) ELSE None
    BY <1>2 DEF Inv, MessageOK
  <2> QED
    BY <1>2, <2>1, ContentFacts
<1>4. /\ message' \in [Node -> [Id -> Contents \cup {None}]]
      /\ message'[n][id] = Content(id)
      /\ \A a \in Node, i \in Id : ~(a = n /\ i = id) => message'[a][i] = message[a][i]
  <2>1. message \in [Node -> [Id -> Contents \cup {None}]] /\ Content(id) \in Contents
    BY <1>2, ContentFacts DEF Inv, TypeOK
  <2>2. message' = [message EXCEPT ![n][id] = Content(id)]
    BY <1>1, <1>3
  <2> QED
    BY <1>2, <2>1, <2>2
<1>5. /\ handled' \in [Node -> [Id -> SUBSET Node]]
      /\ handled'[n][id] = handled[n][id] \cup {from}
      /\ \A a \in Node, i \in Id : ~(a = n /\ i = id) => handled'[a][i] = handled[a][i]
  <2>1. handled \in [Node -> [Id -> SUBSET Node]]
    BY DEF Inv, TypeOK
  <2> QED
    BY <1>1, <1>2, <2>1
<1>6. /\ counter' \in [Node -> [Id -> Nat]]
      /\ counter'[n][id] = counter[n][id] + 1
      /\ \A a \in Node, i \in Id : ~(a = n /\ i = id) => counter'[a][i] = counter[a][i]
  <2>1. counter \in [Node -> [Id -> Nat]]
    BY DEF Inv, TypeOK
  <2> QED
    BY <1>1, <1>2, <2>1
<1>7. ASSUME NEW a \in Node, NEW i \in Id
      PROVE  /\ counter[a][i] = Cardinality(handled[a][i])
             /\ handled[a][i] \in SUBSET Neighbors[a]
             /\ \A b \in handled[a][i] : Carried(i, b, a)
  <2>1. /\ counter[a][i] = Cardinality(handled[a][i])
        /\ \A b \in handled[a][i] : Carried(i, b, a)
        /\ handled[a][i] \in SUBSET Node
    BY DEF Inv, HandledOK, TypeOK
  <2>2. \A b \in handled[a][i] : a \in Neighbors[b]
    BY <2>1 DEF Inv, CarriedOK
  <2> QED
    BY <2>1, <2>2, NeighborFacts
<1>8. ASSUME NEW a \in Node, NEW i \in Id
      PROVE  /\ counter'[a][i] = Cardinality(handled'[a][i])
             /\ handled'[a][i] \in SUBSET Neighbors[a]
             /\ \A b \in handled'[a][i] : Carried(i, b, a)
  <2>1. CASE a = n /\ i = id
    <3>0. handled[n][id] \in SUBSET Neighbors[n] /\ IsFiniteSet(Neighbors[n])
      <4>1. IsFiniteSet(Neighbors[n])
        BY NeighborFacts
      <4>2. handled[n][id] \in SUBSET Neighbors[n]
        BY <1>2, <1>7
      <4> QED
        BY <4>1, <4>2
    <3>1. IsFiniteSet(handled[n][id])
      BY <3>0, FS_Subset
    <3>2. Cardinality(handled[n][id] \cup {from}) = Cardinality(handled[n][id]) + 1
      BY <1>2, <3>1, FS_AddElement
    <3> QED
      <4>1. counter[n][id] = Cardinality(handled[n][id])
        BY <1>2, <1>7
      <4>2. \A b \in handled[n][id] : Carried(id, b, n)
        BY <1>2, <1>7
      <4>3. counter'[n][id] = Cardinality(handled'[n][id])
        BY <1>5, <1>6, <3>2, <4>1
      <4> QED
        BY <1>2, <1>5, <2>1, <3>0, <4>2, <4>3
  <2>2. CASE ~(a = n /\ i = id)
    <3>1. handled'[a][i] = handled[a][i] /\ counter'[a][i] = counter[a][i]
      BY <1>5, <1>6, <2>2
    <3> QED
      BY <1>7, <3>1
  <2> QED
    BY <2>1, <2>2
<1>9. queue' \in [Node -> Seq(Message)] /\ QueueOK'
  BY <1>1, <1>2, <1>5, TakeFacts
<1>10. task[n].pc = "idle" /\ UNCHANGED <<firstNeighborId, alive, faults, carried>>
  BY <1>1
<1>11. /\ id \in Id /\ from \in Neighbors[n] /\ from \in Node
       /\ from \notin handled[n][id]
       /\ Carried(id, from, n) /\ Nonwhite(from, id)
  BY <1>2
<1>12. \A a \in Node, i \in Id : ~(a = n /\ i = id) =>
         /\ handled'[a][i] = handled[a][i]
         /\ message'[a][i] = message[a][i]
  BY <1>4, <1>5
<1>13. \A a \in Node, i \in Id :
         /\ counter'[a][i] = Cardinality(handled'[a][i])
         /\ handled'[a][i] \in SUBSET Neighbors[a]
         /\ \A b \in handled'[a][i] : Carried(i, b, a)
  BY <1>8
<1>14. /\ message' \in [Node -> [Id -> Contents \cup {None}]]
       /\ message'[n][id] = Content(id)
       /\ handled' \in [Node -> [Id -> SUBSET Node]]
       /\ handled'[n][id] = handled[n][id] \cup {from}
       /\ counter' \in [Node -> [Id -> Nat]]
       /\ counter'[n][id] = counter[n][id] + 1
  BY <1>4, <1>5, <1>6
<1> QED
  BY <1>9, <1>10, <1>11, <1>12, <1>13, <1>14

LEMMA ProcessFirstInv ==
  ASSUME Inv, NEW n \in Node, ProcessFirst(n)
  PROVE  Inv'
<1>0. PICK msg, id, from :
        /\ msg = Head(queue[n]) /\ id = msg.id /\ from = msg.from
        /\ Accept(n, msg)
        /\ state[n][id] = "white"
        /\ state' = [state EXCEPT ![n][id] = "red"]
        /\ unsent' = [unsent EXCEPT ![n][id] = ExplorerTargets(n, from)]
        /\ task' = [task EXCEPT ![n] = [pc |-> "explore", id |-> id, from |-> from]]
        /\ UNCHANGED distributed
  BY DEF ProcessFirst
<1>1. id \in Id /\ queue[n] # <<>>
  BY <1>0, HeadFacts DEF Accept
<1>2. \A a \in Node, i \in Id :
        /\ (a = n /\ i = id) => state'[a][i] = "red"
        /\ ~(a = n /\ i = id) => state'[a][i] = state[a][i]
  BY <1>0, <1>1 DEF Inv, TypeOK
<1>3. \A a \in Node, i \in Id :
        Nonwhite(a, i)' <=> (Nonwhite(a, i) \/ (a = n /\ i = id))
  BY <1>1, <1>2 DEF Nonwhite
<1>4. /\ from \in Neighbors[n] /\ from \in Node
      /\ Carried(id, from, n) /\ Nonwhite(from, id)
      /\ task[n].pc = "idle"
      /\ UNCHANGED <<firstNeighborId, alive, faults, carried>>
      /\ queue' \in [Node -> Seq(Message)] /\ QueueOK'
      /\ message' \in [Node -> [Id -> Contents \cup {None}]]
      /\ counter' \in [Node -> [Id -> Nat]]
      /\ handled' \in [Node -> [Id -> SUBSET Node]]
      /\ message'[n][id] = Content(id)
      /\ \A a \in Node, i \in Id : ~(a = n /\ i = id) =>
           /\ handled'[a][i] = handled[a][i]
           /\ message'[a][i] = message[a][i]
      /\ \A a \in Node, i \in Id :
           /\ counter'[a][i] = Cardinality(handled'[a][i])
           /\ \A b \in handled'[a][i] : Carried(i, b, a)
  <2>1. Accept(n, msg) /\ msg.id = id /\ msg.from = from
    BY <1>0
  <2>3. \A a \in Node, i \in Id : Nonwhite(a, i) => Nonwhite(a, i)'
    BY <1>3
  <2>4. /\ msg.id \in Id /\ msg.from \in Neighbors[n] /\ msg.from \in Node
        /\ Carried(msg.id, msg.from, n) /\ Nonwhite(msg.from, msg.id)
        /\ task[n].pc = "idle"
        /\ UNCHANGED <<firstNeighborId, alive, faults, carried>>
        /\ queue' \in [Node -> Seq(Message)] /\ QueueOK'
        /\ message' \in [Node -> [Id -> Contents \cup {None}]]
        /\ counter' \in [Node -> [Id -> Nat]]
        /\ handled' \in [Node -> [Id -> SUBSET Node]]
        /\ message'[n][msg.id] = Content(msg.id)
    BY <2>1, <2>3, AcceptFacts
  <2>5. \A a \in Node, i \in Id : ~(a = n /\ i = msg.id) =>
          /\ handled'[a][i] = handled[a][i]
          /\ message'[a][i] = message[a][i]
    BY <2>1, <2>3, AcceptFacts
  <2>6. \A a \in Node, i \in Id :
          /\ counter'[a][i] = Cardinality(handled'[a][i])
          /\ handled'[a][i] \in SUBSET Neighbors[a]
          /\ \A b \in handled'[a][i] : Carried(i, b, a)
    BY <2>1, <2>3, AcceptFacts
  <2> QED
    BY <2>1, <2>4, <2>5, <2>6
<1>5. ~Nonwhite(n, id) /\ n # Initiator[id] /\ from # n
  BY <1>0, <1>1, <1>4 DEF Inv, InitiatorOK, Nonwhite
<1>6. /\ ExplorerTargets(n, from) = Neighbors[n] \ {from}
      /\ ExplorerTargets(n, from) \in SUBSET Node
  BY NeighborFacts DEF ExplorerTargets
<1>7. /\ unsent' \in [Node -> [Id -> SUBSET Node]]
      /\ unsent'[n][id] = Neighbors[n] \ {from}
      /\ \A a \in Node, i \in Id : ~(a = n /\ i = id) => unsent'[a][i] = unsent[a][i]
  BY <1>0, <1>1, <1>6 DEF Inv, TypeOK
<1>8. /\ task' \in [Node -> Task]
      /\ task'[n] = [pc |-> "explore", id |-> id, from |-> from]
      /\ \A a \in Node : a # n => task'[a] = task[a]
  BY <1>0, <1>1, <1>4 DEF Inv, TypeOK, Task
<1>9. TypeOK'
  <2>1. state' \in [Node -> [Id -> {"white", "red", "green"}]]
    BY <1>0, <1>1 DEF Inv, TypeOK
  <2>2. /\ firstNeighborId' \in [Node -> [Id -> Node \cup {None}]]
        /\ alive' \in SUBSET Node /\ distributed' \in [Id -> Nat] /\ faults' \in Nat
        /\ carried' \in [Id -> [Node -> [Node -> Nat]]]
    BY <1>0, <1>4 DEF Inv, TypeOK
  <2> QED
    BY <1>4, <1>7, <1>8, <2>1, <2>2 DEF TypeOK
<1>10. /\ CarriedOK'
       /\ \A i \in Id : \A a, b \in Node : Carried(i, a, b)' <=> Carried(i, a, b)
  BY <1>3, <1>4, <1>5, <1>7, CarriedFrame
<1>11. \A a \in Node, i \in Id :
         /\ (a = n /\ i = id) => /\ Exploring(a, i)' /\ ~Echoing(a, i)'
                                 /\ Parent(a, i)' = from
         /\ ~(a = n /\ i = id) => /\ Exploring(a, i)' = Exploring(a, i)
                                  /\ Echoing(a, i)' = Echoing(a, i)
                                  /\ Parent(a, i)' = Parent(a, i)
  BY <1>4, <1>8 DEF Exploring, Echoing, Parent
<1>12. HandledOK'
  <2> SUFFICES ASSUME NEW a \in Node, NEW i \in Id
               PROVE  /\ counter'[a][i] = Cardinality(handled'[a][i])
                      /\ \A b \in handled'[a][i] : Carried(i, b, a)'
                      /\ state'[a][i] = "green" => handled'[a][i] = Neighbors[a]
                      /\ state'[a][i] = "white" => handled'[a][i] = {}
    BY DEF HandledOK
  <2>1. \A b \in handled'[a][i] : Carried(i, b, a)'
    BY <1>4 DEF Carried
  <2>2. CASE a = n /\ i = id
    BY <1>2, <1>4, <2>1, <2>2
  <2>3. CASE ~(a = n /\ i = id)
    <3>1. /\ state[a][i] = "green" => handled[a][i] = Neighbors[a]
          /\ state[a][i] = "white" => handled[a][i] = {}
      BY DEF Inv, HandledOK
    <3>2. state'[a][i] = state[a][i] /\ handled'[a][i] = handled[a][i]
      BY <1>2, <1>4, <2>3
    <3>3. counter'[a][i] = Cardinality(handled'[a][i])
      BY <1>4
    <3> QED
      BY <2>1, <3>1, <3>2, <3>3
  <2> QED
    BY <2>2, <2>3
<1>13. UnsentOK'
  <2> SUFFICES ASSUME NEW a \in Node, NEW i \in Id
               PROVE  /\ unsent'[a][i] \subseteq Neighbors[a]
                      /\ unsent'[a][i] # {} => /\ Nonwhite(a, i)'
                                               /\ a = Initiator[i] \/ Exploring(a, i)'
    BY DEF UnsentOK
  <2>1. CASE a = n /\ i = id
    BY <1>3, <1>7, <1>11, <2>1
  <2>2. CASE ~(a = n /\ i = id)
    BY <1>3, <1>7, <1>11, <2>2 DEF Inv, UnsentOK
  <2> QED
    BY <2>1, <2>2
<1>14. MessageOK'
  <2> SUFFICES ASSUME NEW a \in Node, NEW i \in Id
               PROVE  message'[a][i] = IF Nonwhite(a, i)' THEN Content(i) ELSE None
    BY DEF MessageOK
  <2>1. message[a][i] = IF Nonwhite(a, i) THEN Content(i) ELSE None
    BY DEF Inv, MessageOK
  <2>2. CASE a = n /\ i = id
    BY <1>3, <1>4, <2>2
  <2>3. CASE ~(a = n /\ i = id)
    <3>1. message'[a][i] = message[a][i] /\ (Nonwhite(a, i)' <=> Nonwhite(a, i))
      BY <1>3, <1>4, <2>3
    <3> QED
      BY <2>1, <3>1
  <2> QED
    BY <2>2, <2>3
<1>15. TaskOK'
  <2> SUFFICES ASSUME NEW a \in Node
               PROVE  /\ task'[a].pc = "explore" => state'[a][task'[a].id] = "red"
                      /\ task'[a].pc = "echo" => state'[a][task'[a].id] = "green"
                      /\ task'[a].pc # "idle" => a # Initiator[task'[a].id]
    BY DEF TaskOK
  <2>1. CASE a = n
    BY <1>1, <1>2, <1>5, <1>8, <2>1
  <2>2. CASE a # n
    <3>1. task'[a] = task[a] /\ task[a] \in Task
      BY <1>8, <2>2 DEF Inv, TypeOK
    <3>2. task[a].pc # "idle" => task[a].id \in Id
      BY <3>1 DEF Task, IdleTask
    <3> QED
      BY <1>2, <2>2, <3>1, <3>2 DEF Inv, TaskOK
  <2> QED
    BY <2>1, <2>2
<1>16. ParentOK'
  <2> SUFFICES ASSUME NEW a \in Node, NEW i \in Id, Nonwhite(a, i)', a # Initiator[i]
               PROVE  /\ Parent(a, i)' \in Node
                      /\ Carried(i, Parent(a, i), a)'
                      /\ Parent(a, i)' \notin unsent'[a][i]
                      /\ Carried(i, a, Parent(a, i))' =>
                           state'[a][i] = "green" /\ ~Echoing(a, i)'
    BY DEF ParentOK
  <2>0. carried' = carried
    BY <1>4
  <2>1. CASE a = n /\ i = id
    <3>1. ~Carried(id, n, from)
      BY <1>1, <1>4, <1>5 DEF Inv, CarriedOK
    <3> QED
      BY <1>4, <1>7, <1>11, <2>0, <2>1, <3>1 DEF Carried
  <2>2. CASE ~(a = n /\ i = id)
    <3>1. /\ Parent(a, i) \in Node
          /\ Carried(i, Parent(a, i), a)
          /\ Parent(a, i) \notin unsent[a][i]
          /\ Carried(i, a, Parent(a, i)) => state[a][i] = "green" /\ ~Echoing(a, i)
      BY <1>3, <2>2 DEF Inv, ParentOK
    <3> QED
      BY <1>2, <1>7, <1>11, <2>0, <2>2, <3>1 DEF Carried
  <2> QED
    BY <2>1, <2>2
<1>17. TreeOK'
  <2> SUFFICES ASSUME NEW i \in Id,
                      NEW S \in SUBSET {a \in Node : Nonwhite(a, i)' /\ a # Initiator[i]},
                      S # {}
               PROVE  \E a \in S : Parent(a, i)' \notin S
    BY DEF TreeOK
  <2>1. CASE ~(i = id /\ n \in S)
    <3>1. S \in SUBSET {a \in Node : Nonwhite(a, i) /\ a # Initiator[i]}
      BY <1>3, <2>1
    <3>2. PICK a \in S : Parent(a, i) \notin S
      BY <3>1 DEF Inv, TreeOK
    <3> QED
      BY <1>11, <2>1, <3>1, <3>2
  <2>2. CASE i = id /\ n \in S /\ S = {n}
    BY <1>5, <1>11, <2>2
  <2>3. CASE i = id /\ n \in S /\ S # {n}
    <3>1. /\ S \ {n} \in SUBSET {a \in Node : Nonwhite(a, i) /\ a # Initiator[i]}
          /\ S \ {n} # {}
      BY <1>3, <2>3
    <3>2. PICK a \in S \ {n} : Parent(a, i) \notin S \ {n}
      BY <3>1 DEF Inv, TreeOK
    <3>3. Nonwhite(a, i) /\ a # Initiator[i] /\ a \in Node
      BY <3>1, <3>2
    <3>4. Parent(a, i) \in Node /\ Carried(i, Parent(a, i), a)
      BY <3>3 DEF Inv, ParentOK
    <3>5. Nonwhite(Parent(a, i), i)
      BY <3>3, <3>4 DEF Inv, CarriedOK
    <3>6. Parent(a, i) # n
      BY <1>5, <2>3, <3>5
    <3> QED
      BY <1>11, <3>2, <3>3, <3>6
  <2> QED
    BY <2>1, <2>2, <2>3
<1>18. InitiatorOK'
  <2> SUFFICES ASSUME NEW i \in Id
               PROVE  /\ \A a \in Node : Nonwhite(a, i)' => Nonwhite(Initiator[i], i)'
                      /\ distributed'[i] = IF state'[Initiator[i]][i] = "green" THEN 1 ELSE 0
    BY DEF InitiatorOK
  <2>1. /\ \A a \in Node : Nonwhite(a, i) => Nonwhite(Initiator[i], i)
        /\ distributed[i] = IF state[Initiator[i]][i] = "green" THEN 1 ELSE 0
        /\ Initiator[i] \in Node
    BY InitiatorAssumption DEF Inv, InitiatorOK
  <2>2. i = id => Nonwhite(Initiator[i], i)
    BY <1>4, <2>1
  <2>3. state'[Initiator[i]][i] = state[Initiator[i]][i]
    BY <1>2, <1>5, <2>1
  <2> QED
    BY <1>0, <1>3, <2>1, <2>2, <2>3
<1> QED
  BY <1>4, <1>9, <1>10, <1>12, <1>13, <1>14, <1>15, <1>16, <1>17, <1>18 DEF Inv

\* The end of a handler: the node stays red and is done, or turns green and,
\* unless it is the initiator, goes on to its echo.
LEMMA CheckStep ==
  ASSUME Inv, NEW n \in Node, NEW id \in Id, NEW from \in Node, NEW c,
         CheckCounter(n, id, c, from), state[n][id] = "red"
  PROVE  /\ state' \in [Node -> [Id -> {"white", "red", "green"}]]
         /\ task' \in [Node -> Task] /\ distributed' \in [Id -> Nat]
         /\ \A a \in Node, i \in Id : ~(a = n /\ i = id) => state'[a][i] = state[a][i]
         /\ \A a \in Node : a # n => task'[a] = task[a]
         /\ \A i \in Id : i # id => distributed'[i] = distributed[i]
         /\ \/ /\ c = Cardinality(Neighbors[n]) /\ state'[n][id] = "green"
               /\ \/ /\ n = Initiator[id] /\ distributed'[id] = distributed[id] + 1
                     /\ task'[n] = IdleTask
                  \/ /\ n # Initiator[id] /\ distributed'[id] = distributed[id]
                     /\ task'[n] = [pc |-> "echo", id |-> id, from |-> from]
            \/ /\ state'[n][id] = "red" /\ distributed'[id] = distributed[id]
               /\ task'[n] = IdleTask
<1>0. /\ state \in [Node -> [Id -> {"white", "red", "green"}]]
      /\ task \in [Node -> Task] /\ distributed \in [Id -> Nat]
  BY DEF Inv, TypeOK
<1>1. IdleTask \in Task /\ [pc |-> "echo", id |-> id, from |-> from] \in Task
  BY DEF Task
<1>2. CASE ~AllHeard(n, c)
  <2>1. task' = [task EXCEPT ![n] = IdleTask] /\ UNCHANGED <<state, distributed>>
    BY <1>2 DEF CheckCounter
  <2>2. task' \in [Node -> Task] /\ task'[n] = IdleTask
    BY <1>0, <1>1, <2>1
  <2> QED
    BY <1>0, <2>1, <2>2
<1>3. CASE AllHeard(n, c) /\ n = Initiator[id]
  <2>1. /\ state' = [state EXCEPT ![n][id] = "green"]
        /\ distributed' = [distributed EXCEPT ![id] = @ + 1]
        /\ task' = [task EXCEPT ![n] = IdleTask]
    BY <1>3 DEF CheckCounter
  <2>2. task' \in [Node -> Task] /\ task'[n] = IdleTask /\ \A a \in Node : a # n => task'[a] = task[a]
    BY <1>0, <1>1, <2>1
  <2>3. /\ state' \in [Node -> [Id -> {"white", "red", "green"}]]
        /\ state'[n][id] = "green"
        /\ \A a \in Node, i \in Id : ~(a = n /\ i = id) => state'[a][i] = state[a][i]
    BY <1>0, <2>1
  <2>4. /\ distributed' \in [Id -> Nat] /\ distributed'[id] = distributed[id] + 1
        /\ \A i \in Id : i # id => distributed'[i] = distributed[i]
    BY <1>0, <2>1
  <2> QED
    BY <1>3, <2>2, <2>3, <2>4 DEF AllHeard
<1>4. CASE AllHeard(n, c) /\ n # Initiator[id]
  <2>1. /\ state' = [state EXCEPT ![n][id] = "green"]
        /\ task' = [task EXCEPT ![n] = [pc |-> "echo", id |-> id, from |-> from]]
        /\ UNCHANGED distributed
    BY <1>4 DEF CheckCounter
  <2>2. /\ task' \in [Node -> Task]
        /\ task'[n] = [pc |-> "echo", id |-> id, from |-> from]
        /\ \A a \in Node : a # n => task'[a] = task[a]
    BY <1>0, <1>1, <2>1
  <2>3. /\ state' \in [Node -> [Id -> {"white", "red", "green"}]]
        /\ state'[n][id] = "green"
        /\ \A a \in Node, i \in Id : ~(a = n /\ i = id) => state'[a][i] = state[a][i]
    BY <1>0, <2>1
  <2> QED
    BY <1>0, <1>4, <2>1, <2>2, <2>3 DEF AllHeard
<1> QED
  BY <1>2, <1>3, <1>4

\* A handler that comes to its end keeps the invariant: the node is green only
\* after all its neighbours, and its first neighbour keeps waiting for it.
LEMMA CheckInv ==
  ASSUME Inv, NEW n \in Node, NEW id \in Id, NEW from \in Node, NEW c,
         CheckCounter(n, id, c, from), state[n][id] = "red",
         c = Cardinality(handled'[n][id]), task[n].pc # "echo",
         \A i \in Id : Exploring(n, i) => unsent[n][i] = {},
         UNCHANGED <<unsent, alive, faults, carried>>,
         QueueOK', queue' \in [Node -> Seq(Message)],
         message' \in [Node -> [Id -> Contents \cup {None}]],
         counter' \in [Node -> [Id -> Nat]],
         firstNeighborId' \in [Node -> [Id -> Node \cup {None}]],
         handled' \in [Node -> [Id -> SUBSET Node]],
         \A a \in Node, i \in Id : message'[a][i] = message[a][i],
         \A a \in Node, i \in Id : Parent(a, i)' = Parent(a, i),
         \A a \in Node, i \in Id : ~(a = n /\ i = id) => handled'[a][i] = handled[a][i],
         \A a \in Node, i \in Id :
            /\ counter'[a][i] = Cardinality(handled'[a][i])
            /\ handled'[a][i] \in SUBSET Neighbors[a]
            /\ \A b \in handled'[a][i] : Carried(i, b, a)
  PROVE  Inv'
<1>1. /\ state' \in [Node -> [Id -> {"white", "red", "green"}]]
      /\ task' \in [Node -> Task] /\ distributed' \in [Id -> Nat]
      /\ \A a \in Node, i \in Id : ~(a = n /\ i = id) => state'[a][i] = state[a][i]
      /\ \A a \in Node : a # n => task'[a] = task[a]
      /\ \A i \in Id : i # id => distributed'[i] = distributed[i]
      /\ \/ /\ c = Cardinality(Neighbors[n]) /\ state'[n][id] = "green"
            /\ \/ /\ n = Initiator[id] /\ distributed'[id] = distributed[id] + 1
                  /\ task'[n] = IdleTask
               \/ /\ n # Initiator[id] /\ distributed'[id] = distributed[id]
                  /\ task'[n] = [pc |-> "echo", id |-> id, from |-> from]
         \/ /\ state'[n][id] = "red" /\ distributed'[id] = distributed[id]
            /\ task'[n] = IdleTask
  BY CheckStep
<1>2. \A a \in Node, i \in Id : Nonwhite(a, i)' <=> Nonwhite(a, i)
  <2>1. state'[n][id] # "white" /\ state[n][id] # "white"
    BY <1>1
  <2>2. \A a \in Node, i \in Id : ~(a = n /\ i = id) => state'[a][i] = state[a][i]
    BY <1>1
  <2> SUFFICES ASSUME NEW a \in Node, NEW i \in Id
               PROVE  state'[a][i] # "white" <=> state[a][i] # "white"
    BY DEF Nonwhite
  <2>3. CASE a = n /\ i = id
    BY <2>1, <2>3
  <2>4. CASE ~(a = n /\ i = id)
    BY <2>2, <2>4
  <2> QED
    BY <2>3, <2>4
<1>3. TypeOK'
  BY <1>1 DEF Inv, TypeOK
<1>4. /\ CarriedOK'
      /\ \A i \in Id : \A a, b \in Node : Carried(i, a, b)' <=> Carried(i, a, b)
  BY <1>2, CarriedFrame
<1>5. HandledOK'
  <2> SUFFICES ASSUME NEW a \in Node, NEW i \in Id
               PROVE  /\ counter'[a][i] = Cardinality(handled'[a][i])
                      /\ \A b \in handled'[a][i] : Carried(i, b, a)'
                      /\ state'[a][i] = "green" => handled'[a][i] = Neighbors[a]
                      /\ state'[a][i] = "white" => handled'[a][i] = {}
    BY DEF HandledOK
  <2>1. /\ counter'[a][i] = Cardinality(handled'[a][i])
        /\ handled'[a][i] \in SUBSET Neighbors[a]
        /\ \A b \in handled'[a][i] : Carried(i, b, a)
    OBVIOUS
  <2>2. \A b \in handled'[a][i] : Carried(i, b, a)'
    BY <2>1 DEF Carried
  <2>3. CASE a = n /\ i = id
    <3>1. state'[a][i] = "green" => Cardinality(handled'[n][id]) = Cardinality(Neighbors[n])
      BY <1>1, <2>3
    <3>2. handled'[n][id] \in SUBSET Neighbors[n] /\ IsFiniteSet(Neighbors[n])
      BY <2>1, <2>3, NeighborFacts
    <3>3. state'[a][i] = "green" => handled'[n][id] = Neighbors[n]
      BY <3>1, <3>2, FS_Subset
    <3>4. state'[a][i] # "white"
      BY <1>1, <2>3
    <3> QED
      BY <2>1, <2>2, <2>3, <3>3, <3>4
  <2>4. CASE ~(a = n /\ i = id)
    <3>1. handled'[a][i] = handled[a][i] /\ state'[a][i] = state[a][i]
      BY <1>1, <2>4
    <3>2. /\ state[a][i] = "green" => handled[a][i] = Neighbors[a]
          /\ state[a][i] = "white" => handled[a][i] = {}
      BY DEF Inv, HandledOK
    <3> QED
      BY <2>1, <2>2, <3>1, <3>2
  <2> QED
    BY <2>3, <2>4
<1>6. /\ \A i \in Id : ~Exploring(n, i)'
      /\ \A i \in Id : Echoing(n, i)' => i = id /\ state'[n][id] = "green" /\ n # Initiator[id]
  BY <1>1 DEF Exploring, Echoing, IdleTask
<1>7. \A a \in Node, i \in Id : a # n =>
        /\ Exploring(a, i)' = Exploring(a, i)
        /\ Echoing(a, i)' = Echoing(a, i)
  BY <1>1 DEF Exploring, Echoing
<1>8. UnsentOK'
  <2> SUFFICES ASSUME NEW a \in Node, NEW i \in Id
               PROVE  /\ unsent'[a][i] \subseteq Neighbors[a]
                      /\ unsent'[a][i] # {} => /\ Nonwhite(a, i)'
                                               /\ a = Initiator[i] \/ Exploring(a, i)'
    BY DEF UnsentOK
  <2>1. /\ unsent[a][i] \subseteq Neighbors[a]
        /\ unsent[a][i] # {} => /\ Nonwhite(a, i)
                                /\ a = Initiator[i] \/ Exploring(a, i)
    BY DEF Inv, UnsentOK
  <2> QED
    BY <1>2, <1>7, <2>1
<1>9. MessageOK'
  BY <1>2 DEF Inv, MessageOK
<1>10. TaskOK'
  <2> SUFFICES ASSUME NEW a \in Node
               PROVE  /\ task'[a].pc = "explore" => state'[a][task'[a].id] = "red"
                      /\ task'[a].pc = "echo" => state'[a][task'[a].id] = "green"
                      /\ task'[a].pc # "idle" => a # Initiator[task'[a].id]
    BY DEF TaskOK
  <2>1. CASE a = n
    BY <1>1, <2>1 DEF IdleTask
  <2>2. CASE a # n
    <3>1. task'[a] = task[a] /\ task[a] \in Task
      BY <1>1, <2>2 DEF Inv, TypeOK
    <3>2. task[a].pc # "idle" => task[a].id \in Id
      BY <3>1 DEF Task, IdleTask
    <3>3. /\ task[a].pc = "explore" => state[a][task[a].id] = "red"
          /\ task[a].pc = "echo" => state[a][task[a].id] = "green"
          /\ task[a].pc # "idle" => a # Initiator[task[a].id]
      BY DEF Inv, TaskOK
    <3>4. task[a].pc \in {"idle", "explore", "echo"}
      BY <3>1 DEF Task, IdleTask
    <3> QED
      BY <1>1, <2>2, <3>1, <3>2, <3>3, <3>4
  <2> QED
    BY <2>1, <2>2
<1>11. ParentOK'
  <2> SUFFICES ASSUME NEW a \in Node, NEW i \in Id, Nonwhite(a, i)', a # Initiator[i]
               PROVE  /\ Parent(a, i)' \in Node
                      /\ Carried(i, Parent(a, i), a)'
                      /\ Parent(a, i)' \notin unsent'[a][i]
                      /\ Carried(i, a, Parent(a, i))' =>
                           state'[a][i] = "green" /\ ~Echoing(a, i)'
    BY DEF ParentOK
  <2>1. /\ Parent(a, i) \in Node
        /\ Carried(i, Parent(a, i), a)
        /\ Parent(a, i) \notin unsent[a][i]
        /\ Carried(i, a, Parent(a, i)) => state[a][i] = "green" /\ ~Echoing(a, i)
    BY <1>2 DEF Inv, ParentOK
  <2>2. Parent(a, i)' = Parent(a, i)
    OBVIOUS
  <2>3. Carried(i, Parent(a, i), a)' /\ (Carried(i, a, Parent(a, i))' => Carried(i, a, Parent(a, i)))
    BY <2>1, <2>2 DEF Carried
  <2>4. CASE a = n /\ i = id
    BY <2>1, <2>2, <2>3, <2>4
  <2>5. CASE a = n /\ i # id
    BY <1>1, <1>6, <2>1, <2>2, <2>3, <2>5
  <2>6. CASE a # n
    BY <1>1, <1>7, <2>1, <2>2, <2>3, <2>6
  <2> QED
    BY <2>4, <2>5, <2>6
<1>12. TreeOK'
  BY <1>2, TreeFrame
<1>13. InitiatorOK'
  <2> SUFFICES ASSUME NEW i \in Id
               PROVE  /\ \A a \in Node : Nonwhite(a, i)' => Nonwhite(Initiator[i], i)'
                      /\ distributed'[i] = IF state'[Initiator[i]][i] = "green" THEN 1 ELSE 0
    BY DEF InitiatorOK
  <2>1. /\ \A a \in Node : Nonwhite(a, i) => Nonwhite(Initiator[i], i)
        /\ distributed[i] = IF state[Initiator[i]][i] = "green" THEN 1 ELSE 0
        /\ Initiator[i] \in Node
    BY InitiatorAssumption DEF Inv, InitiatorOK
  <2>2. \A a \in Node : Nonwhite(a, i)' => Nonwhite(Initiator[i], i)'
    BY <1>2, <2>1
  <2>3. CASE i # id
    BY <1>1, <2>1, <2>2, <2>3
  <2>4. CASE i = id /\ n = Initiator[id]
    BY <1>1, <2>1, <2>2, <2>4
  <2>5. CASE i = id /\ n # Initiator[id]
    BY <1>1, <2>1, <2>2, <2>5
  <2> QED
    BY <2>3, <2>4, <2>5
<1> QED
  BY <1>3, <1>4, <1>5, <1>8, <1>9, <1>10, <1>11, <1>12, <1>13 DEF Inv

LEMMA ProcessNextInv ==
  ASSUME Inv, NEW n \in Node, ProcessNext(n)
  PROVE  Inv'
<1>0. PICK msg, id, from, c :
        /\ msg = Head(queue[n]) /\ id = msg.id /\ from = msg.from
        /\ Accept(n, msg)
        /\ state[n][id] # "white"
        /\ c = counter[n][id] + 1 /\ CheckCounter(n, id, c, from)
        /\ UNCHANGED unsent
  BY DEF ProcessNext
<1>1. id \in Id /\ from \in Node /\ from \in Neighbors[n] /\ from \notin handled[n][id]
  BY <1>0, HeadFacts DEF Accept
<1>2. state[n][id] = "red"
  <2>1. state[n][id] \in {"white", "red", "green"}
    BY <1>1 DEF Inv, TypeOK
  <2>2. state[n][id] # "green"
    BY <1>1 DEF Inv, HandledOK
  <2> QED
    BY <1>0, <2>1, <2>2
<1>3. /\ \A a \in Node, i \in Id : ~(a = n /\ i = id) => state'[a][i] = state[a][i]
      /\ state'[n][id] # "white"
      /\ task'[n].pc # "explore" /\ \A a \in Node : a # n => task'[a] = task[a]
  <2>1. CheckCounter(n, id, c, from)
    BY <1>0
  <2>2. /\ \A a \in Node, i \in Id : ~(a = n /\ i = id) => state'[a][i] = state[a][i]
        /\ state'[n][id] \in {"red", "green"}
        /\ task'[n] \in {IdleTask, [pc |-> "echo", id |-> id, from |-> from]}
        /\ \A a \in Node : a # n => task'[a] = task[a]
    BY <1>1, <1>2, <2>1, CheckStep
  <2> QED
    BY <2>2 DEF IdleTask
<1>4. \A a \in Node, i \in Id : Nonwhite(a, i) => Nonwhite(a, i)'
  BY <1>3 DEF Nonwhite
<1>5. /\ Accept(n, msg) /\ msg.id = id /\ msg.from = from
  BY <1>0
<1>6. /\ task[n].pc = "idle"
      /\ UNCHANGED <<firstNeighborId, alive, faults, carried>>
      /\ queue' \in [Node -> Seq(Message)] /\ QueueOK'
      /\ message' \in [Node -> [Id -> Contents \cup {None}]]
      /\ counter' \in [Node -> [Id -> Nat]]
      /\ handled' \in [Node -> [Id -> SUBSET Node]]
      /\ counter'[n][msg.id] = counter[n][msg.id] + 1
      /\ message'[n][msg.id] = Content(msg.id)
  BY <1>4, <1>5, AcceptFacts
<1>7. \A a \in Node, i \in Id : ~(a = n /\ i = msg.id) =>
        /\ handled'[a][i] = handled[a][i]
        /\ message'[a][i] = message[a][i]
  BY <1>4, <1>5, AcceptFacts
<1>8. \A a \in Node, i \in Id :
        /\ counter'[a][i] = Cardinality(handled'[a][i])
        /\ handled'[a][i] \in SUBSET Neighbors[a]
        /\ \A b \in handled'[a][i] : Carried(i, b, a)
  BY <1>4, <1>5, AcceptFacts
<1>9. \A a \in Node, i \in Id : message'[a][i] = message[a][i]
  <2>1. message[n][id] = Content(id)
    BY <1>1, <1>2 DEF Inv, MessageOK, Nonwhite
  <2> QED
    BY <1>5, <1>6, <1>7, <2>1
<1>10. \A a \in Node, i \in Id : Parent(a, i)' = Parent(a, i)
  BY <1>3, <1>6 DEF Parent, Exploring
<1>11. \A a \in Node, i \in Id : ~(a = n /\ i = id) => handled'[a][i] = handled[a][i]
  BY <1>5, <1>7
<1>12. /\ \A i \in Id : Exploring(n, i) => unsent[n][i] = {}
       /\ task[n].pc # "echo"
  BY <1>6 DEF Exploring
<1>13. firstNeighborId' \in [Node -> [Id -> Node \cup {None}]]
  BY <1>6 DEF Inv, TypeOK
<1>14. c = Cardinality(handled'[n][id]) /\ CheckCounter(n, id, c, from)
  <2>1. counter'[n][id] = Cardinality(handled'[n][id])
    BY <1>1, <1>8
  <2>2. counter'[n][id] = c
    BY <1>0, <1>5, <1>6
  <2> QED
    BY <1>0, <2>1, <2>2
<1>15. UNCHANGED <<unsent, alive, faults, carried>>
  BY <1>0, <1>6
<1> QED
  BY <1>1, <1>2, <1>6, <1>8, <1>9, <1>10, <1>11, <1>12, <1>13, <1>14, <1>15, CheckInv

LEMMA FinishExploringInv ==
  ASSUME Inv, NEW n \in Node, FinishExploring(n)
  PROVE  Inv'
<1>0. PICK id, from, c :
        /\ id = task[n].id /\ from = task[n].from /\ c = counter[n][id]
        /\ task[n].pc = "explore"
        /\ unsent[n][id] = {}
        /\ firstNeighborId' = [firstNeighborId EXCEPT ![n][id] = from]
        /\ CheckCounter(n, id, c, from)
        /\ UNCHANGED <<counter, message, unsent, queue, alive, faults, carried, handled>>
  BY DEF FinishExploring, history
<1>1. id \in Id /\ from \in Node
  BY <1>0 DEF Inv, TypeOK, Task, IdleTask
<1>2. state[n][id] = "red"
  BY <1>0 DEF Inv, TaskOK
<1>3. /\ \A a \in Node, i \in Id : ~(a = n /\ i = id) => state'[a][i] = state[a][i]
      /\ state'[n][id] # "white"
      /\ task'[n].pc # "explore" /\ \A a \in Node : a # n => task'[a] = task[a]
  <2>1. CheckCounter(n, id, c, from)
    BY <1>0
  <2>2. /\ \A a \in Node, i \in Id : ~(a = n /\ i = id) => state'[a][i] = state[a][i]
        /\ state'[n][id] \in {"red", "green"}
        /\ task'[n] \in {IdleTask, [pc |-> "echo", id |-> id, from |-> from]}
        /\ \A a \in Node : a # n => task'[a] = task[a]
    BY <1>1, <1>2, <2>1, CheckStep
  <2> QED
    BY <2>2 DEF IdleTask
<1>4. \A a \in Node, i \in Id : Nonwhite(a, i) => Nonwhite(a, i)'
  BY <1>3 DEF Nonwhite
<1>5. /\ firstNeighborId' \in [Node -> [Id -> Node \cup {None}]]
      /\ firstNeighborId'[n][id] = from
      /\ \A a \in Node, i \in Id : ~(a = n /\ i = id) =>
           firstNeighborId'[a][i] = firstNeighborId[a][i]
  <2>1. firstNeighborId \in [Node -> [Id -> Node \cup {None}]]
    BY DEF Inv, TypeOK
  <2> QED
    BY <1>0, <1>1, <2>1
<1>6. \A a \in Node, i \in Id : Parent(a, i)' = Parent(a, i)
  <2> SUFFICES ASSUME NEW a \in Node, NEW i \in Id
               PROVE  Parent(a, i)' = Parent(a, i)
    OBVIOUS
  <2>1. CASE a = n /\ i = id
    BY <1>0, <1>3, <1>5, <2>1 DEF Parent, Exploring
  <2>2. CASE a = n /\ i # id
    BY <1>0, <1>3, <1>5, <2>2 DEF Parent, Exploring
  <2>3. CASE a # n
    BY <1>3, <1>5, <2>3 DEF Parent, Exploring
  <2> QED
    BY <2>1, <2>2, <2>3
<1>7. QueueOK' /\ queue' \in [Node -> Seq(Message)]
  <2>1. QueueOK'
    BY <1>0, <1>4, QueueFrame
  <2> QED
    BY <1>0, <2>1 DEF Inv, TypeOK
<1>8. \A a \in Node, i \in Id :
        /\ counter'[a][i] = Cardinality(handled'[a][i])
        /\ handled'[a][i] \in SUBSET Neighbors[a]
        /\ \A b \in handled'[a][i] : Carried(i, b, a)
  <2> SUFFICES ASSUME NEW a \in Node, NEW i \in Id
               PROVE  /\ counter[a][i] = Cardinality(handled[a][i])
                      /\ handled[a][i] \in SUBSET Neighbors[a]
                      /\ \A b \in handled[a][i] : Carried(i, b, a)
    BY <1>0
  <2>1. /\ counter[a][i] = Cardinality(handled[a][i])
        /\ \A b \in handled[a][i] : Carried(i, b, a)
        /\ handled[a][i] \in SUBSET Node
    BY DEF Inv, HandledOK, TypeOK
  <2>2. \A b \in handled[a][i] : a \in Neighbors[b]
    BY <2>1 DEF Inv, CarriedOK
  <2> QED
    BY <2>1, <2>2, NeighborFacts
<1>9. c = Cardinality(handled'[n][id])
  BY <1>0, <1>1, <1>8
<1>10. \A i \in Id : Exploring(n, i) => unsent[n][i] = {}
  BY <1>0 DEF Exploring
<1>11. /\ message' \in [Node -> [Id -> Contents \cup {None}]]
       /\ counter' \in [Node -> [Id -> Nat]]
       /\ handled' \in [Node -> [Id -> SUBSET Node]]
  BY <1>0 DEF Inv, TypeOK
<1>12. /\ UNCHANGED <<unsent, alive, faults, carried>>
       /\ CheckCounter(n, id, c, from) /\ task[n].pc # "echo"
       /\ \A a \in Node, i \in Id : message'[a][i] = message[a][i]
       /\ \A a \in Node, i \in Id : ~(a = n /\ i = id) => handled'[a][i] = handled[a][i]
  BY <1>0
<1> QED
  BY <1>1, <1>2, <1>5, <1>6, <1>7, <1>8, <1>9, <1>10, <1>11, <1>12, CheckInv

-----------------------------------------------------------------------------
(* The invariant holds in every reachable state.                           *)

LEMMA InvNext == Inv /\ [Next]_vars => Inv'
<1> SUFFICES ASSUME Inv, [Next]_vars PROVE Inv'
  OBVIOUS
<1>1. ASSUME NEW id \in Id, InitEcho(id) PROVE Inv'
  BY <1>1, InitEchoInv
<1>2. ASSUME NEW id \in Id, InitiatorSend(id) PROVE Inv'
  BY <1>2, SendExplorerInv, InitiatorAssumption DEF InitiatorSend
<1>3. ASSUME NEW n \in Node, HandlerStep(n) PROVE Inv'
  <2>1. CASE ProcessFirst(n)
    BY <2>1, ProcessFirstInv
  <2>2. CASE ProcessNext(n)
    BY <2>2, ProcessNextInv
  <2>3. CASE HandlerSend(n)
    <3>1. task[n].id \in Id
      BY <2>3 DEF HandlerSend, Inv, TypeOK, Task, IdleTask
    <3> QED
      BY <2>3, <3>1, SendExplorerInv DEF HandlerSend
  <2>4. CASE FinishExploring(n)
    BY <2>4, FinishExploringInv
  <2>5. CASE SendEcho(n)
    BY <2>5, SendEchoInv
  <2> QED
    BY <1>3, <2>1, <2>2, <2>3, <2>4, <2>5 DEF HandlerStep
<1>4. ASSUME NEW n \in Node, Discard(n) PROVE Inv'
  BY <1>4, DiscardInv
<1>5. ASSUME NEW n \in Node, Crash(n) PROVE Inv'
  BY <1>5, CrashInv
<1>6. CASE UNCHANGED vars
  BY <1>6, StutterInv
<1> QED
  BY <1>1, <1>2, <1>3, <1>4, <1>5, <1>6 DEF Next

\* The inductive invariant of the campaigns: what the nodes believe is
\* explained by what the edges have carried, and their first neighbours form a
\* tree with the initiator at its root (echoAlgorithm.js:57-89).
THEOREM Invariance == Spec => []Inv
<1>1. Init => Inv
  BY InvInit
<1>2. Inv /\ [Next]_vars => Inv'
  BY InvNext
<1> QED
  BY <1>1, <1>2, PTL DEF Spec

\* The types of the variables (echoStates.js, the queue of the semaphore).
THEOREM TypeCorrect == Spec => []TypeOK
<1>1. Inv => TypeOK
  BY DEF Inv
<1> QED
  BY <1>1, Invariance, PTL

-----------------------------------------------------------------------------
(* What the invariant says of a campaign that is complete.                 *)

\* Every node is green: the nodes that are red would lead along the tree to
\* one whose parent is green without having heard from it, and a white node
\* next to a green one would have been heard of without sending.
LEMMA CompletionGreen ==
  ASSUME Inv, NEW id \in Id, Complete(id), NEW n \in Node
  PROVE  state[n][id] = "green"
<1> DEFINE red == {a \in Node : Nonwhite(a, id) /\ state[a][id] # "green"}
           colored == {a \in Node : Nonwhite(a, id)}
<1>1. Initiator[id] \in Node /\ state[Initiator[id]][id] = "green"
  <2>1. distributed[id] = IF state[Initiator[id]][id] = "green" THEN 1 ELSE 0
    BY DEF Inv, InitiatorOK
  <2> QED
    BY <2>1, InitiatorAssumption DEF Complete
<1>2. ASSUME NEW a \in Node, NEW b \in Neighbors[a], state[a][id] = "green"
      PROVE  b \in Node /\ Carried(id, b, a) /\ Nonwhite(b, id)
  <2>1. b \in Node /\ b \in handled[a][id]
    BY <1>2, NeighborFacts DEF Inv, HandledOK
  <2>2. Carried(id, b, a)
    BY <2>1 DEF Inv, HandledOK
  <2> QED
    BY <2>1, <2>2 DEF Inv, CarriedOK
<1>3. red = {}
  <2> SUFFICES ASSUME red # {} PROVE FALSE
    OBVIOUS
  <2>1. red \in SUBSET {a \in Node : Nonwhite(a, id) /\ a # Initiator[id]}
    BY <1>1
  <2>2. PICK a \in red : Parent(a, id) \notin red
    BY <2>1 DEF Inv, TreeOK
  <2>3. a \in Node /\ Nonwhite(a, id) /\ a # Initiator[id] /\ state[a][id] # "green"
    BY <2>1, <2>2
  <2>4. PICK p \in Node : p = Parent(a, id) /\ Carried(id, p, a)
    BY <2>3 DEF Inv, ParentOK
  <2>5. a \in Neighbors[p] /\ Nonwhite(p, id)
    BY <2>3, <2>4 DEF Inv, CarriedOK
  <2>6. state[p][id] = "green"
    BY <2>2, <2>4, <2>5
  <2>7. Carried(id, a, p)
    BY <1>2, <2>5, <2>6
  <2> QED
    BY <2>3, <2>4, <2>7 DEF Inv, ParentOK
<1>4. colored = Node
  <2> SUFFICES ASSUME colored # Node PROVE FALSE
    OBVIOUS
  <2>1. colored \in SUBSET Node /\ Initiator[id] \in colored
    BY <1>1 DEF Nonwhite
  <2>2. PICK a \in colored, b \in Node \ colored : b \in Neighbors[a]
    BY <2>1, ConnectedAssumption
  <2>3. a \in Node /\ state[a][id] = "green"
    BY <1>3, <2>1, <2>2
  <2>4. Nonwhite(b, id)
    BY <1>2, <2>2, <2>3
  <2> QED
    BY <2>2, <2>4
<1> QED
  BY <1>3, <1>4

LEMMA CompletionFacts ==
  ASSUME Inv, NEW id \in Id, Complete(id), NEW n \in Node
  PROVE  /\ handled[n][id] = Neighbors[n]
         /\ \A m \in Neighbors[n] : Carried(id, m, n) /\ Carried(id, n, m)
<1>1. \A a \in Node : /\ handled[a][id] = Neighbors[a]
                      /\ \A b \in handled[a][id] : Carried(id, b, a)
  BY CompletionGreen DEF Inv, HandledOK
<1>2. ASSUME NEW m \in Neighbors[n]
      PROVE  Carried(id, m, n) /\ Carried(id, n, m)
  <2>1. m \in Node /\ n \in Neighbors[m]
    BY NeighborFacts
  <2> QED
    BY <1>1, <2>1
<1> QED
  BY <1>1, <1>2

LEMMA CompletionInv == Inv => CompletionInformsAll
<1> SUFFICES ASSUME Inv, NEW id \in Id, Complete(id), NEW n \in Node
             PROVE  state[n][id] = "green" /\ message[n][id] = Content(id)
  BY DEF CompletionInformsAll
<1>1. state[n][id] = "green"
  BY CompletionGreen
<1> QED
  BY <1>1 DEF Inv, MessageOK, Nonwhite

\* A completed campaign has reached every node, with the content of its
\* initiator, whatever failed and in whatever order messages were handled
\* (echoAlgorithm.js:64-65, 79-83).
THEOREM CompletionInformsAllHolds == Spec => []CompletionInformsAll
BY CompletionInv, Invariance, PTL

\* The callback of a campaign runs at most once, in every interleaving of its
\* messages (echoAlgorithm.js:79-83).
THEOREM DistributedOnceHolds == Spec => []DistributedOnce
<1>1. Inv => DistributedOnce
  BY DEF Inv, InitiatorOK, DistributedOnce
<1> QED
  BY <1>1, Invariance, PTL

\* Nothing of a completed campaign is left in a queue, in a handler or in a
\* loop, and every edge has carried it once in each direction
\* (echoAlgorithm.js:79-83, 91-97).
THEOREM NothingPendingAtCompletionHolds == Spec => []NothingPendingAtCompletion
<1>1. Inv => NothingPendingAtCompletion
  <2> SUFFICES ASSUME Inv, NEW id \in Id, Complete(id), NEW n \in Node
               PROVE  /\ \A m \in Neighbors[n] : carried[id][n][m] = 1
                      /\ unsent[n][id] = {}
                      /\ task[n].pc # "idle" => task[n].id # id
                      /\ \A i \in 1..Len(queue[n]) : queue[n][i].id # id
    BY DEF NothingPendingAtCompletion
  <2>1. \A m \in Neighbors[n] : m \in Node /\ Carried(id, n, m)
    BY CompletionFacts, NeighborFacts
  <2>2. \A m \in Neighbors[n] : carried[id][n][m] = 1
    BY <2>1 DEF Inv, CarriedOK, Carried
  <2>3. unsent[n][id] = {}
    <3>1. \A m \in Neighbors[n] : m \notin unsent[n][id]
      BY <2>1 DEF Inv, CarriedOK
    <3> QED
      BY <3>1 DEF Inv, UnsentOK
  <2>4. task[n].pc # "idle" => task[n].id # id
    <3> SUFFICES ASSUME task[n].pc # "idle", task[n].id = id PROVE FALSE
      OBVIOUS
    <3>1. state[n][id] = "green"
      BY CompletionGreen
    <3>2. task[n].pc = "explore" \/ task[n].pc = "echo"
      BY DEF Inv, TypeOK, Task, IdleTask
    <3>3. task[n].pc = "echo"
      BY <3>1, <3>2 DEF Inv, TaskOK
    <3> QED
      BY <2>1, <3>3, EchoingFacts
  <2>5. ASSUME NEW i \in 1..Len(queue[n]), queue[n][i].id = id PROVE FALSE
    <3>1. queue[n][i] \in Message /\ WaitingOK(n, i)
      BY DEF Inv, TypeOK, QueueOK
    <3>2. PICK m \in Node : /\ m = queue[n][i].from
                            /\ Carried(id, m, n) /\ m \notin handled[n][id]
      BY <2>5, <3>1 DEF WaitingOK, Message
    <3>3. n \in Neighbors[m]
      BY <3>2 DEF Inv, CarriedOK
    <3> QED
      BY <3>2, <3>3, CompletionFacts, NeighborFacts
  <2> QED
    BY <2>2, <2>3, <2>4, <2>5
<1> QED
  BY <1>1, Invariance, PTL

\* An edge carries at most one message of a campaign in each direction, and no
\* counter passes the number of neighbours it is compared with
\* (echoAlgorithm.js:66, 79).
THEOREM OneMessagePerEdgeHolds == Spec => []OneMessagePerEdge
<1>1. Inv => OneMessagePerEdge
  <2> SUFFICES ASSUME Inv, NEW id \in Id, NEW n \in Node
               PROVE  /\ \A m \in Node : carried[id][n][m] <= (IF m \in Neighbors[n] THEN 1 ELSE 0)
                      /\ counter[n][id] <= Cardinality(Neighbors[n])
    BY DEF OneMessagePerEdge
  <2>1. \A m \in Node : carried[id][n][m] <= (IF m \in Neighbors[n] THEN 1 ELSE 0)
    BY DEF Inv, CarriedOK, Carried
  <2>2. counter[n][id] = Cardinality(handled[n][id]) /\ handled[n][id] \in SUBSET Node
    BY DEF Inv, HandledOK, TypeOK
  <2>3. \A m \in handled[n][id] : n \in Neighbors[m]
    BY <2>2 DEF Inv, HandledOK, CarriedOK
  <2>4. handled[n][id] \in SUBSET Neighbors[n]
    BY <2>2, <2>3, NeighborFacts
  <2>5. IsFiniteSet(Neighbors[n])
    BY NeighborFacts
  <2>6. Cardinality(handled[n][id]) <= Cardinality(Neighbors[n])
    BY <2>4, <2>5, FS_Subset
  <2> QED
    BY <2>1, <2>2, <2>6
<1> QED
  BY <1>1, Invariance, PTL

\* The echo has an addressee, although the first neighbour is recorded after
\* the awaits of the loop, and it still waits (echoAlgorithm.js:73-87, 132-140).
THEOREM EchoHasParentHolds == Spec => []EchoHasParent
<1>1. Inv => EchoHasParent
  <2> SUFFICES ASSUME Inv, NEW n \in Node, task[n].pc = "echo"
               PROVE  /\ firstNeighborId[n][task[n].id] \in Neighbors[n]
                      /\ state[firstNeighborId[n][task[n].id]][task[n].id] = "red"
    BY DEF EchoHasParent
  <2>1. PICK id, p : /\ id = task[n].id /\ p = firstNeighborId[n][id]
                     /\ id \in Id /\ p \in Node
                     /\ p \in Neighbors[n] /\ n \in Neighbors[p]
                     /\ Nonwhite(p, id) /\ ~Carried(id, n, p)
    BY EchoingFacts
  <2>2. state[p][id] # "green"
    <3>1. n \notin handled[p][id]
      BY <2>1 DEF Inv, HandledOK
    <3> QED
      BY <2>1, <3>1 DEF Inv, HandledOK
  <2>3. state[p][id] \in {"white", "red", "green"}
    BY <2>1 DEF Inv, TypeOK
  <2> QED
    BY <2>1, <2>2, <2>3 DEF Nonwhite
<1> QED
  BY <1>1, Invariance, PTL

-----------------------------------------------------------------------------
(* The campaigns implement EchoFeedback.                                   *)

\* Who is informed: the nodes that are not white.
LEMMA InformedFacts ==
  ASSUME Inv, NEW n \in Node, NEW id \in Id
  PROVE  (message[n][id] # None) <=> Nonwhite(n, id)
BY ContentFacts DEF Inv, MessageOK

\* A step that leaves the contents and the callbacks alone is a stutter.
LEMMA FeedbackStutter ==
  ASSUME UNCHANGED distributed,
         \A n \in Node, id \in Id : message'[n][id] = message[n][id]
  PROVE  UNCHANGED Feedback!vars
<1>1. \A id \in Id : {n \in Node : message'[n][id] # None} = {n \in Node : message[n][id] # None}
  OBVIOUS
<1>2. [id \in Id |-> {n \in Node : message'[n][id] # None}]
        = [id \in Id |-> {n \in Node : message[n][id] # None}]
  BY <1>1
<1>3. [id \in Id |-> Complete(id)]' = [id \in Id |-> Complete(id)]
  BY DEF Complete
<1> QED
  BY <1>2, <1>3 DEF Feedback!vars

\* The callback runs at a moment at which everybody is informed.
LEMMA FeedbackCheck ==
  ASSUME Inv, Inv', NEW n \in Node, NEW id \in Id, NEW from \in Node, NEW c,
         CheckCounter(n, id, c, from), state[n][id] = "red",
         \A a \in Node, i \in Id : message'[a][i] = message[a][i]
  PROVE  [Feedback!Next]_Feedback!vars
<1>1. CASE UNCHANGED distributed
  BY <1>1, FeedbackStutter
<1>2. CASE distributed' # distributed
  <2>1. /\ n = Initiator[id]
        /\ distributed' = [distributed EXCEPT ![id] = @ + 1]
    BY <1>2 DEF CheckCounter
  <2>2. distributed \in [Id -> Nat] /\ distributed[id] = 0
    BY <2>1 DEF Inv, TypeOK, InitiatorOK
  <2>3. /\ ~Complete(id) /\ Complete(id)'
        /\ \A i \in Id : i # id => (Complete(i)' <=> Complete(i))
    BY <2>1, <2>2 DEF Complete
  <2>4. {a \in Node : message[a][id] # None} = Node
    <3>1. CompletionInformsAll'
      BY CompletionInv, PTL
    <3>2. \A a \in Node : message'[a][id] = Content(id)
      BY <2>3, <3>1 DEF CompletionInformsAll
    <3> QED
      BY <3>2, ContentFacts
  <2>5. Feedback!Finish(id)
    <3>1. [i \in Id |-> Complete(i)]' = [[i \in Id |-> Complete(i)] EXCEPT ![id] = TRUE]
      <4>1. \A i \in Id : Complete(i)' = (IF i = id THEN TRUE ELSE Complete(i))
        <5> SUFFICES ASSUME NEW i \in Id
                     PROVE  Complete(i)' = (IF i = id THEN TRUE ELSE Complete(i))
          OBVIOUS
        <5>1. CASE i = id
          <6>1. distributed'[id] > 0
            BY <2>1, <2>2
          <6>2. (distributed'[id] > 0) = TRUE
            BY <6>1
          <6> QED
            BY <5>1, <6>2, Zenon DEF Complete
        <5>2. CASE i # id
          <6>1. distributed'[i] = distributed[i]
            BY <2>1, <2>2, <5>2
          <6> QED
            BY <5>2, <6>1, Zenon DEF Complete
        <5> QED
          BY <5>1, <5>2
      <4> QED
        BY <4>1, Zenon
    <3>2. [i \in Id |-> {a \in Node : message'[a][i] # None}]
            = [i \in Id |-> {a \in Node : message[a][i] # None}]
      OBVIOUS
    <3> QED
      BY <2>3, <2>4, <3>1, <3>2 DEF Feedback!Finish
  <2> QED
    BY <2>5 DEF Feedback!Next
<1> QED
  BY <1>1, <1>2

LEMMA FeedbackStep ==
  ASSUME Inv, Inv', [Next]_vars
  PROVE  [Feedback!Next]_Feedback!vars
<1> DEFINE informed == [i \in Id |-> {a \in Node : message[a][i] # None}]
<1>1. ASSUME NEW id \in Id, InitEcho(id) PROVE Feedback!Begin(id)
  <2> DEFINE n == Initiator[id]
  <2>1. /\ message \in [Node -> [Id -> Contents \cup {None}]]
        /\ message[n][id] = None /\ n \in Node /\ Content(id) # None
        /\ message' = [message EXCEPT ![n][id] = Content(id)]
        /\ UNCHANGED distributed
    BY <1>1, ContentFacts DEF Inv, TypeOK, InitEcho
  <2>2. \A a \in Node : ~Nonwhite(a, id)
    BY <2>1, InformedFacts DEF Inv, InitiatorOK
  <2>3. \A a \in Node : message[a][id] = None
    BY <2>2, InformedFacts
  <2>4. /\ {a \in Node : message[a][id] # None} = {}
        /\ {a \in Node : message'[a][id] # None} = {n}
        /\ \A i \in Id : i # id => {a \in Node : message'[a][i] # None}
                                     = {a \in Node : message[a][i] # None}
    BY <2>1, <2>3
  <2>5. informed' = [informed EXCEPT ![id] = {n}]
    BY <2>4
  <2>6. UNCHANGED [i \in Id |-> Complete(i)]
    BY <2>1 DEF Complete
  <2> QED
    BY <2>4, <2>5, <2>6 DEF Feedback!Begin
<1>2. ASSUME NEW n \in Node, ProcessFirst(n)
      PROVE  \E id \in Id : Feedback!Inform(id, n)
  <2>1. PICK msg, id, from :
          /\ msg = Head(queue[n]) /\ id = msg.id /\ from = msg.from
          /\ Accept(n, msg) /\ queue[n] # <<>>
          /\ message' = [message EXCEPT ![n][id] = IF @ = None THEN msg.content ELSE @]
          /\ state[n][id] = "white"
          /\ state' = [state EXCEPT ![n][id] = "red"]
          /\ UNCHANGED distributed
    BY <1>2 DEF ProcessFirst, Accept
  <2>2. id \in Id /\ from \in Node /\ from \in Neighbors[n] /\ Nonwhite(from, id)
    BY <2>1, HeadFacts
  <2>3. message[n][id] = None /\ message[from][id] # None
    BY <2>1, <2>2, InformedFacts DEF Nonwhite
  <2>4. message'[n][id] # None
    <3>1. state'[n][id] = "red"
      BY <2>1, <2>2 DEF Inv, TypeOK
    <3>2. message'[n][id] = Content(id)
      BY <2>2, <3>1 DEF Inv, MessageOK, Nonwhite
    <3> QED
      BY <2>2, <3>2, ContentFacts
  <2>5. \A a \in Node, i \in Id : ~(a = n /\ i = id) => message'[a][i] = message[a][i]
    BY <2>1, <2>2 DEF Inv, TypeOK
  <2>6. /\ {a \in Node : message'[a][id] # None}
             = {a \in Node : message[a][id] # None} \cup {n}
        /\ \A i \in Id : i # id => {a \in Node : message'[a][i] # None}
                                     = {a \in Node : message[a][i] # None}
    BY <2>2, <2>4, <2>5
  <2>7. informed' = [informed EXCEPT ![id] = @ \cup {n}]
    BY <2>2, <2>6
  <2>8. n \notin informed[id] /\ Neighbors[n] \cap informed[id] # {}
    BY <2>2, <2>3
  <2>9. UNCHANGED [i \in Id |-> Complete(i)]
    BY <2>1 DEF Complete
  <2>10. Feedback!Inform(id, n)
    BY <2>7, <2>8, <2>9 DEF Feedback!Inform
  <2> QED
    BY <2>2, <2>10
<1>3. ASSUME NEW n \in Node, ProcessNext(n)
      PROVE  [Feedback!Next]_Feedback!vars
  <2>1. PICK msg, id, from, c :
          /\ msg = Head(queue[n]) /\ id = msg.id /\ from = msg.from
          /\ queue[n] # <<>>
          /\ message' = [message EXCEPT ![n][id] = IF @ = None THEN msg.content ELSE @]
          /\ state[n][id] # "white"
          /\ CheckCounter(n, id, c, from)
    BY <1>3 DEF ProcessNext, Accept
  <2>2. id \in Id /\ from \in Node /\ from \in Neighbors[n] /\ from \notin handled[n][id]
    BY <2>1, HeadFacts
  <2>3. state[n][id] = "red"
    <3>1. state[n][id] \in {"white", "red", "green"}
      BY <2>2 DEF Inv, TypeOK
    <3>2. state[n][id] # "green"
      BY <2>2 DEF Inv, HandledOK
    <3> QED
      BY <2>1, <3>1, <3>2
  <2>4. \A a \in Node, i \in Id : message'[a][i] = message[a][i]
    <3>1. message[n][id] # None
      BY <2>1, <2>2, InformedFacts DEF Nonwhite
    <3> QED
      BY <2>1, <2>2, <3>1 DEF Inv, TypeOK
  <2>5. CheckCounter(n, id, c, from)
    BY <2>1
  <2> QED
    BY <2>2, <2>3, <2>4, <2>5, FeedbackCheck
<1>4. ASSUME NEW n \in Node, FinishExploring(n)
      PROVE  [Feedback!Next]_Feedback!vars
  <2>1. PICK id, from, c :
          /\ id = task[n].id /\ from = task[n].from /\ task[n].pc = "explore"
          /\ CheckCounter(n, id, c, from) /\ UNCHANGED message
    BY <1>4 DEF FinishExploring
  <2>2. id \in Id /\ from \in Node
    BY <2>1 DEF Inv, TypeOK, Task, IdleTask
  <2>3. state[n][id] = "red"
    BY <2>1 DEF Inv, TaskOK
  <2>4. \A a \in Node, i \in Id : message'[a][i] = message[a][i]
    BY <2>1
  <2>5. CheckCounter(n, id, c, from)
    BY <2>1
  <2> QED
    BY <2>2, <2>3, <2>4, <2>5, FeedbackCheck
<1>5. ASSUME UNCHANGED <<message, distributed>>
      PROVE  [Feedback!Next]_Feedback!vars
  BY <1>5, FeedbackStutter
<1>6. ASSUME NEW n \in Node, NEW id, NEW m, SendExplorer(n, id, m)
      PROVE  UNCHANGED <<message, distributed>>
  BY <1>6 DEF SendExplorer, echoState
<1>7. ASSUME NEW n \in Node, SendEcho(n) \/ Discard(n) \/ Crash(n)
      PROVE  UNCHANGED <<message, distributed>>
  BY <1>7 DEF SendEcho, Discard, Crash, echoState
<1>8. CASE UNCHANGED vars
  BY <1>5, <1>8 DEF vars, echoState
<1>9. CASE \E id \in Id : InitEcho(id) \/ InitiatorSend(id)
  <2>1. PICK id \in Id : InitEcho(id) \/ InitiatorSend(id)
    BY <1>9
  <2>2. CASE InitEcho(id)
    BY <1>1, <2>2 DEF Feedback!Next
  <2>3. CASE InitiatorSend(id)
    BY <1>5, <1>6, <2>3, InitiatorAssumption DEF InitiatorSend
  <2> QED
    BY <2>1, <2>2, <2>3
<1>10. CASE \E n \in Node : HandlerStep(n) \/ Discard(n) \/ Crash(n)
  <2>1. PICK n \in Node : HandlerStep(n) \/ Discard(n) \/ Crash(n)
    BY <1>10
  <2>2. CASE ProcessFirst(n)
    BY <1>2, <2>2 DEF Feedback!Next
  <2>3. CASE ProcessNext(n)
    BY <1>3, <2>3
  <2>4. CASE FinishExploring(n)
    BY <1>4, <2>4
  <2>5. CASE HandlerSend(n)
    BY <1>5, <1>6, <2>5 DEF HandlerSend
  <2>6. CASE SendEcho(n) \/ Discard(n) \/ Crash(n)
    BY <1>5, <1>7, <2>6
  <2> QED
    BY <2>1, <2>2, <2>3, <2>4, <2>5, <2>6 DEF HandlerStep
<1> QED
  BY <1>8, <1>9, <1>10 DEF Next

\* A campaign is a propagation of information with feedback, whatever fails
\* and however its messages are interleaved: the feedback never comes early
\* (echoAlgorithm.js:33-89).
THEOREM FeedbackRefined == Spec => FeedbackSpec
<1>1. Init => Feedback!Init
  <2> SUFFICES ASSUME Init PROVE Feedback!Init
    OBVIOUS
  <2>1. \A id \in Id : {n \in Node : message[n][id] # None} = {}
    BY DEF Init
  <2>2. \A id \in Id : ~Complete(id)
    BY DEF Init, Complete
  <2>3. [id \in Id |-> Complete(id)] = [id \in Id |-> FALSE]
    <3>1. \A id \in Id : Complete(id) = FALSE
      <4> SUFFICES ASSUME NEW id \in Id PROVE Complete(id) = FALSE
        OBVIOUS
      <4>1. distributed[id] = 0
        BY DEF Init
      <4>2. (0 > 0) = FALSE
        OBVIOUS
      <4> QED
        BY <4>1, <4>2, Zenon DEF Complete
    <3> QED
      BY <3>1, Zenon
  <2> QED
    BY <2>1, <2>3 DEF Feedback!Init
<1>2. Inv /\ Inv' /\ [Next]_vars => [Feedback!Next]_Feedback!vars
  BY FeedbackStep
<1> QED
  BY <1>1, <1>2, Invariance, PTL DEF Spec, FeedbackSpec, Feedback!Spec
=============================================================================
