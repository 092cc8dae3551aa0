--------------------------- MODULE AtomicSendProofs ---------------------------
(***************************************************************************)
(* The message handler (ServerLogic) implements sends that are one step    *)
(* (AtomicSend), for any network, any number of messages and of crashes.   *)
(***************************************************************************)
EXTENDS ServerLogicProofs

-----------------------------------------------------------------------------
(* Functions and sequences.                                                *)

\* A function that changes at one point.
LEMMA ChangedAt ==
  ASSUME NEW D, NEW f, NEW g, f = [x \in D |-> f[x]], g = [x \in D |-> g[x]],
         NEW a \in D, \A x \in D : x # a => g[x] = f[x]
  PROVE  g = [f EXCEPT ![a] = g[a]]
  OBVIOUS

\* A function that changes nowhere.
LEMMA ChangedNowhere ==
  ASSUME NEW D, NEW f, NEW g, f = [x \in D |-> f[x]], g = [x \in D |-> g[x]],
         \A x \in D : g[x] = f[x]
  PROVE  g = f
  OBVIOUS

\* All that a queue shows: who sent the message, and its type.
Shown == [from : Node \cup {User}, type : Types]

\* What f says of each element of q.
Map(f, q) == [i \in 1..Len(q) |-> f[q[i]]]

\* Map keeps the places.
LEMMA MapTyped ==
  ASSUME NEW f \in [Index -> Shown], NEW q \in Seq(Index)
  PROVE  /\ Map(f, q) \in Seq(Shown) /\ Len(Map(f, q)) = Len(q) /\ Len(q) \in Nat
         /\ \A i \in 1..Len(q) : Map(f, q)[i] = f[q[i]]
<1>1. Len(q) \in Nat /\ \A i \in 1..Len(q) : q[i] \in Index
  OBVIOUS
<1>2. Map(f, q) \in [1..Len(q) -> Shown]
  BY <1>1 DEF Map
<1>3. Map(f, q) \in Seq(Shown) /\ Len(Map(f, q)) = Len(q)
  BY <1>1, <1>2, FunctionIsSequence
<1> QED
  BY <1>1, <1>3 DEF Map

\* Sequences that agree at every place are equal.
LEMMA SameSequence ==
  ASSUME NEW s \in Seq(Shown), NEW t \in Seq(Shown), Len(s) = Len(t),
         \A i \in 1..Len(s) : s[i] = t[i]
  PROVE  s = t
<1>1. s \in [1..Len(s) -> Shown] /\ t \in [1..Len(t) -> Shown]
  OBVIOUS
<1> QED
  BY <1>1

\* Map of a queue that somebody joins.
LEMMA MapJoin ==
  ASSUME NEW f \in [Index -> Shown], NEW q \in Seq(Index), NEW c \in Index
  PROVE  Map(f, Append(q, c)) = Append(Map(f, q), f[c])
<1> DEFINE a == Append(q, c)
           l == Map(f, a)
           r == Append(Map(f, q), f[c])
<1>1. /\ a \in Seq(Index) /\ Len(q) \in Nat /\ Len(a) = Len(q) + 1
      /\ \A i \in 1..Len(q) : a[i] = q[i]
      /\ a[Len(q) + 1] = c
  BY AppendFacts
<1>2. /\ Map(f, q) \in Seq(Shown) /\ Len(Map(f, q)) = Len(q)
      /\ \A i \in 1..Len(q) : Map(f, q)[i] = f[q[i]]
  BY MapTyped
<1>3. f[c] \in Shown
  OBVIOUS
<1>4. /\ r \in Seq(Shown) /\ Len(r) = Len(q) + 1
      /\ \A i \in 1..Len(q) : r[i] = f[q[i]]
      /\ r[Len(q) + 1] = f[c]
  BY <1>2, <1>3, AppendFacts
<1> HIDE DEF a
<1>5. /\ l \in Seq(Shown) /\ Len(l) = Len(q) + 1
      /\ \A i \in 1..Len(a) : l[i] = f[a[i]]
  BY <1>1, MapTyped
<1> HIDE DEF l, r
<1>6. ASSUME NEW i \in 1..Len(l) PROVE l[i] = r[i]
  <2>1. CASE i \in 1..Len(q)
    BY <2>1, <1>1, <1>4, <1>5
  <2>2. CASE i = Len(q) + 1
    BY <2>2, <1>1, <1>4, <1>5
  <2> QED
    BY <2>1, <2>2, <1>1, <1>5
<1>7. l = r
  BY <1>4, <1>5, <1>6, SameSequence
<1> QED
  BY <1>7 DEF a, l, r

\* Map of a queue whose first element gets its turn.
LEMMA MapTurn ==
  ASSUME NEW f \in [Index -> Shown], NEW q \in Seq(Index), q # <<>>
  PROVE  /\ Map(f, q) # <<>> /\ Head(Map(f, q)) = f[Head(q)]
         /\ Map(f, Tail(q)) = Tail(Map(f, q))
<1> DEFINE m == Map(f, q)
           t == Tail(q)
           l == Map(f, t)
<1>1. /\ Head(q) \in Index /\ t \in Seq(Index)
      /\ Len(q) \in Nat /\ Len(q) >= 1 /\ Len(t) = Len(q) - 1 /\ Head(q) = q[1]
      /\ \A i \in 1..Len(t) : t[i] = q[i + 1]
  BY HeadTailFacts
<1>2. /\ m \in Seq(Shown) /\ Len(m) = Len(q)
      /\ \A i \in 1..Len(q) : m[i] = f[q[i]]
  BY MapTyped
<1> HIDE DEF t, m
<1>3. /\ l \in Seq(Shown) /\ Len(l) = Len(t)
      /\ \A i \in 1..Len(t) : l[i] = f[t[i]]
  BY <1>1, MapTyped
<1> HIDE DEF l
<1>4. m # <<>>
  BY <1>1, <1>2
<1>5. /\ Tail(m) \in Seq(Shown) /\ Len(Tail(m)) = Len(m) - 1 /\ Head(m) = m[1]
      /\ \A i \in 1..Len(Tail(m)) : Tail(m)[i] = m[i + 1]
  BY <1>2, <1>4, HeadTailFacts
<1>6. ASSUME NEW i \in 1..Len(l) PROVE l[i] = Tail(m)[i]
  <2>1. i \in 1..Len(t) /\ i \in 1..Len(Tail(m)) /\ i + 1 \in 1..Len(q)
    BY <1>1, <1>2, <1>3, <1>5
  <2> QED
    BY <2>1, <1>1, <1>2, <1>3, <1>5
<1>7. l = Tail(m)
  BY <1>1, <1>2, <1>3, <1>5, <1>6, SameSequence
<1>8. Head(m) = f[Head(q)]
  BY <1>1, <1>2, <1>5
<1> QED
  BY <1>4, <1>7, <1>8 DEF m, t, l

\* Map depends on what f says of the elements.
LEMMA MapSame ==
  ASSUME NEW f, NEW g, \A c \in Index : f[c] = g[c], NEW q \in Seq(Index)
  PROVE  Map(f, q) = Map(g, q)
<1>1. \A i \in 1..Len(q) : q[i] \in Index
  OBVIOUS
<1> QED
  BY <1>1 DEF Map

-----------------------------------------------------------------------------
(* The mapping.                                                            *)

\* The mapped state is functions on the processes.
LEMMA MappedFunctions ==
  /\ Mailbox  = [n \in Node |-> Mailbox[n]]  /\ Mailbox'  = [n \in Node |-> Mailbox'[n]]
  /\ Handling = [n \in Node |-> Handling[n]] /\ Handling' = [n \in Node |-> Handling'[n]]
  /\ Unsent   = [n \in Node |-> Unsent[n]]   /\ Unsent'   = [n \in Node |-> Unsent'[n]]
BY DEF Mailbox, Handling, Unsent

\* What a message shows does not change.
LEMMA MailFacts ==
  ASSUME TypeOK, Kept
  PROVE  /\ Mail \in [Index -> Shown]
         /\ \A c \in Index : /\ Mail[c] = [from |-> conn[c].from, type |-> conn[c].type]
                             /\ Mail'[c] = Mail[c]
<1>1. \A c \in Index : conn[c] \in Connection
  <2>1. conn \in Seq(Connection)
    BY DEF TypeOK
  <2> QED
    BY <2>1 DEF Index
<1>2. \A c \in Index : c \in Index'
  <2>1. Len(conn) \in Nat /\ Len(conn') \in Nat /\ Len(conn) <= Len(conn')
    BY DEF TypeOK, Kept
  <2> QED
    BY <2>1 DEF Index
<1>3. \A c \in Index : [from |-> conn[c].from, type |-> conn[c].type] \in Shown
  BY <1>1 DEF Connection, Shown
<1>4. \A c \in Index : Mail'[c] = [from |-> conn'[c].from, type |-> conn'[c].type]
  BY <1>2 DEF Mail
<1>5. \A c \in Index : conn'[c].from = conn[c].from /\ conn'[c].type = conn[c].type
  BY DEF Kept
<1>6. Mail \in [Index -> Shown]
  BY <1>3 DEF Mail
<1>7. \A c \in Index : Mail[c] = [from |-> conn[c].from, type |-> conn[c].type]
  BY DEF Mail
<1> QED
  BY <1>4, <1>5, <1>6, <1>7

\* The mailbox follows the queue.
LEMMA MailboxFacts ==
  ASSUME TypeOK, Kept, NEW n \in Node
  PROVE  /\ waiting'[n] = waiting[n] => Mailbox'[n] = Mailbox[n]
         /\ \A c \in Index : waiting'[n] = Append(waiting[n], c) =>
              Mailbox'[n] = Append(Mailbox[n], [from |-> conn[c].from, type |-> conn[c].type])
         /\ waiting[n] # <<>> =>
              /\ Head(waiting[n]) \in Index
              /\ Mailbox[n] # <<>> /\ Head(Mailbox[n]).type = conn[Head(waiting[n])].type
              /\ waiting'[n] = Tail(waiting[n]) => Mailbox'[n] = Tail(Mailbox[n])
<1>1. PICK q \in Seq(Index) : q = waiting[n]
  BY DEF TypeOK
<1>2. PICK p : p = waiting'[n]
  OBVIOUS
<1>3. PICK f \in [Index -> Shown] : f = Mail
  BY MailFacts
<1>4. PICK g : g = Mail'
  OBVIOUS
<1>5. Mailbox[n] = Map(f, q) /\ Mailbox'[n] = Map(g, p)
  BY <1>1, <1>2, <1>3, <1>4 DEF Mailbox, Map
<1>6. \A c \in Index : /\ f[c] = [from |-> conn[c].from, type |-> conn[c].type]
                       /\ g[c] = f[c]
  BY <1>3, <1>4, MailFacts
<1>7. p \in Seq(Index) => Mailbox'[n] = Map(f, p)
  BY <1>5, <1>6, MapSame
<1>8. p = q => Mailbox'[n] = Mailbox[n]
  BY <1>5, <1>7
<1>9. ASSUME NEW c \in Index, p = Append(q, c)
      PROVE  Mailbox'[n] = Append(Mailbox[n], [from |-> conn[c].from, type |-> conn[c].type])
  <2>1. p \in Seq(Index)
    BY <1>9
  <2>2. Map(f, p) = Append(Map(f, q), f[c])
    BY <1>9, MapJoin
  <2> QED
    BY <2>1, <2>2, <1>5, <1>6, <1>7
<1>10. ASSUME q # <<>>
       PROVE  /\ Head(q) \in Index
              /\ Mailbox[n] # <<>> /\ Head(Mailbox[n]).type = conn[Head(q)].type
              /\ p = Tail(q) => Mailbox'[n] = Tail(Mailbox[n])
  <2>1. Head(q) \in Index /\ Tail(q) \in Seq(Index)
    BY <1>10, HeadTailFacts
  <2>2. /\ Map(f, q) # <<>> /\ Head(Map(f, q)) = f[Head(q)]
        /\ Map(f, Tail(q)) = Tail(Map(f, q))
    BY <1>10, MapTurn
  <2>3. f[Head(q)].type = conn[Head(q)].type
    BY <2>1, <1>6
  <2> QED
    BY <2>1, <2>2, <2>3, <1>5, <1>7
<1> QED
  BY <1>1, <1>2, <1>8, <1>9, <1>10

\* What a process handles follows its semaphore.
LEMMA HandlingFacts ==
  ASSUME TypeOK, Kept, NEW n \in Node
  PROVE  /\ holder[n] = 0 => Handling[n] = "nothing"
         /\ holder[n] # 0 => Handling[n] = conn[holder[n]].type
         /\ holder'[n] = 0 => Handling'[n] = "nothing"
         /\ \A c \in Index : holder'[n] = c => Handling'[n] = conn[c].type
         /\ holder'[n] = holder[n] => Handling'[n] = Handling[n]
<1>1. /\ Handling[n] = IF holder[n] = 0 THEN "nothing" ELSE conn[holder[n]].type
      /\ Handling'[n] = IF holder'[n] = 0 THEN "nothing" ELSE conn'[holder'[n]].type
  BY DEF Handling
<1>2. holder[n] # 0 => holder[n] \in Index
  BY OpenFacts
<1>3. \A c \in Index : c # 0 /\ conn'[c].type = conn[c].type
  BY DEF TypeOK, Index, Kept
<1> QED
  BY <1>1, <1>2, <1>3

\* To whom a process has still to send: a send is settled when it is answered
\* or when it failed.
LEMMA UnsentFacts ==
  ASSUME NEW n \in Node, NEW m \in Node
  PROVE  /\ m \in Unsent[n] <=>
              \/ m \in rest[n]
              \/ \E c \in Index : conn[c].from = n /\ conn[c].to = m /\ InFlight(c)
         /\ m \in Unsent'[n] <=>
              \/ m \in rest'[n]
              \/ \E c \in Index' : conn'[c].from = n /\ conn'[c].to = m /\ InFlight(c)'
BY DEF Unsent

\* The processes it has still to send to are processes.
LEMMA UnsentTyped ==
  ASSUME TypeOK, TypeOK', NEW n \in Node
  PROVE  Unsent[n] \subseteq Node /\ Unsent'[n] \subseteq Node
<1>1. rest[n] \subseteq Node /\ rest'[n] \subseteq Node
  BY DEF TypeOK
<1> QED
  BY <1>1 DEF Unsent

\* A connection that is under way carries what the handler of its sender sends,
\* to a process to which it has nothing else to send.
LEMMA InFlightFacts ==
  ASSUME Inv, NEW c \in Index, NEW k \in Node, conn[c].from = k, InFlight(c)
  PROVE  /\ holder[k] # 0 /\ conn[holder[k]].type = conn[c].type
         /\ conn[c].type = "algorithm" => awaited[k] = c
         /\ conn[c].to \notin rest[k]
         /\ \A d \in Index : (/\ conn[d].from = k /\ conn[d].to = conn[c].to
                              /\ InFlight(d)) => d = c
<1>1. SendOK /\ LoopOK /\ FloodOK /\ c # 0
  BY DEF Inv, TypeOK, Index
<1>2. \A d \in Index : InFlight(d) => ~Settled(d)
  BY DEF InFlight, Settled
<1>3. \A d \in Index : conn[d].from = k /\ InFlight(d) /\ conn[d].type = "algorithm" =>
        awaited[k] = d
  BY <1>1, <1>2 DEF SendOK, Algorithm
<1>4. \A d \in Index : conn[d].from = k /\ conn[d].type # "algorithm" =>
        /\ conn[d].type = "STOP ALL" /\ holder[k] # 0 /\ conn[holder[k]].type = "STOP ALL"
  BY <1>1 DEF FloodOK
<1>5. CASE conn[c].type = "algorithm"
  <2>1. awaited[k] = c /\ awaited[k] # 0
    BY <1>1, <1>3, <1>5
  <2>2. Busy(k) /\ conn[c].to \notin rest[k]
    BY <2>1, <1>1 DEF LoopOK
  <2>3. holder[k] # 0 /\ conn[holder[k]].type = "algorithm"
    BY <2>2 DEF Busy
  <2>4. ASSUME NEW d \in Index, conn[d].from = k, InFlight(d) PROVE d = c
    <3>1. conn[d].type = "algorithm"
      BY <2>3, <2>4, <1>4
    <3> QED
      BY <3>1, <2>1, <2>4, <1>3
  <2> QED
    BY <2>1, <2>2, <2>3, <2>4, <1>5
<1>6. CASE conn[c].type # "algorithm"
  <2>1. /\ conn[c].type = "STOP ALL" /\ holder[k] # 0 /\ conn[holder[k]].type = "STOP ALL"
    BY <1>4, <1>6
  <2>2. ~Busy(k)
    BY <2>1 DEF Busy
  <2>3. rest[k] = {} /\ awaited[k] = 0
    BY <2>2, <1>1 DEF LoopOK
  <2>4. ASSUME NEW d \in Index, conn[d].from = k, conn[d].to = conn[c].to, InFlight(d)
        PROVE  d = c
    <3>1. d # 0
      BY DEF Inv, TypeOK, Index
    <3>2. conn[d].type # "algorithm"
      BY <3>1, <2>3, <2>4, <1>3
    <3>3. conn[d].type = "STOP ALL"
      BY <3>2, <2>4, <1>4
    <3> QED
      BY <3>3, <2>4, <1>1, <1>6 DEF FloodOK
  <2> QED
    BY <2>1, <2>3, <2>4, <1>6
<1> QED
  BY <1>5, <1>6

\* A process has no connection under way when it holds no semaphore, or when
\* its handler of the algorithm waits for nothing.
LEMMA NothingInFlight ==
  ASSUME Inv, NEW n \in Node,
         holder[n] = 0 \/ (conn[holder[n]].type = "algorithm" /\ awaited[n] = 0)
  PROVE  \A c \in Index : conn[c].from = n => ~InFlight(c)
<1> SUFFICES ASSUME NEW c \in Index, conn[c].from = n, InFlight(c) PROVE FALSE
  OBVIOUS
<1>1. /\ holder[n] # 0 /\ conn[holder[n]].type = conn[c].type
      /\ conn[c].type = "algorithm" => awaited[n] = c
  BY InFlightFacts
<1>2. c # 0
  BY DEF Inv, TypeOK, Index
<1> QED
  BY <1>1, <1>2

-----------------------------------------------------------------------------
(* Steps.                                                                  *)

\* A send is refused or reset, or its end only changes its phase on the way:
\* what a process has still to send to does not grow.
LEMMA LoseStep ==
  ASSUME Inv, Inv', Kept, UNCHANGED <<waiting, holder, killed>>,
         \A k \in Node, m \in Node : m \in Unsent'[k] => m \in Unsent[k]
  PROVE  Sends!Lose
<1>1. TypeOK /\ TypeOK'
  BY DEF Inv
<1>2. Mailbox' = Mailbox
  <2>1. \A n \in Node : Mailbox'[n] = Mailbox[n]
    BY <1>1, MailboxFacts
  <2> QED
    BY <2>1, MappedFunctions, ChangedNowhere
<1>3. Handling' = Handling
  <2>1. \A n \in Node : Handling'[n] = Handling[n]
    BY <1>1, HandlingFacts
  <2> QED
    BY <2>1, MappedFunctions, ChangedNowhere
<1>4. \A n \in Node : Unsent'[n] \subseteq Node /\ Unsent[n] \subseteq Node
  BY <1>1, UnsentTyped
<1>5. \A n \in Node : Unsent'[n] \subseteq Unsent[n]
  BY <1>4
<1>6. Unsent' \in [Node -> SUBSET Node]
  BY <1>4, MappedFunctions
<1> QED
  BY <1>2, <1>3, <1>5, <1>6 DEF Sends!Lose

\* The steps of the network besides the answer of the receiver.
LEMMA NetworkLoses ==
  ASSUME Inv, Inv', Kept, NEW c \in Index, Connect(c) \/ Reset(c)
  PROVE  Sends!Lose
<1>1. PICK x \in {"connected", "failed"} :
        /\ conn[c].phase \in {"connecting", "connected"}
        /\ conn' = [conn EXCEPT ![c].phase = x]
        /\ UNCHANGED <<waiting, holder, rest, killed>>
  BY DEF Connect, Reset
<1>2. conn \in Seq(Connection) /\ x \in Phases /\ conn[c].phase \notin {"acked", "failed"}
  BY <1>1 DEF Inv, TypeOK, Phases
<1>3. /\ Len(conn') = Len(conn)
      /\ \A d \in Index : conn'[d].phase = IF d = c THEN x ELSE conn[d].phase
  BY <1>1, <1>2, KeptByPhase
<1>4. Index' = Index
  BY <1>3 DEF Index
<1>5. \A d \in Index : InFlight(d)' => InFlight(d)
  BY <1>1, <1>3 DEF InFlight
<1>6. \A k \in Node, m \in Node : m \in Unsent'[k] => m \in Unsent[k]
  BY <1>1, <1>4, <1>5, UnsentFacts DEF Kept
<1> QED
  BY <1>1, <1>6, LoseStep

\* Messages of the user, crashes, and the settled send.
LEMMA OutsideLoses ==
  ASSUME Inv, Inv', Kept, NEW n \in Node,
         Crash(n) \/ Continue(n) \/ \E type \in Types : Request(n, type)
  PROVE  Sends!Lose
<1>1. conn \in Seq(Connection) /\ Len(conn) \in Nat
  BY DEF Inv, TypeOK
<1>2. UNCHANGED <<waiting, holder, rest, killed>>
  BY DEF Crash, Continue, Request
<1>3. \A d \in Index' : conn'[d].from \in Node /\ InFlight(d)' => d \in Index /\ InFlight(d)
  <2>1. CASE Crash(n)
    <3>1. Len(conn') = Len(conn)
      BY <2>1, <1>1, KeptByCrash
    <3>2. Index' = Index
      BY <3>1 DEF Index
    <3>3. \A d \in Index : conn[d].phase \notin {"connecting", "connected"} => conn'[d].phase = conn[d].phase
      BY <2>1 DEF Crash
    <3> QED
      BY <3>2, <3>3 DEF InFlight
  <2>2. CASE Continue(n)
    BY <2>2 DEF Continue, Index, InFlight
  <2>3. ASSUME NEW type \in Types, Request(n, type)
        PROVE  \A d \in Index' : conn'[d].from \in Node /\ InFlight(d)' => d \in Index /\ InFlight(d)
    <3>1. conn' = Append(conn, Opened(User, n, type))
      BY <2>3 DEF Request
    <3>2. /\ Len(conn') = Len(conn) + 1 /\ conn'[Len(conn) + 1] = Opened(User, n, type)
          /\ \A d \in Index : conn'[d] = conn[d]
      BY <3>1, <1>1, KeptByAppend
    <3>3. \A d \in Index' : d \in Index \/ d = Len(conn) + 1
      BY <3>2, <1>1 DEF Index
    <3>4. conn'[Len(conn) + 1].from \notin Node
      BY <3>2, NodeAssumption DEF Opened
    <3> QED
      BY <3>2, <3>3, <3>4 DEF InFlight
  <2> QED
    BY <2>1, <2>2, <2>3
<1>4. \A k \in Node, m \in Node : m \in Unsent'[k] => m \in Unsent[k]
  BY <1>2, <1>3, UnsentFacts DEF Kept
<1> QED
  BY <1>2, <1>4, LoseStep

\* The next send of the loop: it is under way instead of to come.
LEMMA SendNextLoses ==
  ASSUME Inv, Inv', Kept, NEW n \in Node, NEW m \in Node, SendNext(n, m)
  PROVE  Sends!Lose
<1>1. PICK type \in Types : type = "algorithm"
  BY DEF Types
<1>2. /\ m \in rest[n] /\ rest' = [rest EXCEPT ![n] = @ \ {m}]
      /\ conn' = Append(conn, Opened(n, m, type))
      /\ UNCHANGED <<waiting, holder, killed>>
  BY <1>1 DEF SendNext
<1>3. conn \in Seq(Connection) /\ Len(conn) \in Nat /\ rest \in [Node -> SUBSET Node]
  BY DEF Inv, TypeOK
<1>4. /\ Len(conn') = Len(conn) + 1 /\ conn'[Len(conn) + 1] = Opened(n, m, type)
      /\ \A d \in Index : conn'[d] = conn[d]
  BY <1>2, <1>3, KeptByAppend
<1>5. \A d \in Index' : d \in Index \/ d = Len(conn) + 1
  BY <1>3, <1>4 DEF Index
<1>6. conn'[Len(conn) + 1].from = n /\ conn'[Len(conn) + 1].to = m
  BY <1>4 DEF Opened
<1>7. \A k \in Node : rest'[k] \subseteq rest[k]
  BY <1>2, <1>3
<1>8. ASSUME NEW k \in Node, NEW l \in Node, l \in Unsent'[k] PROVE l \in Unsent[k]
  <2>1. CASE l \in rest'[k]
    BY <2>1, <1>7, UnsentFacts
  <2>2. ASSUME NEW d \in Index', conn'[d].from = k, conn'[d].to = l, InFlight(d)'
        PROVE  l \in Unsent[k]
    <3>1. CASE d \in Index
      <4>1. conn[d].from = k /\ conn[d].to = l /\ InFlight(d)
        BY <3>1, <2>2, <1>4 DEF InFlight
      <4> QED
        BY <3>1, <4>1, UnsentFacts
    <3>2. CASE d = Len(conn) + 1
      BY <3>2, <2>2, <1>2, <1>6, UnsentFacts
    <3> QED
      BY <3>1, <3>2, <1>5
  <2> QED
    BY <2>1, <2>2, <1>8, UnsentFacts
<1> QED
  BY <1>2, <1>8, LoseStep

\* The answer is what ends a send: the message is in the mailbox, and the
\* sender has it no longer to send.
LEMMA ReceiveSends ==
  ASSUME Inv, Inv', Kept, NEW c \in Index, Receive(c)
  PROVE  \E n \in Node : Sends!Request(n) \/ \E k \in Node : Sends!Send(k, n)
<1>1. /\ TypeOK /\ TypeOK' /\ conn \in Seq(Connection) /\ waiting \in [Node -> Seq(Index)]
  BY DEF Inv, TypeOK
<1>2. conn[c] \in Connection
  BY <1>1 DEF Index
<1>3. PICK n \in Node : n = conn[c].to
  BY <1>2 DEF Connection
<1>4. PICK x \in {"acked"} :
        /\ conn[c].phase = "connected" /\ conn' = [conn EXCEPT ![c].phase = x]
  BY DEF Receive
<1>5. /\ waiting' = [waiting EXCEPT ![n] = Append(@, c)]
      /\ UNCHANGED <<holder, rest, killed>>
  BY <1>3 DEF Receive
<1>6. x \in Phases /\ conn[c].phase \notin {"acked", "failed"}
  BY <1>4 DEF Phases
<1>7. /\ Len(conn') = Len(conn)
      /\ \A d \in Index : conn'[d].phase = IF d = c THEN x ELSE conn[d].phase
  BY <1>1, <1>4, <1>6, KeptByPhase
<1>8. Index' = Index
  BY <1>7 DEF Index
<1>9. InFlight(c) /\ \A d \in Index : InFlight(d)' <=> d # c /\ InFlight(d)
  BY <1>4, <1>7 DEF InFlight
<1>10. Mailbox' = [Mailbox EXCEPT ![n] = Append(@, [from |-> conn[c].from, type |-> conn[c].type])]
  <2>1. waiting'[n] = Append(waiting[n], c) /\ \A k \in Node : k # n => waiting'[k] = waiting[k]
    BY <1>1, <1>5
  <2>2. Mailbox'[n] = Append(Mailbox[n], [from |-> conn[c].from, type |-> conn[c].type])
    BY <2>1, <1>1, MailboxFacts
  <2>3. \A k \in Node : k # n => Mailbox'[k] = Mailbox[k]
    BY <2>1, <1>1, MailboxFacts
  <2>4. Mailbox' = [Mailbox EXCEPT ![n] = Mailbox'[n]]
    BY <2>3, MappedFunctions, ChangedAt
  <2> QED
    BY <2>2, <2>4
<1>11. Handling' = Handling
  <2>1. \A k \in Node : Handling'[k] = Handling[k]
    BY <1>1, <1>5, HandlingFacts
  <2> QED
    BY <2>1, MappedFunctions, ChangedNowhere
<1>12. \A k \in Node : Unsent[k] \subseteq Node /\ Unsent'[k] \subseteq Node
  BY <1>1, UnsentTyped
\* what the other processes have to send does not change
<1>13. ASSUME NEW k \in Node, k # conn[c].from PROVE Unsent'[k] = Unsent[k]
  <2>1. ASSUME NEW m \in Node PROVE m \in Unsent'[k] <=> m \in Unsent[k]
    <3>1. /\ rest'[k] = rest[k]
          /\ \A d \in Index : /\ conn'[d].from = conn[d].from /\ conn'[d].to = conn[d].to
                              /\ conn[d].from = k => (InFlight(d)' <=> InFlight(d))
      BY <1>5, <1>9, <1>13 DEF Kept
    <3> QED
      BY <3>1, <1>8, UnsentFacts
  <2> QED
    BY <2>1, <1>12
<1>14. CASE conn[c].from = User
  <2>1. \A k \in Node : Unsent'[k] = Unsent[k]
    BY <1>13, <1>14, NodeAssumption
  <2>2. Unsent' = Unsent
    BY <2>1, MappedFunctions, ChangedNowhere
  <2>3. PICK type \in Types : type = conn[c].type
    BY <1>2 DEF Connection
  <2>4. Sends!Put(n, User, type)
    BY <1>10, <1>14, <2>3 DEF Sends!Put
  <2>5. Sends!Request(n)
    BY <2>2, <2>4, <1>5, <1>11 DEF Sends!Request, Types
  <2> QED
    BY <2>5
<1>15. ASSUME NEW k \in Node, conn[c].from = k
       PROVE  \E m \in Node : Sends!Send(m, n)
  <2>1. /\ holder[k] # 0 /\ conn[holder[k]].type = conn[c].type
        /\ n \notin rest[k]
        /\ \A d \in Index : conn[d].from = k /\ conn[d].to = n /\ InFlight(d) => d = c
    BY <1>3, <1>9, <1>15, InFlightFacts
  <2>2. Handling[k] = conn[c].type
    BY <2>1, <1>1, HandlingFacts
  <2>3. n \in Unsent[k]
    BY <1>3, <1>9, <1>15, UnsentFacts
  <2>4. n \notin Unsent'[k]
    <3>1. n \notin rest'[k]
      BY <2>1, <1>5
    <3>2. ASSUME NEW d \in Index, conn'[d].from = k, conn'[d].to = n, InFlight(d)'
          PROVE  FALSE
      <4>1. conn[d].from = k /\ conn[d].to = n
        BY <3>2 DEF Kept
      <4>2. d # c /\ InFlight(d)
        BY <3>2, <1>9
      <4> QED
        BY <4>1, <4>2, <2>1
    <3> QED
      BY <3>1, <3>2, <1>8, UnsentFacts
  <2>5. ASSUME NEW m \in Node, m # n PROVE m \in Unsent'[k] <=> m \in Unsent[k]
    <3>1. /\ rest'[k] = rest[k]
          /\ \A d \in Index : /\ conn'[d].from = conn[d].from /\ conn'[d].to = conn[d].to
                              /\ conn[d].to = m => (InFlight(d)' <=> InFlight(d))
      BY <1>3, <1>5, <1>9, <2>5 DEF Kept
    <3> QED
      BY <3>1, <1>8, UnsentFacts
  <2>6. Unsent'[k] = Unsent[k] \ {n}
    BY <2>4, <2>5, <1>12
  <2>7. Unsent' = [Unsent EXCEPT ![k] = Unsent'[k]]
    <3>1. \A m \in Node : m # k => Unsent'[m] = Unsent[m]
      BY <1>13, <1>15
    <3> QED
      BY <3>1, MappedFunctions, ChangedAt
  <2>8. Unsent' = [Unsent EXCEPT ![k] = @ \ {n}]
    BY <2>6, <2>7
  <2>9. Sends!Put(n, k, Handling[k])
    BY <2>2, <1>10, <1>15 DEF Sends!Put
  <2>10. Sends!Send(k, n)
    BY <2>3, <2>8, <2>9, <1>5, <1>11 DEF Sends!Send
  <2> QED
    BY <2>10
<1>16. conn[c].from \in Node \/ conn[c].from = User
  BY <1>2 DEF Connection
<1> QED
  BY <1>14, <1>15, <1>16

\* The first message of the queue is the first of the mailbox.
LEMMA TakeTakes ==
  ASSUME Inv, Inv', Kept, NEW n \in Node, NEW c \in Index, Take(n, c)
  PROVE  /\ Sends!Take(n) /\ Head(Mailbox[n]).type = conn[c].type
         /\ rest[n] = {} /\ awaited[n] = 0
<1>1. TypeOK /\ waiting \in [Node -> Seq(Index)] /\ LoopOK
  BY DEF Inv, TypeOK
<1>2. /\ holder[n] = 0 /\ waiting[n] # <<>> /\ c = Head(waiting[n])
      /\ waiting' = [waiting EXCEPT ![n] = Tail(@)]
  BY DEF Take
<1>3. waiting'[n] = Tail(waiting[n]) /\ \A k \in Node : k # n => waiting'[k] = waiting[k]
  BY <1>1, <1>2
<1>4. /\ Mailbox[n] # <<>> /\ Head(Mailbox[n]).type = conn[c].type
      /\ Mailbox'[n] = Tail(Mailbox[n])
  BY <1>1, <1>2, <1>3, MailboxFacts
<1>5. \A k \in Node : k # n => Mailbox'[k] = Mailbox[k]
  BY <1>1, <1>3, MailboxFacts
<1>6. Mailbox' = [Mailbox EXCEPT ![n] = Mailbox'[n]]
  BY <1>5, MappedFunctions, ChangedAt
<1>7. Mailbox' = [Mailbox EXCEPT ![n] = Tail(@)]
  BY <1>4, <1>6
<1>8. Handling[n] = "nothing"
  BY <1>1, <1>2, HandlingFacts
<1>9. rest[n] = {} /\ awaited[n] = 0
  BY <1>1, <1>2 DEF LoopOK, Busy
<1> QED
  BY <1>4, <1>7, <1>8, <1>9 DEF Sends!Take

\* A message is dropped.
LEMMA DropDrops ==
  ASSUME Inv, Inv', Kept, NEW n \in Node, DropWhenKilled(n)
  PROVE  Sends!Drop(n)
<1>1. PICK c \in Index : Take(n, c)
  BY DEF DropWhenKilled
<1>2. killed[n] /\ UNCHANGED <<conn, holder, rest, killed>>
  BY DEF DropWhenKilled, Proceed
<1>3. Sends!Take(n)
  BY <1>1, TakeTakes
<1>4. TypeOK /\ TypeOK' /\ Index' = Index /\ \A d \in Index : InFlight(d)' <=> InFlight(d)
  BY <1>2 DEF Inv, Index, InFlight
<1>5. Handling' = Handling
  BY <1>2 DEF Handling
<1>6. Unsent' = Unsent
  BY <1>2, <1>4 DEF Unsent
<1> QED
  BY <1>2, <1>3, <1>5, <1>6 DEF Sends!Drop

\* A handler begins, with S to send to.
LEMMA HandleHandles ==
  ASSUME Inv, Inv', Kept, NEW n \in Node, NEW c \in Index, Take(n, c), ~killed[n],
         holder' = [holder EXCEPT ![n] = c],
         NEW S \in SUBSET Node, Unsent'[n] = S,
         \A k \in Node : k # n => Unsent'[k] = Unsent[k],
         NEW type \in Types, conn[c].type = type,
         \/ type = "algorithm" /\ S \subseteq Neighbors[n] /\ UNCHANGED killed
         \/ /\ \/ type = "STOP" /\ S = {}
               \/ type = "STOP ALL" /\ S = Neighbors[n]
            /\ killed' = [killed EXCEPT ![n] = TRUE]
  PROVE  Sends!Handle(n, type, S)
<1>1. Sends!Take(n) /\ Head(Mailbox[n]).type = type
  BY TakeTakes
<1>2. TypeOK /\ holder \in [Node -> 0..Len(conn)]
  BY DEF Inv, TypeOK
<1>3. holder'[n] = c /\ \A k \in Node : k # n => holder'[k] = holder[k]
  BY <1>2
<1>4. Handling'[n] = type /\ \A k \in Node : k # n => Handling'[k] = Handling[k]
  BY <1>2, <1>3, HandlingFacts
<1>5. Handling' = [Handling EXCEPT ![n] = Handling'[n]]
  BY <1>4, MappedFunctions, ChangedAt
<1>6. Unsent' = [Unsent EXCEPT ![n] = Unsent'[n]]
  BY MappedFunctions, ChangedAt
<1>7. Handling' = [Handling EXCEPT ![n] = type] /\ Unsent' = [Unsent EXCEPT ![n] = S]
  BY <1>4, <1>5, <1>6
<1> QED
  BY <1>1, <1>7 DEF Sends!Handle

\* Whoever gets the semaphore has nothing under way.
LEMMA NothingLeft ==
  ASSUME Inv, NEW n \in Node, NEW c \in Index, Take(n, c)
  PROVE  \A d \in Index : conn[d].from = n => ~InFlight(d)
<1>1. holder[n] = 0
  BY DEF Take
<1> QED
  BY <1>1, NothingInFlight

\* An algorithm begins: what it is going to send is chosen.
LEMMA StartHandles ==
  ASSUME Inv, Inv', Kept, NEW n \in Node, StartAlgorithm(n)
  PROVE  \E type \in Types, S \in SUBSET Node : Sends!Handle(n, type, S)
<1>1. PICK c \in Index, S \in SUBSET Neighbors[n] :
        /\ Take(n, c) /\ ~killed[n] /\ conn[c].type = "algorithm"
        /\ holder' = [holder EXCEPT ![n] = c] /\ rest' = [rest EXCEPT ![n] = S]
        /\ UNCHANGED <<conn, awaited, killed>>
  BY DEF StartAlgorithm, Proceed
<1>2. PICK type \in Types : type = "algorithm"
  BY DEF Types
<1>3. S \in SUBSET Node
  BY NodeAssumption
<1>4. rest \in [Node -> SUBSET Node] /\ TypeOK /\ TypeOK'
  BY DEF Inv, TypeOK
<1>5. rest'[n] = S /\ \A k \in Node : k # n => rest'[k] = rest[k]
  BY <1>1, <1>4
<1>6. \A d \in Index : conn[d].from = n => ~InFlight(d)
  BY <1>1, NothingLeft
<1>7. Index' = Index /\ conn' = conn /\ \A d \in Index : InFlight(d)' <=> InFlight(d)
  BY <1>1 DEF Index, InFlight
<1>8. \A k \in Node : Unsent[k] \subseteq Node /\ Unsent'[k] \subseteq Node
  BY <1>4, UnsentTyped
<1>9. Unsent'[n] = S
  <2>1. \A m \in Node : m \in Unsent'[n] <=> m \in S
    BY <1>5, <1>6, <1>7, UnsentFacts
  <2> QED
    BY <2>1, <1>3, <1>8
<1>10. ASSUME NEW k \in Node, k # n PROVE Unsent'[k] = Unsent[k]
  <2>1. \A m \in Node : m \in Unsent'[k] <=> m \in Unsent[k]
    BY <1>5, <1>7, <1>10, UnsentFacts
  <2> QED
    BY <2>1, <1>8
<1>11. Sends!Handle(n, type, S)
  BY <1>1, <1>2, <1>3, <1>9, <1>10, HandleHandles
<1> QED
  BY <1>3, <1>11

\* STOP: nothing is sent.
LEMMA StopHandles ==
  ASSUME Inv, Inv', Kept, NEW n \in Node, Stop(n)
  PROVE  \E type \in Types, S \in SUBSET Node : Sends!Handle(n, type, S)
<1>1. PICK c \in Index :
        /\ Take(n, c) /\ ~killed[n] /\ conn[c].type = "STOP"
        /\ holder' = [holder EXCEPT ![n] = c] /\ killed' = [killed EXCEPT ![n] = TRUE]
        /\ UNCHANGED <<conn, rest, awaited>>
  BY DEF Stop, Proceed
<1>2. PICK type \in Types : type = "STOP"
  BY DEF Types
<1>3. PICK S \in SUBSET Node : S = {}
  OBVIOUS
<1>4. TypeOK /\ TypeOK' /\ rest[n] = {}
  BY <1>1, TakeTakes DEF Inv
<1>5. \A d \in Index : conn[d].from = n => ~InFlight(d)
  BY <1>1, NothingLeft
<1>6. Index' = Index /\ conn' = conn /\ \A d \in Index : InFlight(d)' <=> InFlight(d)
  BY <1>1 DEF Index, InFlight
<1>7. \A k \in Node : Unsent[k] \subseteq Node /\ Unsent'[k] \subseteq Node
  BY <1>4, UnsentTyped
<1>8. Unsent'[n] = S
  <2>1. \A m \in Node : m \notin Unsent'[n]
    BY <1>1, <1>4, <1>5, <1>6, UnsentFacts
  <2> QED
    BY <2>1, <1>3, <1>7
<1>9. ASSUME NEW k \in Node PROVE Unsent'[k] = Unsent[k]
  <2>1. \A m \in Node : m \in Unsent'[k] <=> m \in Unsent[k]
    BY <1>1, <1>6, UnsentFacts
  <2> QED
    BY <2>1, <1>7
<1>10. Sends!Handle(n, type, S)
  BY <1>1, <1>2, <1>3, <1>8, <1>9, HandleHandles
<1> QED
  BY <1>10

\* STOP ALL: a connection to every neighbour is under way.
LEMMA StopAllHandles ==
  ASSUME Inv, Inv', Kept, NEW n \in Node, StopAll(n)
  PROVE  \E type \in Types, S \in SUBSET Node : Sends!Handle(n, type, S)
<1>1. PICK type \in Types : type = "STOP ALL"
  BY DEF Types
<1>2. PICK S \in SUBSET Node : S = Neighbors[n]
  BY NodeAssumption
<1>3. PICK c \in Index :
        /\ Take(n, c) /\ ~killed[n] /\ conn[c].type = type
        /\ holder' = [holder EXCEPT ![n] = c] /\ killed' = [killed EXCEPT ![n] = TRUE]
        /\ conn' = conn \o OpenedAll(n, S, type)
        /\ UNCHANGED <<rest, awaited>>
  BY <1>1, <1>2 DEF StopAll, FloodTargets, Proceed
<1>4. TypeOK /\ TypeOK' /\ conn \in Seq(Connection) /\ rest[n] = {}
  BY <1>3, TakeTakes DEF Inv, TypeOK
<1>5. FansOut(n, S, type)
  BY <1>3, <1>4, KeptByFlood
<1>6. \A d \in Index : conn[d].from = n => ~InFlight(d)
  BY <1>3, NothingLeft
<1>7. \A d \in Index : d \in Index' /\ conn'[d] = conn[d] /\ (InFlight(d)' <=> InFlight(d))
  <2>1. \A d \in Index : conn'[d] = conn[d]
    BY <1>5 DEF FansOut
  <2>2. Len(conn) \in Nat /\ Len(conn') \in Nat /\ Len(conn) <= Len(conn')
    BY <1>4 DEF Kept
  <2> QED
    BY <2>1, <2>2 DEF Index, InFlight
<1>8. \A d \in Index' : d \notin Index =>
        conn'[d].from = n /\ conn'[d].to \in S /\ InFlight(d)'
  BY <1>5 DEF FansOut, InFlight
<1>9. \A k \in Node : Unsent[k] \subseteq Node /\ Unsent'[k] \subseteq Node
  BY <1>4, UnsentTyped
<1>10. Unsent'[n] = S
  <2>1. ASSUME NEW m \in Node, m \in Unsent'[n] PROVE m \in S
    <3>1. PICK d \in Index' : conn'[d].from = n /\ conn'[d].to = m /\ InFlight(d)'
      BY <2>1, <1>3, <1>4, UnsentFacts
    <3>2. d \notin Index
      BY <3>1, <1>6, <1>7
    <3> QED
      BY <3>1, <3>2, <1>8
  <2>2. ASSUME NEW m \in S PROVE m \in Unsent'[n]
    <3>1. PICK d \in Index' : d \notin Index /\ conn'[d].to = m
      BY <1>5 DEF FansOut
    <3>2. conn'[d].from = n /\ InFlight(d)'
      BY <3>1, <1>8
    <3> QED
      BY <3>1, <3>2, UnsentFacts
  <2> QED
    BY <2>1, <2>2, <1>9
<1>11. ASSUME NEW k \in Node, k # n PROVE Unsent'[k] = Unsent[k]
  <2>1. ASSUME NEW m \in Node, m \in Unsent'[k] PROVE m \in Unsent[k]
    <3>1. ASSUME NEW d \in Index', conn'[d].from = k, conn'[d].to = m, InFlight(d)'
          PROVE  m \in Unsent[k]
      <4>1. d \in Index
        BY <3>1, <1>8, <1>11
      <4>2. conn[d].from = k /\ conn[d].to = m /\ InFlight(d)
        BY <3>1, <4>1, <1>7
      <4> QED
        BY <4>1, <4>2, UnsentFacts
    <3> QED
      BY <2>1, <3>1, <1>3, UnsentFacts
  <2>2. ASSUME NEW m \in Node, m \in Unsent[k] PROVE m \in Unsent'[k]
    <3>1. ASSUME NEW d \in Index, conn[d].from = k, conn[d].to = m, InFlight(d)
          PROVE  m \in Unsent'[k]
      <4>1. d \in Index' /\ conn'[d].from = k /\ conn'[d].to = m /\ InFlight(d)'
        BY <3>1, <1>7
      <4> QED
        BY <4>1, UnsentFacts
    <3> QED
      BY <2>2, <3>1, <1>3, UnsentFacts
  <2> QED
    BY <2>1, <2>2, <1>9
<1>12. Sends!Handle(n, type, S)
  BY <1>1, <1>2, <1>3, <1>10, <1>11, HandleHandles
<1> QED
  BY <1>12

\* An algorithm is through: all that it sent is settled.
LEMMA LeaveFinishes ==
  ASSUME Inv, Inv', Kept, NEW n \in Node, Leave(n)
  PROVE  Sends!Finish(n)
<1>1. /\ holder[n] # 0 /\ conn[holder[n]].type = "algorithm"
      /\ awaited[n] = 0 /\ rest[n] = {}
      /\ holder' = [holder EXCEPT ![n] = 0]
      /\ \/ UNCHANGED killed
         \/ n = Observer /\ killed' = [killed EXCEPT ![n] = TRUE]
      /\ UNCHANGED <<conn, waiting, rest>>
  BY DEF Leave, AfterLeave, Busy
<1>2. TypeOK /\ TypeOK' /\ holder \in [Node -> 0..Len(conn)]
  BY DEF Inv, TypeOK
<1>3. \A d \in Index : conn[d].from = n => ~InFlight(d)
  BY <1>1, NothingInFlight
<1>4. Unsent[n] = {}
  <2>1. \A m \in Node : m \notin Unsent[n]
    BY <1>1, <1>3, UnsentFacts
  <2> QED
    BY <2>1, <1>2, UnsentTyped
<1>5. Handling[n] = "algorithm"
  BY <1>1, <1>2, HandlingFacts
<1>6. Handling' = [Handling EXCEPT ![n] = "nothing"]
  <2>1. holder'[n] = 0 /\ \A k \in Node : k # n => holder'[k] = holder[k]
    BY <1>1, <1>2
  <2>2. Handling'[n] = "nothing" /\ \A k \in Node : k # n => Handling'[k] = Handling[k]
    BY <2>1, <1>2, HandlingFacts
  <2>3. Handling' = [Handling EXCEPT ![n] = Handling'[n]]
    BY <2>2, MappedFunctions, ChangedAt
  <2> QED
    BY <2>2, <2>3
<1>7. Index' = Index /\ \A d \in Index : InFlight(d)' <=> InFlight(d)
  BY <1>1 DEF Index, InFlight
<1>8. Unsent' = Unsent
  BY <1>1, <1>7 DEF Unsent
<1>9. Mailbox' = Mailbox
  BY <1>1, <1>7 DEF Mailbox, Mail
<1> QED
  BY <1>1, <1>4, <1>5, <1>6, <1>8, <1>9 DEF Sends!Finish

\* Nothing happens.
LEMMA StutterStutters ==
  ASSUME UNCHANGED vars
  PROVE  UNCHANGED Sends!vars
<1>1. UNCHANGED <<conn, waiting, holder, rest, killed>>
  BY DEF vars
<1>2. Index' = Index /\ \A d \in Index : InFlight(d)' <=> InFlight(d)
  BY <1>1 DEF Index, InFlight
<1>3. Mailbox' = Mailbox /\ Handling' = Handling
  BY <1>1, <1>2 DEF Mailbox, Mail, Handling
<1>4. Unsent' = Unsent
  BY <1>1, <1>2 DEF Unsent
<1> QED
  BY <1>1, <1>3, <1>4 DEF Sends!vars

\* Every step of the message handler is one of the abstract sends, or none.
LEMMA SendsStep == Inv /\ Inv' /\ [Next]_vars => [Sends!Next]_Sends!vars
<1> SUFFICES ASSUME Inv, Inv', [Next]_vars PROVE [Sends!Next]_Sends!vars
  OBVIOUS
<1>1. Kept
  BY StepFacts DEF Inv
<1>2. Types = {"algorithm", "STOP", "STOP ALL"}
  BY DEF Types
<1>3. ASSUME NEW c \in Index, Connect(c) \/ Reset(c) PROVE Sends!Next
  BY <1>1, <1>3, NetworkLoses DEF Sends!Next
<1>4. ASSUME NEW c \in Index, Receive(c) PROVE Sends!Next
  BY <1>1, <1>4, ReceiveSends DEF Sends!Next
<1>5. ASSUME NEW n \in Node, Crash(n) \/ Continue(n) \/ \E type \in Types : Request(n, type)
      PROVE  Sends!Next
  BY <1>1, <1>5, OutsideLoses DEF Sends!Next
<1>6. ASSUME NEW n \in Node, NEW m \in Node, SendNext(n, m) PROVE Sends!Next
  BY <1>1, <1>6, SendNextLoses DEF Sends!Next
<1>7. ASSUME NEW n \in Node, DropWhenKilled(n) PROVE Sends!Next
  BY <1>1, <1>7, DropDrops DEF Sends!Next
<1>8. ASSUME NEW n \in Node, StartAlgorithm(n) \/ Stop(n) \/ StopAll(n) PROVE Sends!Next
  BY <1>1, <1>2, <1>8, StartHandles, StopHandles, StopAllHandles DEF Sends!Next
<1>9. ASSUME NEW n \in Node, Leave(n) PROVE Sends!Next
  BY <1>1, <1>9, LeaveFinishes DEF Sends!Next
<1>10. CASE UNCHANGED vars
  BY <1>10, StutterStutters
<1> QED
  BY <1>3, <1>4, <1>5, <1>6, <1>7, <1>8, <1>9, <1>10 DEF Next, NetworkStep, HandlerStep

\* The algorithms may be written over sends that are one step: connections,
\* answers, refused connections, the semaphore and the stop signals never let
\* a message be handled that was not sent, come twice, overtake another on its
\* way into the mailbox of its receiver, or outlive the handler that sends it
\* (serverLogic.js:51-95, 142-156).
THEOREM AtomicSendsRefined == Spec => AtomicSends
<1>1. Init => Sends!Init
  <2> SUFFICES ASSUME Init PROVE Sends!Init
    OBVIOUS
  <2>1. /\ conn = <<>> /\ waiting = [n \in Node |-> <<>>] /\ holder = [n \in Node |-> 0]
        /\ rest = [n \in Node |-> {}] /\ killed = [n \in Node |-> FALSE]
    BY DEF Init
  <2>2. Index = {}
    BY <2>1 DEF Index
  <2>3. \A n \in Node : Mailbox[n] = <<>>
    <3>1. ASSUME NEW n \in Node PROVE Mailbox[n] = <<>>
      <4>1. waiting[n] = <<>> /\ 1..Len(waiting[n]) = {}
        BY <2>1
      <4>2. Mailbox[n] = [i \in {} |-> Mail[waiting[n][i]]]
        BY <4>1 DEF Mailbox
      <4> QED
        BY <4>2
    <3> QED
      BY <3>1
  <2>4. Mailbox = [n \in Node |-> <<>>]
    BY <2>3, MappedFunctions
  <2>5. Handling = [n \in Node |-> "nothing"]
    BY <2>1 DEF Handling
  <2>6. Unsent = [n \in Node |-> {}]
    <3>1. \A n \in Node : Unsent[n] = {}
      BY <2>1, <2>2 DEF Unsent
    <3> QED
      BY <3>1, MappedFunctions
  <2> QED
    BY <2>1, <2>4, <2>5, <2>6 DEF Sends!Init
<1>2. Inv /\ Inv' /\ [Next]_vars => [Sends!Next]_Sends!vars
  BY SendsStep
<1> QED
  BY <1>1, <1>2, Invariance, PTL DEF Spec, AtomicSends, Sends!Spec
=============================================================================
