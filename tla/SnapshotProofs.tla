--------------------------- MODULE SnapshotProofs ---------------------------
(***************************************************************************)
(* Proofs about the snapshot of the votes (Snapshot), for any number of    *)
(* nodes, any clocks they start with, any campaigns and rumors, and any    *)
(* number of crashes.                                                      *)
(***************************************************************************)
EXTENDS SnapshotInvariant, FiniteSetTheorems, WellFoundedInduction, TLAPS

-----------------------------------------------------------------------------
(* Numbers and clocks.                                                     *)

\* The constants, as the proofs use them.
LEMMA ConstantFacts ==
  /\ Observer \in Proc /\ Node \subseteq Proc /\ Observer \notin Node
  /\ \A n \in Node : n # Observer
  /\ \A p \in Proc : p = Observer \/ p \in Node
  /\ IsFiniteSet(Node) /\ IsFiniteSet(Proc) /\ Cardinality(Node) \in Nat
  /\ Margin * Cardinality(Node) \in Nat
<1>1. IsFiniteSet(Node) /\ IsFiniteSet(Proc)
  BY ProcAssumption, FS_AddElement DEF Proc
<1>2. Cardinality(Node) \in Nat
  BY <1>1, FS_CardinalityType
<1>3. \A a, b \in Nat : a * b \in Nat
  OBVIOUS
<1>4. Margin * Cardinality(Node) \in Nat
  BY <1>2, <1>3, NumberAssumption
<1> QED
  BY <1>1, <1>2, <1>4, ProcAssumption DEF Proc

\* Every set of numbers has a smallest one.
LEMMA SmallestNumber ==
  ASSUME NEW T \in SUBSET Nat, T # {}
  PROVE  \E x \in T : \A y \in T : x <= y
<1>1. PICK x \in T : \A y \in T : ~(<<y, x>> \in OpToRel(<, Nat))
  BY NatLessThanWellFounded, WFMin
<1>2. \A y \in T : ~(y < x)
  BY <1>1 DEF OpToRel
<1> QED
  BY <1>2

\* A finite set of numbers has an upper bound: one of smallest size without
\* one would have an element less.
LEMMA Bounded ==
  ASSUME NEW S \in SUBSET Nat, IsFiniteSet(S)
  PROVE  \E b \in Nat : \A x \in S : x <= b
<1> DEFINE HasBound(Q) == \E b \in Nat : \A x \in Q : x <= b
           Bad == {k \in Nat : \E Q \in SUBSET Nat :
                     IsFiniteSet(Q) /\ Cardinality(Q) = k /\ ~HasBound(Q)}
<1> HIDE DEF HasBound
<1>1. SUFFICES ASSUME ~HasBound(S) PROVE FALSE
  BY DEF HasBound
<1>2. Cardinality(S) \in Bad
  BY <1>1, FS_CardinalityType
<1>3. PICK k \in Bad : \A l \in Bad : k <= l
  BY <1>2, SmallestNumber
<1>4. PICK Q \in SUBSET Nat : IsFiniteSet(Q) /\ Cardinality(Q) = k /\ ~HasBound(Q)
  BY <1>3
<1>5. PICK e \in Q : TRUE
  BY <1>4 DEF HasBound
<1>6. IsFiniteSet(Q \ {e}) /\ Cardinality(Q \ {e}) = k - 1
  BY <1>4, <1>5, FS_RemoveElement
<1>7. Cardinality(Q \ {e}) \in Nat
  BY <1>6, FS_CardinalityType
<1>8. HasBound(Q \ {e})
  <2>1. SUFFICES ASSUME ~HasBound(Q \ {e}) PROVE FALSE
    OBVIOUS
  <2>2. Cardinality(Q \ {e}) \in Bad
    BY <2>1, <1>4, <1>6, <1>7
  <2> QED
    BY <2>2, <1>3, <1>6, <1>7
<1>9. PICK b \in Nat : \A x \in Q \ {e} : x <= b
  BY <1>8 DEF HasBound
<1>10. \A x \in Q : x <= (IF e <= b THEN b ELSE e)
  BY <1>9
<1>11. HasBound(Q)
  BY <1>10, <1>9, <1>5 DEF HasBound
<1> QED
  BY <1>11, <1>4

\* getMaxTimestamp returns an entry of the clock, and the largest one.
LEMMA MaxTimestampFacts ==
  ASSUME NEW c \in Clock
  PROVE  /\ MaxTimestamp(c) \in Nat
         /\ \A p \in Proc : c[p] <= MaxTimestamp(c)
<1> DEFINE E == {c[p] : p \in DOMAIN c}
           B == {b \in Nat : \A x \in E : x <= b}
<1>1. DOMAIN c = Proc /\ E \in SUBSET Nat
  BY DEF Clock
<1>2. IsFiniteSet(E)
  <2> DEFINE f == [p \in Proc |-> c[p]]
  <2>1. f \in Surjection(Proc, E)
    BY <1>1 DEF Surjection
  <2> QED
    BY <2>1, ConstantFacts, FS_Surjection
<1>3. B # {}
  BY <1>1, <1>2, Bounded
<1>4. PICK t \in B : \A b \in B : t <= b
  BY <1>3, SmallestNumber
<1>5. t \in E
  <2> SUFFICES ASSUME t \notin E PROVE FALSE
    OBVIOUS
  <2>1. c[Observer] \in E /\ c[Observer] \in Nat
    BY <1>1, ConstantFacts
  <2>2. t # 0 /\ t \in Nat
    BY <2>1, <1>4
  <2>3. t - 1 \in B
    BY <2>2, <1>1, <1>4
  <2> QED
    BY <2>3, <1>4, <2>2
<1>6. \A p \in DOMAIN c : c[p] <= t
  BY <1>4
<1>7. \E u \in E : \A p \in DOMAIN c : c[p] <= u
  BY <1>5, <1>6
<1>8. MaxTimestamp(c) \in E /\ \A p \in DOMAIN c : c[p] <= MaxTimestamp(c)
  BY <1>7 DEF MaxTimestamp
<1> QED
  BY <1>8, <1>1

\* tick() and update() only ever raise the entries of a clock.
LEMMA ClockFacts ==
  ASSUME NEW c \in Clock, NEW d \in Clock, NEW p \in Proc
  PROVE  /\ Tick(c, p) \in Clock /\ \A q \in Proc : Tick(c, p)[q] >= c[q]
         /\ Update(c, d) \in Clock
         /\ \A q \in Proc : Update(c, d)[q] >= c[q] /\ Update(c, d)[q] >= d[q]
<1>1. /\ DOMAIN c = Proc /\ DOMAIN d = Proc
      /\ \A q \in Proc : c[q] \in Nat /\ d[q] \in Nat
  BY DEF Clock
<1>2. Tick(c, p) \in Clock /\ \A q \in Proc : Tick(c, p)[q] >= c[q]
  <2>1. /\ DOMAIN Tick(c, p) = Proc
        /\ \A q \in Proc : Tick(c, p)[q] = IF q = p THEN c[q] + 1 ELSE c[q]
    BY <1>1 DEF Tick
  <2>2. \A q \in Proc : Tick(c, p)[q] \in Nat /\ Tick(c, p)[q] >= c[q]
    BY <2>1, <1>1
  <2>3. Tick(c, p) = [q \in Proc |-> Tick(c, p)[q]]
    BY <1>1 DEF Tick
  <2> HIDE DEF Tick
  <2> QED
    BY <2>1, <2>2, <2>3 DEF Clock
<1>3. Update(c, d) = [q \in Proc |-> Larger(c[q], d[q])]
  BY <1>1 DEF Update
<1>4. \A q \in Proc : Larger(c[q], d[q]) \in Nat /\ Larger(c[q], d[q]) >= c[q] /\ Larger(c[q], d[q]) >= d[q]
  BY <1>1 DEF Larger
<1> QED
  BY <1>2, <1>3, <1>4 DEF Clock

\* The clock of a process after it took in a message.
LEMMA ReceivedFacts ==
  ASSUME TypeOK, NEW p \in Proc, NEW m \in Message
  PROVE  /\ Received(p, m) \in Clock
         /\ \A q \in Proc : /\ Received(p, m)[q] \in Nat
                            /\ Received(p, m)[q] >= clock[p][q]
                            /\ Received(p, m)[q] >= m.time[q]
<1>1. clock[p] \in Clock /\ m.time \in Clock
  BY DEF TypeOK, Message
<1> DEFINE t == Tick(clock[p], p)
<1>2. t \in Clock /\ \A q \in Proc : t[q] >= clock[p][q]
  BY <1>1, ClockFacts
<1> HIDE DEF t
<1>3. Update(t, m.time) \in Clock /\ \A q \in Proc : Update(t, m.time)[q] >= t[q] /\ Update(t, m.time)[q] >= m.time[q]
  BY <1>1, <1>2, ClockFacts
<1>4. \A q \in Proc : clock[p][q] \in Nat /\ t[q] \in Nat /\ Update(t, m.time)[q] \in Nat
  BY <1>1, <1>2, <1>3 DEF Clock
<1>5. Received(p, m) = Update(t, m.time)
  BY DEF Received, t
<1>6. \A q \in Proc : Update(t, m.time)[q] >= clock[p][q]
  BY <1>2, <1>3, <1>4
<1> QED
  BY <1>3, <1>4, <1>5, <1>6

-----------------------------------------------------------------------------
(* Messages and queues.                                                    *)

LEMMA MessageFacts ==
  ASSUME NEW m \in Message
  PROVE  /\ m.from \in Proc /\ m.time \in Clock
         /\ m.type \in {"take-snapshot", "app", "response"} \cup Question
         /\ m.type = "take-snapshot-at" => m.at \in Nat
         /\ m.type = "response" => m.content \in Content
BY DEF Message, Question

LEMMA MessageTypes ==
  ASSUME NEW p \in Proc, NEW c \in Clock
  PROVE  /\ \A type \in {"take-snapshot", "app", "get-local-vector-timestamp", "update-vector-clock"} :
              [type |-> type, from |-> p, time |-> c] \in Message
         /\ \A t \in Nat : [type |-> "take-snapshot-at", from |-> p, time |-> c, at |-> t] \in Message
         /\ \A x \in Content :
              [type |-> "response", from |-> p, time |-> c, content |-> x] \in Message
BY DEF Message

\* An event handler appends a message it has acknowledged.
LEMMA AppendQueue ==
  ASSUME NEW q \in Seq(Message), NEW m \in Message
  PROVE  /\ Append(q, m) \in Seq(Message)
         /\ Elements(Append(q, m)) = Elements(q) \cup {m}
         /\ OneOfEachKind(q) /\ (\A x \in Elements(q) : ~SameKind(x, m)) => OneOfEachKind(Append(q, m))
<1> DEFINE a == Append(q, m)
           l == Len(q)
<1>1. /\ a \in Seq(Message) /\ l \in Nat /\ Len(a) = l + 1
      /\ \A i \in 1..l : a[i] = q[i]
      /\ a[l + 1] = m
  OBVIOUS
<1> HIDE DEF a, l
<1>2. 1..(l + 1) = 1..l \cup {l + 1}
  BY <1>1
<1>3. Elements(a) = Elements(q) \cup {m}
  <2>1. ASSUME NEW x \in Elements(a) PROVE x \in Elements(q) \cup {m}
    <3>1. PICK i \in 1..(l + 1) : x = a[i]
      BY <1>1 DEF Elements
    <3> QED
      BY <3>1, <1>1, <1>2 DEF Elements, l
  <2>2. ASSUME NEW x \in Elements(q) \cup {m} PROVE x \in Elements(a)
    <3>1. CASE x = m
      BY <3>1, <1>1 DEF Elements
    <3>2. CASE x \in Elements(q)
      <4>1. PICK i \in 1..l : x = q[i]
        BY <3>2 DEF Elements, l
      <4> QED
        BY <4>1, <1>1, <1>2 DEF Elements
    <3> QED
      BY <3>1, <3>2
  <2> QED
    BY <2>1, <2>2
<1>4. ASSUME OneOfEachKind(q), \A x \in Elements(q) : ~SameKind(x, m)
      PROVE  OneOfEachKind(a)
  <2>1. SUFFICES ASSUME NEW i \in 1..(l + 1), NEW j \in 1..(l + 1), SameKind(a[i], a[j])
                 PROVE  i = j
    BY <1>1 DEF OneOfEachKind
  <2>2. SameKind(a[j], a[i])
    BY <2>1 DEF SameKind
  <2>3. \A k \in 1..l : a[k] \in Elements(q)
    BY <1>1 DEF Elements, l
  <2>4. CASE i \in 1..l /\ j \in 1..l
    BY <2>4, <1>4, <2>1, <1>1 DEF OneOfEachKind, l
  <2>5. CASE i = l + 1 /\ j \in 1..l
    BY <2>5, <1>4, <2>2, <2>3, <1>1
  <2>6. CASE j = l + 1 /\ i \in 1..l
    BY <2>6, <1>4, <2>1, <2>3, <1>1
  <2> QED
    BY <2>4, <2>5, <2>6, <1>2
<1> QED
  BY <1>1, <1>3, <1>4 DEF a

\* A handler that got the semaphore takes the first message.
LEMMA TailQueue ==
  ASSUME NEW q \in Seq(Message), q # <<>>
  PROVE  /\ Head(q) \in Message /\ Tail(q) \in Seq(Message)
         /\ Head(q) \in Elements(q)
         /\ Elements(q) = Elements(Tail(q)) \cup {Head(q)}
         /\ OneOfEachKind(q) => OneOfEachKind(Tail(q)) /\ \A x \in Elements(Tail(q)) : ~SameKind(x, Head(q))
<1> DEFINE t == Tail(q)
           l == Len(t)
<1>1. /\ t \in Seq(Message) /\ l \in Nat /\ Len(q) = l + 1
      /\ \A i \in 1..l : t[i] = q[i + 1]
      /\ Head(q) = q[1] /\ Head(q) \in Message
  OBVIOUS
<1> HIDE DEF t, l
<1>2. Head(q) \in Elements(q)
  BY <1>1 DEF Elements
<1>3. Elements(q) = Elements(t) \cup {Head(q)}
  <2>1. ASSUME NEW x \in Elements(q) PROVE x \in Elements(t) \cup {Head(q)}
    <3>1. PICK i \in 1..(l + 1) : x = q[i]
      BY <1>1 DEF Elements
    <3>2. CASE i = 1
      BY <3>1, <3>2, <1>1
    <3>3. CASE i # 1
      <4>1. i - 1 \in 1..l /\ t[i - 1] = q[i]
        BY <3>3, <1>1
      <4> QED
        BY <4>1, <3>1 DEF Elements, l
    <3> QED
      BY <3>2, <3>3
  <2>2. ASSUME NEW x \in Elements(t) PROVE x \in Elements(q)
    <3>1. PICK i \in 1..l : x = t[i]
      BY DEF Elements, l
    <3>2. i + 1 \in 1..Len(q) /\ x = q[i + 1]
      BY <3>1, <1>1
    <3> QED
      BY <3>2 DEF Elements
  <2> QED
    BY <2>1, <2>2, <1>2
<1>4. ASSUME OneOfEachKind(q)
      PROVE  OneOfEachKind(t) /\ \A x \in Elements(t) : ~SameKind(x, Head(q))
  <2>1. \A i, j \in 1..(l + 1) : SameKind(q[i], q[j]) => i = j
    BY <1>4, <1>1 DEF OneOfEachKind
  <2>2. ASSUME NEW i \in 1..l, NEW j \in 1..l, SameKind(t[i], t[j]) PROVE i = j
    <3>1. i + 1 \in 1..(l + 1) /\ j + 1 \in 1..(l + 1) /\ SameKind(q[i + 1], q[j + 1])
      BY <2>2, <1>1
    <3>2. i + 1 = j + 1
      BY <3>1, <2>1
    <3> QED
      BY <3>2, <1>1
  <2>3. ASSUME NEW x \in Elements(t), SameKind(x, Head(q)) PROVE FALSE
    <3>1. PICK i \in 1..l : x = t[i]
      BY DEF Elements, l
    <3>2. i + 1 \in 1..(l + 1) /\ 1 \in 1..(l + 1) /\ SameKind(q[i + 1], q[1])
      BY <3>1, <2>3, <1>1
    <3>3. i + 1 = 1
      BY <3>2, <2>1
    <3> QED
      BY <3>3, <1>1
  <2> QED
    BY <2>2, <2>3 DEF OneOfEachKind, l
<1> QED
  BY <1>1, <1>2, <1>3, <1>4 DEF t

-----------------------------------------------------------------------------
(* Types.                                                                  *)

\* What every handler of a node starts with.
LEMMA TakeFacts ==
  ASSUME TypeOK, NEW n \in Node, NEW type, NEW c, Take(n, type, c)
  PROVE  /\ Head(inbox[n]) \in Message /\ Head(inbox[n]).type = type
         /\ inbox[n] # <<>> /\ inbox[n] \in Seq(Message)
         /\ c = Received(n, Head(inbox[n])) /\ c \in Clock
         /\ c[n] \in Nat /\ c[n] >= clock[n][n] /\ c[n] >= Head(inbox[n]).time[n]
         /\ finishedTimestamp' \in [Node -> Nat \cup {None}]
         /\ n \in alive /\ telling[n] = {}
<1>1. inbox[n] \in Seq(Message) /\ inbox[n] # <<>> /\ n \in Proc
  BY ConstantFacts DEF TypeOK, Take
<1>2. Head(inbox[n]) \in Message
  BY <1>1, TailQueue
<1>3. c = Received(n, Head(inbox[n])) /\ c \in Clock /\ c[n] \in Nat /\ c[n] >= clock[n][n] /\ c[n] >= Head(inbox[n]).time[n]
  BY <1>1, <1>2, ReceivedFacts DEF Take
<1>4. finishedTimestamp' \in [Node -> Nat \cup {None}]
  BY <1>3 DEF TypeOK, Take
<1> QED
  BY <1>1, <1>2, <1>3, <1>4 DEF Take

\* The answer of a node: its clock, its queue and the observer's.
LEMMA ReplyFacts ==
  ASSUME TypeOK, NEW n \in Node, NEW c \in Clock, NEW content \in Content,
         inbox[n] # <<>>, Reply(n, c, content)
  PROVE  /\ clock' \in [Proc -> Clock] /\ inbox' \in [Proc -> Seq(Message)]
         /\ clock'[n][n] >= c[n]
         /\ \A p \in Proc \ {n} : clock'[p] = clock[p]
         /\ inbox'[n] = Tail(inbox[n])
         /\ \A p \in Proc \ {n, Observer} : inbox'[p] = inbox[p]
         /\ inbox'[Observer] = IF obs.killed THEN inbox[Observer]
              ELSE Append(inbox[Observer], [type |-> "response", from |-> n,
                                            time |-> Tick(c, n), content |-> content])
<1> DEFINE m == [type |-> "response", from |-> n, time |-> Tick(c, n), content |-> content]
<1>1. n \in Proc /\ n # Observer /\ Observer \in Proc
  BY ConstantFacts
<1>2. Tick(c, n) \in Clock /\ Tick(c, n)[n] >= c[n]
  BY <1>1, ClockFacts
<1>3. m \in Message
  BY <1>1, <1>2, MessageTypes
<1>4. clock' = [clock EXCEPT ![n] = Tick(c, n)]
  BY DEF Reply
<1>5. /\ clock' \in [Proc -> Clock]
      /\ clock'[n] = Tick(c, n)
      /\ \A p \in Proc \ {n} : clock'[p] = clock[p]
  <2> HIDE DEF Clock
  <2> QED
    BY <1>1, <1>2, <1>4 DEF TypeOK
<1>6. inbox[n] \in Seq(Message) /\ inbox[Observer] \in Seq(Message)
  BY <1>1 DEF TypeOK
<1>7. Tail(inbox[n]) \in Seq(Message) /\ Append(inbox[Observer], m) \in Seq(Message)
  BY <1>3, <1>6, TailQueue, AppendQueue
<1> HIDE DEF m
<1>8. inbox' = [inbox EXCEPT ![n] = Tail(@),
                             ![Observer] = IF obs.killed THEN @ ELSE Append(@, m)]
  BY DEF Reply, m
<1>9. /\ inbox'[n] = Tail(inbox[n])
      /\ \A p \in Proc \ {n, Observer} : inbox'[p] = inbox[p]
      /\ inbox'[Observer] = IF obs.killed THEN inbox[Observer] ELSE Append(inbox[Observer], m)
  BY <1>1, <1>8 DEF TypeOK
<1>10. inbox' \in [Proc -> Seq(Message)]
  <2>1. inbox \in [Proc -> Seq(Message)]
    BY DEF TypeOK
  <2> QED
    BY <1>1, <1>6, <1>7, <1>8, <2>1
<1> QED
  BY <1>2, <1>5, <1>9, <1>10 DEF m

\* A message that is taken and not answered.
LEMMA DropFacts ==
  ASSUME TypeOK, NEW n \in Node, NEW c \in Clock, inbox[n] # <<>>,
         clock' = [clock EXCEPT ![n] = c], inbox' = [inbox EXCEPT ![n] = Tail(@)]
  PROVE  /\ clock' \in [Proc -> Clock] /\ inbox' \in [Proc -> Seq(Message)]
         /\ clock'[n] = c
         /\ \A p \in Proc \ {n} : clock'[p] = clock[p]
         /\ inbox'[n] = Tail(inbox[n])
         /\ \A p \in Proc \ {n} : inbox'[p] = inbox[p]
<1>1. n \in Proc /\ inbox[n] \in Seq(Message)
  BY ConstantFacts DEF TypeOK
<1>2. Tail(inbox[n]) \in Seq(Message)
  BY <1>1, TailQueue
<1> QED
  BY <1>1, <1>2 DEF TypeOK

LEMMA SendLocalTimestampType ==
  ASSUME TypeOK, NEW n \in Node, SendLocalTimestamp(n)
  PROVE  TypeOK'
<1> DEFINE c == Received(n, Head(inbox[n]))
<1>1. Take(n, "get-local-vector-timestamp", c) /\ Reply(n, c, [is |-> "time", value |-> c[n]])
  BY DEF SendLocalTimestamp
<1>2. c \in Clock /\ c[n] \in Nat /\ inbox[n] # <<>> /\ finishedTimestamp' \in [Node -> Nat \cup {None}]
  BY <1>1, TakeFacts
<1> HIDE DEF c
<1>3. [is |-> "time", value |-> c[n]] \in Content
  BY <1>2 DEF Content
<1>4. clock' \in [Proc -> Clock] /\ inbox' \in [Proc -> Seq(Message)]
  BY <1>1, <1>2, <1>3, ReplyFacts
<1>5. UNCHANGED <<vote, telling, snapshotTimestamp, reported, told, alive, obsVars, asked>>
  BY <1>1 DEF SendLocalTimestamp, Take
<1> QED
  BY <1>2, <1>4, <1>5 DEF TypeOK, obsVars

LEMMA TakeSnapshotAtType ==
  ASSUME TypeOK, NEW n \in Node, TakeSnapshotAt(n)
  PROVE  TypeOK'
<1> DEFINE m == Head(inbox[n])
           c == Received(n, m)
<1>1. Take(n, "take-snapshot-at", c)
  BY DEF TakeSnapshotAt
<1>2. /\ c \in Clock /\ c[n] \in Nat /\ inbox[n] # <<>> /\ finishedTimestamp' \in [Node -> Nat \cup {None}]
      /\ m \in Message /\ m.type = "take-snapshot-at"
  BY <1>1, TakeFacts
<1>3. m.at \in Nat
  BY <1>2, MessageFacts
<1>4. PICK x \in {[is |-> "valid"], [is |-> "invalid"]} : Reply(n, c, x)
  BY DEF TakeSnapshotAt
<1>5. snapshotTimestamp' \in [Node -> Nat \cup {None}]
  BY <1>3 DEF TypeOK, TakeSnapshotAt
<1>6. UNCHANGED <<vote, telling, reported, told, alive, obsVars, asked>>
  BY <1>1 DEF TakeSnapshotAt, Take
<1> HIDE DEF c
<1>7. x \in Content
  BY DEF Content
<1>8. clock' \in [Proc -> Clock] /\ inbox' \in [Proc -> Seq(Message)]
  BY <1>2, <1>4, <1>7, ReplyFacts
<1> QED
  BY <1>2, <1>5, <1>6, <1>8 DEF TypeOK, obsVars

LEMMA UpdateVectorClockType ==
  ASSUME TypeOK, NEW n \in Node, UpdateVectorClock(n)
  PROVE  TypeOK'
<1> DEFINE c == Received(n, Head(inbox[n]))
           x == [is |-> "status", of |-> n, value |-> vote[n]]
<1>1. Take(n, "update-vector-clock", c)
  BY DEF UpdateVectorClock
<1>2. c \in Clock /\ inbox[n] # <<>> /\ finishedTimestamp' \in [Node -> Nat \cup {None}]
  BY <1>1, TakeFacts
<1>3. UNCHANGED <<vote, telling, snapshotTimestamp, told, alive, obsVars, asked>>
  BY <1>1 DEF UpdateVectorClock, Take
<1>4. reported' \in [Node -> Vote \cup {None}]
  BY DEF UpdateVectorClock, TypeOK
<1>5. \/ Reply(n, c, x)
      \/ clock' = [clock EXCEPT ![n] = c] /\ inbox' = [inbox EXCEPT ![n] = Tail(@)]
  BY DEF UpdateVectorClock
<1>6. x \in Content
  BY DEF Content, TypeOK
<1> HIDE DEF c, x
<1>7. clock' \in [Proc -> Clock] /\ inbox' \in [Proc -> Seq(Message)]
  BY <1>2, <1>5, <1>6, ReplyFacts, DropFacts
<1> QED
  BY <1>2, <1>3, <1>4, <1>7 DEF TypeOK, obsVars

LEMMA HandleAppType ==
  ASSUME TypeOK, NEW n \in Node, HandleApp(n)
  PROVE  TypeOK'
<1> DEFINE c == Received(n, Head(inbox[n]))
<1>1. /\ Take(n, "app", c)
      /\ clock' = [clock EXCEPT ![n] = c] /\ inbox' = [inbox EXCEPT ![n] = Tail(@)]
  BY DEF HandleApp
<1>2. c \in Clock /\ inbox[n] # <<>> /\ finishedTimestamp' \in [Node -> Nat \cup {None}]
  BY <1>1, TakeFacts
<1>3. UNCHANGED <<snapshotTimestamp, reported, alive, obsVars, asked>>
  BY <1>1 DEF HandleApp, Take
<1>4. vote' \in [Node -> Vote] /\ telling' \in [Node -> SUBSET Node] /\ told' \in 0..MaxApp
  <2>1. CASE UNCHANGED <<vote, telling, told>>
    BY <2>1 DEF TypeOK
  <2>2. CASE /\ \E v \in Vote : vote' = [vote EXCEPT ![n] = v]
             /\ \E S \in SUBSET (Node \ {n}) :
                  /\ told + Cardinality(S) <= MaxApp
                  /\ told' = told + Cardinality(S)
                  /\ telling' = [telling EXCEPT ![n] = S]
    <3>1. PICK S \in SUBSET (Node \ {n}) :
            /\ told + Cardinality(S) <= MaxApp
            /\ told' = told + Cardinality(S)
            /\ telling' = [telling EXCEPT ![n] = S]
      BY <2>2
    <3>2. Cardinality(S) \in Nat
      BY ConstantFacts, FS_Subset, FS_CardinalityType
    <3>3. told' \in 0..MaxApp
      BY <3>1, <3>2, NumberAssumption DEF TypeOK
    <3> QED
      BY <2>2, <3>1, <3>3 DEF TypeOK
  <2> QED
    BY <2>1, <2>2 DEF HandleApp
<1> HIDE DEF c
<1>5. clock' \in [Proc -> Clock] /\ inbox' \in [Proc -> Seq(Message)]
  BY <1>1, <1>2, DropFacts
<1> QED
  BY <1>2, <1>3, <1>4, <1>5 DEF TypeOK, obsVars

\* A tick of p and a message m to q, if that one lives.
LEMMA SendFacts ==
  ASSUME TypeOK, NEW p \in Proc, NEW q \in Proc, NEW m \in Message, NEW up \in BOOLEAN,
         clock' = [clock EXCEPT ![p] = Tick(clock[p], p)],
         inbox' = [inbox EXCEPT ![q] = IF up THEN Append(@, m) ELSE @]
  PROVE  /\ clock' \in [Proc -> Clock] /\ inbox' \in [Proc -> Seq(Message)]
         /\ \A r \in Proc : clock'[p][r] >= clock[p][r]
         /\ \A r \in Proc \ {p} : clock'[r] = clock[r]
         /\ inbox'[q] = IF up THEN Append(inbox[q], m) ELSE inbox[q]
         /\ \A r \in Proc \ {q} : inbox'[r] = inbox[r]
<1>1. clock[p] \in Clock /\ inbox[q] \in Seq(Message)
  BY DEF TypeOK
<1>2. Tick(clock[p], p) \in Clock /\ \A r \in Proc : Tick(clock[p], p)[r] >= clock[p][r]
  BY <1>1, ClockFacts
<1>3. Append(inbox[q], m) \in Seq(Message)
  BY <1>1, AppendQueue
<1>4. /\ clock' \in [Proc -> Clock] /\ clock'[p] = Tick(clock[p], p)
      /\ \A r \in Proc \ {p} : clock'[r] = clock[r]
  BY <1>2 DEF TypeOK
<1>5. /\ inbox' \in [Proc -> Seq(Message)]
      /\ inbox'[q] = IF up THEN Append(inbox[q], m) ELSE inbox[q]
      /\ \A r \in Proc \ {q} : inbox'[r] = inbox[r]
  BY <1>1, <1>3 DEF TypeOK
<1> QED
  BY <1>2, <1>4, <1>5

\* The message of a campaign or rumor loop.
LEMMA TellFacts ==
  ASSUME TypeOK, NEW n \in Node, NEW m \in Node, Tell(n, m)
  PROVE  \E msg \in Message :
           /\ msg.type = "app"
           /\ clock' \in [Proc -> Clock] /\ inbox' \in [Proc -> Seq(Message)]
           /\ \A r \in Proc : clock'[n][r] >= clock[n][r]
           /\ \A r \in Proc \ {n} : clock'[r] = clock[r]
           /\ inbox'[m] = IF m \in alive THEN Append(inbox[m], msg) ELSE inbox[m]
           /\ \A r \in Proc \ {m} : inbox'[r] = inbox[r]
<1> DEFINE msg == [type |-> "app", from |-> n, time |-> Tick(clock[n], n)]
<1>1. n \in Proc /\ m \in Proc /\ clock[n] \in Clock
  BY ConstantFacts DEF TypeOK
<1>2. msg \in Message /\ msg.type = "app"
  BY <1>1, ClockFacts, MessageTypes
<1> DEFINE up == m \in alive
<1>3. /\ clock' = [clock EXCEPT ![n] = Tick(clock[n], n)]
      /\ inbox' = [inbox EXCEPT ![m] = IF up THEN Append(@, msg) ELSE @]
      /\ up \in BOOLEAN
  BY <1>1 DEF Tell
<1> HIDE DEF msg, up
<1>4. /\ clock' \in [Proc -> Clock] /\ inbox' \in [Proc -> Seq(Message)]
      /\ \A r \in Proc : clock'[n][r] >= clock[n][r]
      /\ \A r \in Proc \ {n} : clock'[r] = clock[r]
      /\ inbox'[m] = IF up THEN Append(inbox[m], msg) ELSE inbox[m]
      /\ \A r \in Proc \ {m} : inbox'[r] = inbox[r]
  BY <1>1, <1>2, <1>3, SendFacts
<1> QED
  BY <1>2, <1>4 DEF up

LEMMA TellType ==
  ASSUME TypeOK, NEW n \in Node, NEW m \in Node, Tell(n, m)
  PROVE  TypeOK'
<1>1. clock' \in [Proc -> Clock] /\ inbox' \in [Proc -> Seq(Message)]
  BY TellFacts
<1>2. telling' \in [Node -> SUBSET Node]
  BY DEF Tell, TypeOK
<1>3. UNCHANGED <<alive, vote, snapshotTimestamp, finishedTimestamp, reported, obsVars, asked, told>>
  BY DEF Tell
<1> QED
  BY <1>1, <1>2, <1>3 DEF TypeOK, obsVars

\* The question of the observer's loop, as it is sent to one node.
LEMMA SendToNodeFacts ==
  ASSUME TypeOK, NEW n \in Node, SendToNode(n)
  PROVE  /\ sending \in Sends /\ sending # None /\ n \in sending.rest
         /\ \E msg \in Message :
              /\ msg.type = sending.type
              /\ msg.type = "take-snapshot-at" => msg.at = obs.timestamp
              /\ \A q \in Proc : msg.time[q] >= clock[Observer][q]
              /\ clock' \in [Proc -> Clock] /\ inbox' \in [Proc -> Seq(Message)]
              /\ \A q \in Proc : clock'[Observer][q] >= clock[Observer][q]
              /\ \A q \in Proc \ {Observer} : clock'[q] = clock[q]
              /\ inbox'[n] = IF n \in alive THEN Append(inbox[n], msg) ELSE inbox[n]
              /\ \A q \in Proc \ {n} : inbox'[q] = inbox[q]
         /\ sending' \in Sends /\ sending'.type = sending.type
         /\ sending'.rest = sending.rest \ {n}
         /\ sending'.contacted = IF n \in alive THEN sending.contacted + 1 ELSE sending.contacted
<1> DEFINE time == Tick(clock[Observer], Observer)
           msg  == IF sending.type = "take-snapshot-at"
                   THEN [type |-> sending.type, from |-> Observer, time |-> time, at |-> obs.timestamp]
                   ELSE [type |-> sending.type, from |-> Observer, time |-> time]
           up == n \in alive
<1>1. sending \in Sends /\ sending # None /\ n \in sending.rest
  BY DEF SendToNode, TypeOK
<1>2. Observer \in Proc /\ n \in Proc /\ clock[Observer] \in Clock /\ obs.timestamp \in Nat
  BY ConstantFacts DEF TypeOK
<1>3. time \in Clock /\ \A q \in Proc : time[q] >= clock[Observer][q]
  BY <1>2, ClockFacts
<1>4. /\ clock' = [clock EXCEPT ![Observer] = Tick(clock[Observer], Observer)]
      /\ inbox' = [inbox EXCEPT ![n] = IF up THEN Append(@, msg) ELSE @]
      /\ sending' = [sending EXCEPT !.rest = @ \ {n}, !.contacted = IF n \in alive THEN @ + 1 ELSE @]
      /\ up \in BOOLEAN
  BY DEF SendToNode
<1>5. /\ sending.type \in {"get-local-vector-timestamp", "take-snapshot-at", "update-vector-clock"}
      /\ sending.rest \subseteq Node /\ sending.contacted \in Nat
  BY <1>1 DEF Sends
<1>6. /\ sending' \in Sends /\ sending'.type = sending.type
      /\ sending'.rest = sending.rest \ {n}
      /\ sending'.contacted = IF n \in alive THEN sending.contacted + 1 ELSE sending.contacted
  <2> DEFINE k == IF n \in alive THEN sending.contacted + 1 ELSE sending.contacted
             r == sending.rest \ {n}
  <2>1. k \in Nat /\ r \in SUBSET Node
    BY <1>5
  <2>2. sending' = [sending EXCEPT !.rest = r, !.contacted = k]
    BY <1>4
  <2> HIDE DEF k, r
  <2>3. sending' \in Sends /\ sending'.type = sending.type /\ sending'.rest = r /\ sending'.contacted = k
    BY <2>1, <2>2, <1>1 DEF Sends
  <2> QED
    BY <2>3 DEF k, r
<1> HIDE DEF time, up
<1>7. /\ msg \in Message /\ msg.type = sending.type /\ msg.time = time
      /\ msg.type = "take-snapshot-at" => msg.at = obs.timestamp
  BY <1>2, <1>3, <1>5, MessageTypes
<1> HIDE DEF msg
<1>8. /\ clock' \in [Proc -> Clock] /\ inbox' \in [Proc -> Seq(Message)]
      /\ \A r \in Proc : clock'[Observer][r] >= clock[Observer][r]
      /\ \A r \in Proc \ {Observer} : clock'[r] = clock[r]
      /\ inbox'[n] = IF up THEN Append(inbox[n], msg) ELSE inbox[n]
      /\ \A r \in Proc \ {n} : inbox'[r] = inbox[r]
  BY <1>2, <1>4, <1>7, SendFacts
<1> QED
  BY <1>1, <1>3, <1>6, <1>7, <1>8 DEF up

LEMMA SendToNodeType ==
  ASSUME TypeOK, NEW n \in Node, SendToNode(n)
  PROVE  TypeOK'
<1>1. clock' \in [Proc -> Clock] /\ inbox' \in [Proc -> Seq(Message)] /\ sending' \in Sends
  BY SendToNodeFacts
<1>2. UNCHANGED <<alive, nodeVars, obs, nodeFinishedStates, illegal, asked, told>>
  BY DEF SendToNode
<1> QED
  BY <1>1, <1>2 DEF TypeOK, nodeVars

LEMMA ObsFacts ==
  ASSUME TypeOK
  PROVE  /\ obs.state \in Phase /\ obs.responses \in Nat /\ obs.expected \in Nat
         /\ obs.negative \in BOOLEAN /\ obs.margin \in Nat /\ obs.timestamp \in Nat
         /\ obs.killed \in BOOLEAN
         /\ \A s \in Phase : NextState[s] \in Phase
         /\ NextState["idle"] = "collect-timestamps"
         /\ NextState["collect-timestamps"] = "calculate-snapshot-timestamp"
         /\ NextState["calculate-snapshot-timestamp"] = "distribute-snapshot-timestamp"
         /\ NextState["distribute-snapshot-timestamp"] = "timestamp-distributed"
         /\ NextState["timestamp-distributed"] = "collect-node-state"
         /\ NextState["collect-node-state"] = "finished"
BY DEF TypeOK, NextState, Phase

LEMMA WaitForResponsesType ==
  ASSUME TypeOK, WaitForResponses
  PROVE  TypeOK'
<1>1. sending.contacted \in Nat /\ sending' = None
  BY DEF TypeOK, Sends, WaitForResponses
<1>2. NextState[obs.state] \in Phase
  BY ObsFacts
<1>3. /\ obs' \in [state : Phase, responses : Nat, expected : Nat, negative : BOOLEAN,
              margin : Nat, timestamp : Nat, killed : BOOLEAN]
      /\ illegal' \in BOOLEAN
  <2>1. CASE obs.state \in Collecting \cup {"finished"}
    BY <2>1 DEF TypeOK, WaitForResponses
  <2>2. CASE obs.state \notin Collecting \cup {"finished"}
    <3> DEFINE s == NextState[obs.state]
               k == sending.contacted
    <3>1. obs' = [obs EXCEPT !.state = s, !.responses = 0, !.expected = k] /\ UNCHANGED illegal
      BY <2>2 DEF WaitForResponses
    <3>2. s \in Phase /\ k \in Nat
      BY <1>1, <1>2
    <3> HIDE DEF s, k
    <3> QED
      BY <3>1, <3>2 DEF TypeOK
  <2> QED
    BY <2>1, <2>2
<1>4. UNCHANGED <<clock, inbox, alive, nodeVars, nodeFinishedStates, asked, told>>
  BY DEF WaitForResponses
<1> QED
  BY <1>1, <1>3, <1>4 DEF TypeOK, nodeVars

\* The observer takes its first message.
LEMMA ObserverTakesFacts ==
  ASSUME TypeOK, NEW msg, ObserverTakes(msg)
  PROVE  /\ msg \in Message /\ msg = Head(inbox[Observer]) /\ inbox[Observer] # <<>>
         /\ inbox[Observer] \in Seq(Message)
         /\ inbox' \in [Proc -> Seq(Message)]
         /\ inbox'[Observer] = Tail(inbox[Observer])
         /\ \A p \in Proc \ {Observer} : inbox'[p] = inbox[p]
         /\ sending = None /\ ~obs.killed
         /\ UNCHANGED <<alive, nodeVars, asked, told>>
<1>1. Observer \in Proc /\ inbox[Observer] \in Seq(Message) /\ inbox[Observer] # <<>>
  BY ConstantFacts DEF TypeOK, ObserverTakes
<1>2. Head(inbox[Observer]) \in Message /\ Tail(inbox[Observer]) \in Seq(Message)
  BY <1>1, TailQueue
<1>3. inbox' = [inbox EXCEPT ![Observer] = Tail(@)] /\ inbox \in [Proc -> Seq(Message)]
  BY DEF ObserverTakes, TypeOK
<1>4. /\ inbox' \in [Proc -> Seq(Message)]
      /\ inbox'[Observer] = Tail(inbox[Observer])
      /\ \A p \in Proc \ {Observer} : inbox'[p] = inbox[p]
  BY <1>1, <1>2, <1>3
<1> QED
  BY <1>1, <1>2, <1>4 DEF ObserverTakes, ObserverFree

\* Counting a response: full, when it was the last one that was expected;
\* negative, when it or an earlier one was a refusal.
LEMMA AfterResponseFacts ==
  ASSUME TypeOK, NEW content,
         NEW full \in BOOLEAN, full <=> obs.responses + 1 = obs.expected,
         NEW negative \in BOOLEAN,
         negative <=> obs.negative \/ (obs.state = "distribute-snapshot-timestamp" /\ content.is # "valid")
  PROVE  LET o == AfterResponse(content) IN
         /\ o \in [state : Phase, responses : Nat, expected : Nat, negative : BOOLEAN,
                   margin : Nat, timestamp : Nat, killed : BOOLEAN]
         /\ o.responses = obs.responses + 1 /\ o.expected = obs.expected
         /\ o.timestamp = obs.timestamp /\ o.killed = obs.killed
         /\ o.negative <=> negative /\ ~full
         /\ ~full => o.state = obs.state
         /\ full /\ negative => o.state = "calculate-snapshot-timestamp"
         /\ full /\ ~negative => o.state = NextState[obs.state]
<1> DEFINE R == [state : Phase, responses : Nat, expected : Nat, negative : BOOLEAN,
                 margin : Nat, timestamp : Nat, killed : BOOLEAN]
           refusal == obs.state = "distribute-snapshot-timestamp" /\ content.is # "valid"
           m == [obs EXCEPT !.margin = IF refusal THEN 2 * @ ELSE @]
           k == Counted(m, refusal)
           o == AfterResponse(content)
<1>1. obs \in R /\ refusal \in BOOLEAN
  BY DEF TypeOK
<1>2. m \in R /\ m.responses = obs.responses /\ m.expected = obs.expected /\ m.state = obs.state
      /\ m.timestamp = obs.timestamp /\ m.killed = obs.killed /\ m.negative = obs.negative
  <2>1. PICK x \in Nat : m = [obs EXCEPT !.margin = x]
    BY <1>1
  <2> HIDE DEF m
  <2> QED
    BY <2>1, <1>1
<1>3. o = Transition(k)
  BY DEF AfterResponse
<1> HIDE DEF m
<1>4. k \in R /\ k.responses = obs.responses + 1 /\ k.expected = obs.expected /\ k.state = obs.state
      /\ k.timestamp = obs.timestamp /\ k.killed = obs.killed /\ k.negative = negative
  <2>1. negative = (m.negative \/ refusal)
    BY <1>2, <1>1
  <2> HIDE DEF refusal
  <2>2. k = [m EXCEPT !.responses = @ + 1, !.negative = @ \/ refusal]
    BY DEF Counted
  <2> HIDE DEF k
  <2>3. k = [m EXCEPT !.responses = m.responses + 1, !.negative = negative]
    BY <2>1, <2>2
  <2>4. m.responses + 1 \in Nat
    BY <1>2
  <2> QED
    BY <2>3, <2>4, <1>2
<1> HIDE DEF k
<1>5. CASE ~full
  BY <1>3, <1>4, <1>5 DEF Transition
<1>6. CASE full /\ negative
  <2>1. o = [k EXCEPT !.negative = FALSE, !.state = "calculate-snapshot-timestamp"]
    BY <1>3, <1>4, <1>6 DEF Transition
  <2>2. "calculate-snapshot-timestamp" \in Phase
    BY DEF Phase
  <2> HIDE DEF o
  <2>3. o \in R /\ o.responses = obs.responses + 1 /\ o.expected = obs.expected
        /\ o.timestamp = obs.timestamp /\ o.killed = obs.killed /\ ~o.negative
        /\ o.state = "calculate-snapshot-timestamp"
    BY <2>1, <2>2, <1>4
  <2> QED
    BY <2>3, <1>6 DEF o
<1>7. CASE full /\ ~negative
  <2> DEFINE s == NextState[obs.state]
  <2>1. o = [k EXCEPT !.state = s]
    BY <1>3, <1>4, <1>7 DEF Transition
  <2>2. s \in Phase
    BY ObsFacts
  <2> HIDE DEF o, s
  <2>3. o \in R /\ o.responses = obs.responses + 1 /\ o.expected = obs.expected
        /\ o.timestamp = obs.timestamp /\ o.killed = obs.killed /\ o.negative = negative
        /\ o.state = s
    BY <2>1, <2>2, <1>4
  <2> QED
    BY <2>3, <1>7 DEF o, s
<1> QED
  BY <1>5, <1>6, <1>7

LEMMA SnapshotTimeType ==
  ASSUME NEW c \in Clock, NEW margin \in Nat
  PROVE  SnapshotTime(c, margin) \in Nat
BY MaxTimestampFacts DEF SnapshotTime

\* Clocks may be set forward, which _manipulateVectorClock does.
LEMMA ManipulatedFacts ==
  ASSUME NEW c \in Clock, NEW t \in Nat
  PROVE  /\ Manipulated(c, t) \in Clock
         /\ \A p \in Proc : Manipulated(c, t)[p] >= c[p]
         /\ \A n \in Node : Manipulated(c, t)[n] >= t
<1>1. \A p \in Proc : c[p] \in Nat
  BY DEF Clock
<1>2. \A p \in Proc : Larger(c[p], t) \in Nat /\ Larger(c[p], t) >= c[p] /\ Larger(c[p], t) >= t
  BY <1>1 DEF Larger
<1> DEFINE e == [p \in Proc |-> IF p \in Node THEN Larger(c[p], t) ELSE c[p]]
<1>3. /\ \A p \in Proc : e[p] \in Nat /\ e[p] >= c[p]
      /\ \A n \in Node : e[n] >= t
  <2>1. \A p \in Proc : e[p] = IF p \in Node THEN Larger(c[p], t) ELSE c[p]
    OBVIOUS
  <2>2. \A n \in Node : n \in Proc
    BY ConstantFacts
  <2> HIDE DEF e
  <2>3. ASSUME NEW p \in Proc PROVE e[p] \in Nat /\ e[p] >= c[p]
    BY <1>1, <1>2, <2>1
  <2>4. ASSUME NEW n \in Node PROVE e[n] >= t
    BY <1>2, <2>1, <2>2
  <2> QED
    BY <2>3, <2>4
<1>4. e \in Clock
  BY <1>3 DEF Clock
<1> QED
  BY <1>3, <1>4 DEF Manipulated

LEMMA LoopFacts ==
  \A type \in {"get-local-vector-timestamp", "take-snapshot-at", "update-vector-clock"} :
    /\ Loop(type) \in Sends /\ Loop(type) # None
    /\ Loop(type).type = type /\ Loop(type).rest = Node /\ Loop(type).contacted = 0
<1>1. SUFFICES ASSUME NEW type \in {"get-local-vector-timestamp", "take-snapshot-at", "update-vector-clock"}
               PROVE  /\ Loop(type) \in Sends
                      /\ Loop(type).type = type /\ Loop(type).rest = Node /\ Loop(type).contacted = 0
  BY NoneAssumption, SMTT(30)
<1> QED
  BY DEF Loop, Sends

\* A response in a state that collects them.
LEMMA CollectFacts ==
  ASSUME TypeOK, ReceiveResponse, obs.state \in Collecting
  PROVE  LET msg == Head(inbox[Observer])
             o   == AfterResponse(msg.content)
         IN
         /\ ObserverTakes(msg) /\ msg.type = "response"
         /\ nodeFinishedStates' = IF obs.state = "collect-node-state"
                                  THEN Append(nodeFinishedStates, msg.content)
                                  ELSE nodeFinishedStates
         /\ obs' \in [state : Phase, responses : Nat, expected : Nat, negative : BOOLEAN,
                      margin : Nat, timestamp : Nat, killed : BOOLEAN]
         /\ obs'.state = o.state /\ obs'.responses = o.responses /\ obs'.expected = o.expected
         /\ obs'.negative = o.negative /\ obs'.killed = (o.state = "finished")
         /\ o.state # "calculate-snapshot-timestamp" => obs'.timestamp = obs.timestamp
         /\ o.state = "calculate-snapshot-timestamp" => sending' = Loop("take-snapshot-at")
         /\ o.state = "timestamp-distributed" => sending' = Loop("update-vector-clock")
         /\ o.state \notin {"calculate-snapshot-timestamp", "timestamp-distributed"} => sending' = None
         /\ clock' \in [Proc -> Clock]
         /\ \A p \in Proc : clock'[Observer][p] >= clock[Observer][p]
         /\ \A p \in Proc \ {Observer} : clock'[p] = clock[p]
         /\ o.state = "timestamp-distributed" => \A n \in Node : clock'[Observer][n] >= obs.timestamp
         /\ UNCHANGED illegal
<1> DEFINE msg == Head(inbox[Observer])
           c   == Received(Observer, msg)
           o   == AfterResponse(msg.content)
           R   == [state : Phase, responses : Nat, expected : Nat, negative : BOOLEAN,
                   margin : Nat, timestamp : Nat, killed : BOOLEAN]
           d   == IF o.state = "timestamp-distributed" THEN Manipulated(c, o.timestamp) ELSE c
           t   == IF o.state = "calculate-snapshot-timestamp" THEN SnapshotTime(c, o.margin) ELSE o.timestamp
           k   == o.state = "finished"
<1>1. /\ ObserverTakes(msg) /\ msg.type = "response"
      /\ nodeFinishedStates' = IF obs.state = "collect-node-state"
                               THEN Append(nodeFinishedStates, msg.content)
                               ELSE nodeFinishedStates
      /\ UNCHANGED illegal
      /\ clock' = [clock EXCEPT ![Observer] = d]
  BY DEF ReceiveResponse
<1>2. msg \in Message /\ Observer \in Proc /\ clock \in [Proc -> Clock]
  BY <1>1, ObserverTakesFacts, ConstantFacts DEF TypeOK
<1>3. obs' = [o EXCEPT !.timestamp = IF o.state = "calculate-snapshot-timestamp"
                                      THEN SnapshotTime(c, o.margin) ELSE @,
                       !.killed = o.state = "finished"]
  BY DEF ReceiveResponse
<1>4. sending' = CASE o.state = "calculate-snapshot-timestamp" -> Loop("take-snapshot-at")
                   [] o.state = "timestamp-distributed" -> Loop("update-vector-clock")
                   [] OTHER -> None
  BY DEF ReceiveResponse
<1>5. c \in Clock /\ \A p \in Proc : c[p] \in Nat /\ c[p] >= clock[Observer][p]
  BY <1>2, ReceivedFacts
<1>6. o \in R /\ o.timestamp = obs.timestamp
  <2>1. PICK full \in BOOLEAN : full <=> obs.responses + 1 = obs.expected
    OBVIOUS
  <2>2. PICK negative \in BOOLEAN :
          negative <=> obs.negative \/ (obs.state = "distribute-snapshot-timestamp" /\ msg.content.is # "valid")
    BY DEF TypeOK
  <2> HIDE DEF msg
  <2> QED
    BY <2>1, <2>2, AfterResponseFacts
<1> HIDE DEF c, o, msg
<1>7. t \in Nat /\ k \in BOOLEAN /\ obs' = [o EXCEPT !.timestamp = t, !.killed = k]
      /\ (o.state # "calculate-snapshot-timestamp" => t = obs.timestamp)
  BY <1>3, <1>5, <1>6, SnapshotTimeType
<1>8. /\ obs' \in R
      /\ obs'.state = o.state /\ obs'.responses = o.responses /\ obs'.expected = o.expected
      /\ obs'.negative = o.negative /\ obs'.killed = k /\ obs'.timestamp = t
  <2> HIDE DEF t, k
  <2> QED
    BY <1>6, <1>7
<1>9. /\ d \in Clock /\ \A p \in Proc : d[p] >= clock[Observer][p]
      /\ o.state = "timestamp-distributed" => \A n \in Node : d[n] >= obs.timestamp
  <2>1. obs.timestamp \in Nat /\ clock[Observer] \in Clock
    BY <1>2 DEF TypeOK
  <2>2. CASE o.state = "timestamp-distributed"
    <3> DEFINE e == Manipulated(c, obs.timestamp)
    <3>1. /\ e \in Clock /\ \A p \in Proc : e[p] >= c[p]
          /\ \A n \in Node : e[n] >= obs.timestamp
      BY <2>1, <1>5, ManipulatedFacts
    <3>2. d = e
      BY <2>2, <1>6
    <3> HIDE DEF e, d
    <3>3. \A p \in Proc : e[p] \in Nat /\ clock[Observer][p] \in Nat
      BY <3>1, <2>1 DEF Clock
    <3>4. \A p \in Proc : e[p] >= clock[Observer][p]
      BY <3>1, <3>3, <1>5
    <3> QED
      BY <3>1, <3>2, <3>4
  <2>3. CASE o.state # "timestamp-distributed"
    BY <2>3, <1>5
  <2> QED
    BY <2>2, <2>3
<1> HIDE DEF d
<1>10. /\ clock' \in [Proc -> Clock]
       /\ \A p \in Proc : clock'[Observer][p] >= clock[Observer][p]
       /\ \A p \in Proc \ {Observer} : clock'[p] = clock[p]
       /\ o.state = "timestamp-distributed" => \A n \in Node : clock'[Observer][n] >= obs.timestamp
  BY <1>1, <1>2, <1>9
<1>11. /\ o.state = "calculate-snapshot-timestamp" => sending' = Loop("take-snapshot-at")
       /\ o.state = "timestamp-distributed" => sending' = Loop("update-vector-clock")
       /\ o.state \notin {"calculate-snapshot-timestamp", "timestamp-distributed"} => sending' = None
  BY <1>4
<1> QED
  BY <1>1, <1>7, <1>8, <1>10, <1>11 DEF o, msg

LEMMA StartSnapshotFacts ==
  ASSUME TypeOK, StartSnapshot
  PROVE  /\ ObserverTakes(Head(inbox[Observer])) /\ Head(inbox[Observer]).type = "take-snapshot"
         /\ clock' \in [Proc -> Clock]
         /\ \A p \in Proc \ {Observer} : clock'[p] = clock[p]
         /\ sending' = Loop("get-local-vector-timestamp")
         /\ UNCHANGED <<obs, nodeFinishedStates, illegal>>
<1> DEFINE msg == Head(inbox[Observer])
<1>1. ObserverTakes(msg)
  BY DEF StartSnapshot
<1>2. msg \in Message /\ Observer \in Proc
  BY <1>1, ObserverTakesFacts, ConstantFacts
<1>3. Received(Observer, msg) \in Clock
  BY <1>2, ReceivedFacts
<1>4. clock' = [clock EXCEPT ![Observer] = Received(Observer, msg)]
  BY DEF StartSnapshot
<1>5. clock' \in [Proc -> Clock] /\ \A p \in Proc \ {Observer} : clock'[p] = clock[p]
  BY <1>2, <1>3, <1>4 DEF TypeOK
<1> QED
  BY <1>5 DEF StartSnapshot

LEMMA StartSnapshotType ==
  ASSUME TypeOK, StartSnapshot
  PROVE  TypeOK'
<1>1. /\ inbox' \in [Proc -> Seq(Message)] /\ clock' \in [Proc -> Clock]
      /\ UNCHANGED <<alive, nodeVars, asked, told>> /\ UNCHANGED <<obs, nodeFinishedStates, illegal>>
  BY StartSnapshotFacts, ObserverTakesFacts
<1>2. sending' \in Sends
  BY StartSnapshotFacts, LoopFacts
<1> QED
  BY <1>1, <1>2 DEF TypeOK, nodeVars

LEMMA ReceiveResponseType ==
  ASSUME TypeOK, ReceiveResponse
  PROVE  TypeOK'
<1> DEFINE msg == Head(inbox[Observer])
<1>1. ObserverTakes(msg) /\ msg.type = "response"
  BY DEF ReceiveResponse
<1>2. /\ inbox' \in [Proc -> Seq(Message)] /\ msg \in Message
      /\ UNCHANGED <<alive, nodeVars, asked, told>>
  BY <1>1, ObserverTakesFacts
<1>3. CASE obs.state \notin Collecting
  <2>1. /\ clock' = [clock EXCEPT ![Observer] = Received(Observer, msg)]
        /\ illegal' = TRUE /\ UNCHANGED <<obs, sending, nodeFinishedStates>>
    BY <1>3 DEF ReceiveResponse
  <2>2. Received(Observer, msg) \in Clock
    BY <1>2, ReceivedFacts, ConstantFacts
  <2> HIDE DEF msg
  <2>3. clock' \in [Proc -> Clock]
    BY <2>1, <2>2 DEF TypeOK
  <2> QED
    BY <1>2, <2>1, <2>3 DEF TypeOK, nodeVars
<1>4. CASE obs.state \in Collecting
  <2> DEFINE o == AfterResponse(msg.content)
  <2>1. /\ nodeFinishedStates' = IF obs.state = "collect-node-state"
                                 THEN Append(nodeFinishedStates, msg.content)
                                 ELSE nodeFinishedStates
        /\ obs' \in [state : Phase, responses : Nat, expected : Nat, negative : BOOLEAN,
                     margin : Nat, timestamp : Nat, killed : BOOLEAN]
        /\ clock' \in [Proc -> Clock]
        /\ UNCHANGED illegal
    BY <1>4, CollectFacts
  <2>2. \/ sending' = Loop("take-snapshot-at") \/ sending' = Loop("update-vector-clock")
        \/ sending' = None
    BY <1>4, CollectFacts
  <2>3. sending' \in {None} \cup Sends
    BY <2>2, LoopFacts
  <2>4. msg.content \in Content
    BY <1>1, <1>2, MessageFacts
  <2>5. nodeFinishedStates' \in Seq(Content)
    <3>1. nodeFinishedStates \in Seq(Content)
      BY DEF TypeOK
    <3> HIDE DEF msg
    <3> QED
      BY <2>1, <2>4, <3>1
  <2> QED
    BY <1>2, <2>1, <2>3, <2>5 DEF TypeOK, nodeVars
<1> QED
  BY <1>3, <1>4

LEMMA RequestSnapshotFacts ==
  ASSUME TypeOK, RequestSnapshot
  PROVE  \E msg \in Message :
           /\ msg.type = "take-snapshot"
           /\ inbox' \in [Proc -> Seq(Message)]
           /\ inbox'[Observer] = Append(inbox[Observer], msg)
           /\ \A p \in Proc \ {Observer} : inbox'[p] = inbox[p]
<1> DEFINE msg == [type |-> "take-snapshot", from |-> Observer, time |-> NewClock(Proc)]
<1>1. Observer \in Proc /\ inbox[Observer] \in Seq(Message)
  BY ConstantFacts DEF TypeOK
<1>2. msg \in Message
  BY <1>1, MessageTypes DEF NewClock, Clock
<1>3. inbox' = [inbox EXCEPT ![Observer] = Append(@, msg)]
  BY DEF RequestSnapshot
<1> HIDE DEF msg
<1>4. Append(inbox[Observer], msg) \in Seq(Message)
  BY <1>1, <1>2, AppendQueue
<1>5. /\ inbox' \in [Proc -> Seq(Message)]
      /\ inbox'[Observer] = Append(inbox[Observer], msg)
      /\ \A p \in Proc \ {Observer} : inbox'[p] = inbox[p]
  BY <1>1, <1>3, <1>4 DEF TypeOK
<1> QED
  BY <1>2, <1>5 DEF msg

LEMMA RequestSnapshotType ==
  ASSUME TypeOK, RequestSnapshot
  PROVE  TypeOK'
<1>1. inbox' \in [Proc -> Seq(Message)]
  BY RequestSnapshotFacts
<1>2. asked' \in 0..MaxTakeSnapshot
  BY NumberAssumption DEF TypeOK, RequestSnapshot
<1> QED
  BY <1>1, <1>2 DEF TypeOK, RequestSnapshot, nodeVars, obsVars

LEMMA CrashType ==
  ASSUME TypeOK, NEW n \in Node, Crash(n)
  PROVE  TypeOK'
BY DEF TypeOK, Crash, nodeVars, obsVars

LEMMA InitType ==
  ASSUME Init
  PROVE  TypeOK
<1>1. NewClock(Proc) \in Clock
  BY DEF NewClock, Clock
<1>2. Tick(NewClock(Proc), Observer) \in Clock
  BY <1>1, ClockFacts, ConstantFacts
<1>3. \A n \in Node : [NewClock(Proc) EXCEPT ![n] = Elapsed[n]] \in Clock
  BY <1>1, NumberAssumption DEF Clock
<1>4. clock \in [Proc -> Clock]
  <2>1. clock = [p \in Proc |-> IF p = Observer THEN Tick(NewClock(Proc), p)
                                ELSE [NewClock(Proc) EXCEPT ![p] = Elapsed[p]]]
    BY DEF Init
  <2> HIDE DEF Clock
  <2> QED
    BY <2>1, <1>2, <1>3, ConstantFacts
<1>5. \A p \in Proc : [type |-> "app", from |-> p, time |-> NewClock(Proc)] \in Message
  BY <1>1, MessageTypes
<1>6. \A p \in Proc : [i \in 1..Backlog |-> [type |-> "app", from |-> p, time |-> NewClock(Proc)]] \in Seq(Message)
  BY <1>5, NumberAssumption
<1>7. inbox \in [Proc -> Seq(Message)]
  <2>1. inbox = [p \in Proc |-> IF p = Observer THEN <<>>
                   ELSE [i \in 1..Backlog |->
                           [type |-> "app", from |-> p, time |-> NewClock(Proc)]]]
    BY DEF Init
  <2>2. <<>> \in Seq(Message)
    OBVIOUS
  <2> QED
    BY <2>1, <2>2, <1>6
<1>8. vote \in [Node -> Vote] /\ alive \subseteq Node /\ telling \in [Node -> SUBSET Node]
  BY DEF Init
<1>9. /\ snapshotTimestamp \in [Node -> Nat \cup {None}] /\ finishedTimestamp \in [Node -> Nat \cup {None}]
      /\ reported \in [Node -> Vote \cup {None}] /\ sending \in {None} \cup Sends
      /\ nodeFinishedStates \in Seq(Content) /\ illegal \in BOOLEAN
      /\ asked \in 0..MaxTakeSnapshot /\ told \in 0..MaxApp
  <2>1. /\ snapshotTimestamp \in [Node -> Nat \cup {None}] /\ finishedTimestamp \in [Node -> Nat \cup {None}]
        /\ reported \in [Node -> Vote \cup {None}] /\ sending \in {None} \cup Sends
    BY DEF Init
  <2>2. nodeFinishedStates \in Seq(Content) /\ illegal \in BOOLEAN
    <3>1. nodeFinishedStates = <<>> /\ illegal = FALSE
      BY DEF Init
    <3>2. <<>> \in Seq(Content)
      OBVIOUS
    <3>3. nodeFinishedStates \in Seq(Content)
      BY <3>1, <3>2, Zenon
    <3> QED
      BY <3>1, <3>3
  <2>3. asked \in 0..MaxTakeSnapshot /\ told \in 0..MaxApp
    BY NumberAssumption DEF Init
  <2> QED
    BY <2>1, <2>2, <2>3
<1>10. obs \in [state : Phase, responses : Nat, expected : Nat, negative : BOOLEAN,
                margin : Nat, timestamp : Nat, killed : BOOLEAN]
  <2>1. "idle" \in Phase
    BY DEF Phase
  <2> QED
    BY <2>1, ConstantFacts DEF Init
<1> QED
  BY <1>4, <1>7, <1>8, <1>9, <1>10 DEF TypeOK

\* The steps of the specification, one by one.
LEMMA Steps ==
  ASSUME Next
  PROVE  \/ RequestSnapshot \/ StartSnapshot \/ ReceiveResponse \/ WaitForResponses
         \/ \E n \in Node : SendToNode(n) \/ Crash(n)
         \/ \E n \in Node : SendLocalTimestamp(n) \/ TakeSnapshotAt(n) \/ UpdateVectorClock(n) \/ HandleApp(n)
         \/ \E n \in Node : \E m \in Node : Tell(n, m)
BY DEF Next, ObserverStep, NodeStep

LEMMA NextType ==
  ASSUME TypeOK, [Next]_vars
  PROVE  TypeOK'
<1>1. CASE UNCHANGED vars
  BY <1>1 DEF TypeOK, vars, nodeVars, obsVars
<1>2. CASE Next
  BY <1>2, Steps, RequestSnapshotType, StartSnapshotType, ReceiveResponseType, WaitForResponsesType,
     SendToNodeType, CrashType, SendLocalTimestampType, TakeSnapshotAtType, UpdateVectorClockType,
     HandleAppType, TellType
<1> QED
  BY <1>1, <1>2

\* The variables have their types, however many snapshots are asked for: in
\* particular a snapshot time is an entry of a clock and a margin, never
\* undefined.
THEOREM TypeCorrect == Spec => []TypeOK
<1>1. Init => TypeOK
  BY InitType
<1>2. TypeOK /\ [Next]_vars => TypeOK'
  BY NextType
<1> QED
  BY <1>1, <1>2, PTL DEF Spec

-----------------------------------------------------------------------------
(* The inductive invariant: what a step does to the round.                 *)

LEMMA OpenFacts ==
  /\ Open \subseteq Node /\ IsFiniteSet(Open) /\ Cardinality(Open) \in Nat
  /\ Open = {} => Cardinality(Open) = 0
<1>1. Open \subseteq Node
  BY DEF Open
<1>2. IsFiniteSet(Open)
  BY <1>1, ConstantFacts, FS_Subset
<1> QED
  BY <1>1, <1>2, FS_CardinalityType, FS_EmptySet

\* Between two rounds nothing waits but campaigns and rumors, and the request.
LEMMA Quiet ==
  ASSUME Inv, Open = {}
  PROVE  /\ \A n \in Node : \A m \in Elements(inbox[n]) : m.type = "app"
         /\ \A m \in Elements(inbox[Observer]) : m.type = "take-snapshot"
<1>1. ASSUME NEW n \in Node, NEW m \in Elements(inbox[n]) PROVE m.type = "app"
  <2>1. m.type \notin Question
    BY <1>1 DEF Open, Requested
  <2>2. AtNode(n, m)
    BY <1>1 DEF Inv, InboxOK
  <2> QED
    BY <2>1, <2>2 DEF AtNode, Question
<1>2. ASSUME NEW m \in Elements(inbox[Observer]) PROVE m.type = "take-snapshot"
  <2>1. AtObserver(m)
    BY <1>2 DEF Inv, InboxOK
  <2>2. ~(m.type = "response" /\ m.from \in Node)
    BY <1>2 DEF Open, Answered
  <2> QED
    BY <2>1, <2>2 DEF AtObserver
<1> QED
  BY <1>1, <1>2

\* A node that takes a question and answers it stays open: its part moves from
\* its own queue to the observer's.
LEMMA ReplyRound ==
  ASSUME Inv, NEW n \in Node, NEW c \in Clock, NEW content \in Content,
         inbox[n] # <<>>, Head(inbox[n]).type \in Question, Reply(n, c, content)
  PROVE  /\ AtNode(n, Head(inbox[n]))
         /\ \A p \in Proc : OneOfEachKind(inbox'[p])
         /\ \A k \in Node : Elements(inbox'[k]) \subseteq Elements(inbox[k])
         /\ \A m \in Elements(inbox'[n]) : m.type \notin Question
         /\ \E msg \in Message :
              /\ msg.type = "response" /\ msg.from = n /\ msg.content = content
              /\ Elements(inbox'[Observer]) = Elements(inbox[Observer]) \cup {msg}
         /\ ~Answered(n) /\ n \in Open /\ Open' = Open
         /\ \A k \in Node : ~(Requested(k)' /\ Answered(k)')
<1> DEFINE msg == [type |-> "response", from |-> n, time |-> Tick(c, n), content |-> content]
           q == inbox[n]
           h == Head(inbox[n])
           r == inbox[Observer]
<1>1. TypeOK /\ InboxOK /\ PhaseOK /\ RoundOK
  BY DEF Inv
<1>2. n \in Proc /\ Observer \in Proc /\ n # Observer /\ Node \subseteq Proc
  BY ConstantFacts
<1>3. q \in Seq(Message) /\ r \in Seq(Message)
  BY <1>1, <1>2 DEF TypeOK
<1>4. msg \in Message /\ msg.type = "response" /\ msg.from = n /\ msg.content = content
  BY <1>2, ClockFacts, MessageTypes
<1>5. /\ h \in Elements(q) /\ Elements(q) = Elements(Tail(q)) \cup {h}
      /\ OneOfEachKind(Tail(q)) /\ \A x \in Elements(Tail(q)) : ~SameKind(x, h)
  BY <1>1, <1>2, <1>3, TailQueue DEF InboxOK
<1>6. AtNode(n, h)
  BY <1>1, <1>5 DEF InboxOK
<1>7. ~obs.killed
  BY <1>1, <1>6 DEF AtNode, PhaseOK, Question, Calling, Proposing, Forcing
<1>8. /\ inbox'[n] = Tail(q) /\ inbox'[Observer] = Append(r, msg)
      /\ \A p \in Proc \ {n, Observer} : inbox'[p] = inbox[p]
  BY <1>1, <1>7, ReplyFacts
<1>9. Requested(n) /\ ~Answered(n)
  BY <1>1, <1>5 DEF Requested, RoundOK
<1> HIDE DEF msg, q, h, r
<1>10. \A x \in Elements(r) : ~SameKind(x, msg)
  BY <1>4, <1>9 DEF SameKind, Answered, Question, r
<1>11. /\ Elements(Append(r, msg)) = Elements(r) \cup {msg}
       /\ OneOfEachKind(Append(r, msg))
  BY <1>1, <1>2, <1>3, <1>4, <1>10, AppendQueue DEF InboxOK, r
<1>12. \A p \in Proc : OneOfEachKind(inbox'[p])
  BY <1>1, <1>5, <1>8, <1>11 DEF InboxOK
<1>13. \A m \in Elements(inbox'[n]) : m.type \notin Question
  BY <1>5, <1>8 DEF SameKind, h
<1>14. \A k \in Node : Elements(inbox'[k]) \subseteq Elements(inbox[k])
  <2>1. \A k \in Node \ {n} : inbox'[k] = inbox[k]
    BY <1>8, ConstantFacts
  <2>2. Elements(inbox'[n]) \subseteq Elements(inbox[n])
    BY <1>5, <1>8 DEF q
  <2> QED
    BY <2>1, <2>2
<1>15. Elements(inbox'[Observer]) = Elements(inbox[Observer]) \cup {msg}
  BY <1>8, <1>11 DEF r
<1>16. ~Requested(n)' /\ Answered(n)'
  BY <1>4, <1>13, <1>15 DEF Requested, Answered
<1>17. ASSUME NEW k \in Node, k # n
       PROVE  Requested(k)' = Requested(k) /\ Answered(k)' = Answered(k)
  <2>1. inbox'[k] = inbox[k]
    BY <1>8, <1>17, ConstantFacts
  <2>2. Requested(k)' = Requested(k)
    BY <2>1 DEF Requested
  <2>3. Answered(k)' = Answered(k)
    BY <1>4, <1>15, <1>17 DEF Answered
  <2> QED
    BY <2>2, <2>3
<1>18. n \in Open /\ Open' = Open
  BY <1>9, <1>16, <1>17 DEF Open
<1>19. \A k \in Node : ~(Requested(k)' /\ Answered(k)')
  BY <1>1, <1>16, <1>17 DEF RoundOK
<1> QED
  BY <1>4, <1>6, <1>9, <1>12, <1>13, <1>14, <1>15, <1>18, <1>19 DEF h

\* Taking or appending a campaign or rumor message changes no part.
LEMMA AppRound ==
  ASSUME Inv, NEW n \in Node, \A p \in Proc \ {n} : inbox'[p] = inbox[p],
         \/ inbox'[n] = inbox[n]
         \/ inbox[n] # <<>> /\ Head(inbox[n]).type = "app" /\ inbox'[n] = Tail(inbox[n])
         \/ \E msg \in Message : msg.type = "app" /\ inbox'[n] = Append(inbox[n], msg)
  PROVE  /\ \A p \in Proc : OneOfEachKind(inbox'[p])
         /\ \A k \in Node : \A m \in Elements(inbox'[k]) : m \in Elements(inbox[k]) \/ m.type = "app"
         /\ inbox'[Observer] = inbox[Observer]
         /\ Open' = Open /\ \A k \in Node : Requested(k)' = Requested(k) /\ Answered(k)' = Answered(k)
<1> DEFINE q == inbox[n]
<1>1. TypeOK /\ InboxOK
  BY DEF Inv
<1>2. n \in Proc /\ Observer \in Proc /\ n # Observer
  BY ConstantFacts
<1>3. q \in Seq(Message) /\ OneOfEachKind(q)
  BY <1>1, <1>2 DEF TypeOK, InboxOK
<1>4. /\ OneOfEachKind(inbox'[n])
      /\ \A m \in Elements(inbox'[n]) : m \in Elements(q) \/ m.type = "app"
      /\ \A m \in Elements(q) : m \in Elements(inbox'[n]) \/ m.type = "app"
  <2>1. CASE inbox'[n] = q
    BY <2>1, <1>3
  <2>2. CASE q # <<>> /\ Head(q).type = "app" /\ inbox'[n] = Tail(q)
    BY <2>2, <1>3, TailQueue
  <2>3. CASE \E msg \in Message : msg.type = "app" /\ inbox'[n] = Append(q, msg)
    <3>1. PICK msg \in Message : msg.type = "app" /\ inbox'[n] = Append(q, msg)
      BY <2>3
    <3>2. \A x \in Elements(q) : ~SameKind(x, msg)
      BY <3>1 DEF SameKind, Question
    <3> QED
      BY <3>1, <3>2, <1>3, AppendQueue
  <2> QED
    BY <2>1, <2>2, <2>3
<1> HIDE DEF q
<1>5. \A p \in Proc : OneOfEachKind(inbox'[p])
  BY <1>1, <1>4 DEF InboxOK
<1>6. inbox'[Observer] = inbox[Observer]
  BY <1>2
<1>7. \A k \in Node \ {n} : inbox'[k] = inbox[k]
  BY ConstantFacts
<1>8. \A k \in Node : /\ \A m \in Elements(inbox'[k]) : m \in Elements(inbox[k]) \/ m.type = "app"
                      /\ \A m \in Elements(inbox[k]) : m \in Elements(inbox'[k]) \/ m.type = "app"
  BY <1>4, <1>7 DEF q
<1>9. ASSUME NEW k \in Node PROVE Requested(k)' = Requested(k) /\ Answered(k)' = Answered(k)
  <2>1. Requested(k)' = Requested(k)
    BY <1>8 DEF Requested, Question
  <2>2. Answered(k)' = Answered(k)
    BY <1>6 DEF Answered
  <2> QED
    BY <2>1, <2>2
<1>10. Open' = Open
  BY <1>9 DEF Open
<1> QED
  BY <1>5, <1>6, <1>8, <1>9, <1>10

-----------------------------------------------------------------------------
(* The inductive invariant: the steps of the nodes.                        *)

LEMMA SendLocalTimestampInv ==
  ASSUME Inv, NEW n \in Node, SendLocalTimestamp(n)
  PROVE  Inv'
<1> DEFINE c == Received(n, Head(inbox[n]))
           x == [is |-> "time", value |-> c[n]]
<1>1. TypeOK /\ InboxOK /\ PhaseOK /\ RoundOK /\ AgreementOK /\ ReportOK /\ TallyOK
  BY DEF Inv
<1>2. Take(n, "get-local-vector-timestamp", c) /\ Reply(n, c, x)
  BY DEF SendLocalTimestamp
<1>3. /\ c \in Clock /\ c[n] \in Nat /\ c[n] >= clock[n][n] /\ inbox[n] # <<>>
      /\ Head(inbox[n]).type = "get-local-vector-timestamp"
  BY <1>1, <1>2, TakeFacts
<1>4. UNCHANGED <<vote, telling, snapshotTimestamp, reported, told, alive, obs, sending,
                  nodeFinishedStates, illegal, asked>>
  BY <1>2 DEF SendLocalTimestamp, Take, obsVars
<1> HIDE DEF c
<1>5. x \in Content /\ Head(inbox[n]).type \in Question
  BY <1>3 DEF Content, Question
<1> HIDE DEF x
<1>6. clock'[n][n] >= c[n] /\ (\A p \in Proc \ {n} : clock'[p] = clock[p]) /\ clock' \in [Proc -> Clock]
  BY <1>1, <1>2, <1>3, <1>5, ReplyFacts
<1>7. AtNode(n, Head(inbox[n])) /\ Open' = Open
  BY <1>2, <1>3, <1>5, ReplyRound
<1>8. obs.state \in Calling
  BY <1>3, <1>7 DEF AtNode
<1>9. PICK msg \in Message :
         /\ msg.type = "response" /\ msg.from = n /\ msg.content = x
         /\ Elements(inbox'[Observer]) = Elements(inbox[Observer]) \cup {msg}
  BY <1>2, <1>3, <1>5, ReplyRound
<1>10. /\ \A p \in Proc : OneOfEachKind(inbox'[p])
       /\ \A k \in Node : Elements(inbox'[k]) \subseteq Elements(inbox[k])
       /\ \A k \in Node : ~(Requested(k)' /\ Answered(k)')
  BY <1>2, <1>3, <1>5, ReplyRound
<1>11. TypeOK'
  BY <1>1, SendLocalTimestampType
<1>12. InboxOK'
  <2>1. ASSUME NEW k \in Node, NEW m \in Elements(inbox'[k]) PROVE AtNode(k, m)'
    <3>1. AtNode(k, m)
      BY <1>1, <1>10, <2>1 DEF InboxOK
    <3> QED
      BY <3>1, <1>4 DEF AtNode
  <2>2. ASSUME NEW m \in Elements(inbox'[Observer]) PROVE AtObserver(m)'
    <3>1. AtObserver(m)
      BY <1>1, <1>8, <1>9, <2>2 DEF InboxOK, AtObserver
    <3> QED
      BY <3>1, <1>4 DEF AtObserver
  <2> QED
    BY <1>10, <2>1, <2>2 DEF InboxOK
<1>13. PhaseOK'
  BY <1>1, <1>4 DEF PhaseOK
<1>14. RoundOK'
  BY <1>1, <1>4, <1>7, <1>10 DEF RoundOK
<1>15. AgreementOK'
  BY <1>1, <1>4, <1>6, <1>7, ConstantFacts DEF AgreementOK
<1>16. ReportOK'
  BY <1>1, <1>4, <1>8 DEF ReportOK, Calling, Forcing
<1>17. TallyOK'
  BY <1>1, <1>4, <1>7 DEF TallyOK
<1> QED
  BY <1>11, <1>12, <1>13, <1>14, <1>15, <1>16, <1>17 DEF Inv

\* A node that agrees has the proposed time in its answer's stead.
LEMMA TakeSnapshotAtInv ==
  ASSUME Inv, NEW n \in Node, TakeSnapshotAt(n)
  PROVE  Inv'
<1> DEFINE h == Head(inbox[n])
           c == Received(n, h)
<1>1. TypeOK /\ InboxOK /\ PhaseOK /\ RoundOK /\ AgreementOK /\ ReportOK /\ TallyOK
  BY DEF Inv
<1>2. Take(n, "take-snapshot-at", c)
  BY DEF TakeSnapshotAt
<1>3. /\ c \in Clock /\ c[n] \in Nat /\ c[n] >= clock[n][n] /\ inbox[n] # <<>>
      /\ h.type = "take-snapshot-at" /\ h \in Message
  BY <1>1, <1>2, TakeFacts
<1>4. UNCHANGED <<vote, telling, reported, told, alive, obs, sending, nodeFinishedStates, illegal, asked>>
  BY <1>2 DEF TakeSnapshotAt, Take, obsVars
<1>5. PICK x \in {[is |-> "valid"], [is |-> "invalid"]} :
        /\ Reply(n, c, x)
        /\ \/ x = [is |-> "valid"] /\ snapshotTimestamp' = [snapshotTimestamp EXCEPT ![n] = h.at]
           \/ x = [is |-> "invalid"] /\ UNCHANGED snapshotTimestamp
  BY DEF TakeSnapshotAt
<1>6. x \in Content /\ h.type \in Question
  BY <1>3 DEF Content, Question
<1> HIDE DEF c
<1>7. (\A p \in Proc \ {n} : clock'[p] = clock[p]) /\ clock' \in [Proc -> Clock]
  BY <1>1, <1>3, <1>5, <1>6, ReplyFacts
<1>8. AtNode(n, h) /\ Open' = Open /\ n \in Open /\ ~Answered(n)
  BY <1>3, <1>5, <1>6, ReplyRound
<1>9. obs.state \in Proposing /\ h.at = obs.timestamp
  BY <1>3, <1>8 DEF AtNode
<1>10. PICK msg \in Message :
         /\ msg.type = "response" /\ msg.from = n /\ msg.content = x
         /\ Elements(inbox'[Observer]) = Elements(inbox[Observer]) \cup {msg}
  BY <1>3, <1>5, <1>6, ReplyRound
<1>11. /\ \A p \in Proc : OneOfEachKind(inbox'[p])
       /\ \A k \in Node : Elements(inbox'[k]) \subseteq Elements(inbox[k])
       /\ \A k \in Node : ~(Requested(k)' /\ Answered(k)')
  BY <1>3, <1>5, <1>6, ReplyRound
<1>12. /\ \A k \in Node : k # n => snapshotTimestamp'[k] = snapshotTimestamp[k]
       /\ x.is = "valid" => snapshotTimestamp'[n] = obs.timestamp
  BY <1>1, <1>5, <1>9 DEF TypeOK
<1> HIDE DEF h
<1>13. TypeOK'
  BY <1>1, TakeSnapshotAtType
<1>14. InboxOK'
  <2>1. ASSUME NEW k \in Node, NEW m \in Elements(inbox'[k]) PROVE AtNode(k, m)'
    <3>1. AtNode(k, m)
      BY <1>1, <1>11, <2>1 DEF InboxOK
    <3> QED
      BY <3>1, <1>4 DEF AtNode
  <2>2. ASSUME NEW m \in Elements(inbox'[Observer]) PROVE AtObserver(m)'
    <3>1. CASE m = msg
      BY <3>1, <1>4, <1>9, <1>10, <1>12 DEF AtObserver, Proposing
    <3>2. CASE m \in Elements(inbox[Observer])
      <4>1. AtObserver(m)
        BY <3>2, <1>1 DEF InboxOK
      <4>2. m.type = "response" => m.from # n
        BY <3>2, <1>8 DEF Answered
      <4> QED
        BY <4>1, <4>2, <1>4, <1>9, <1>12 DEF AtObserver, Proposing, Calling, Forcing
    <3> QED
      BY <2>2, <1>10, <3>1, <3>2
  <2> QED
    BY <1>11, <2>1, <2>2 DEF InboxOK
<1>15. PhaseOK'
  BY <1>1, <1>4 DEF PhaseOK
<1>16. RoundOK'
  BY <1>1, <1>4, <1>8, <1>11 DEF RoundOK
<1>17. AgreementOK'
  <2>1. obs'.state \notin Forcing \cup {"finished"} /\ alive \subseteq Node
    BY <1>1, <1>4, <1>9 DEF Proposing, Forcing, TypeOK
  <2>2. \A k \in alive \ Open : snapshotTimestamp'[k] = snapshotTimestamp[k]
    BY <2>1, <1>8, <1>12
  <2> QED
    BY <2>1, <2>2, <1>1, <1>4, <1>8 DEF AgreementOK
<1>18. ReportOK'
  <2>1. \A k \in Node : reported'[k] = None
    BY <1>1, <1>4, <1>9 DEF ReportOK, Proposing, Forcing
  <2> QED
    BY <1>1, <1>4, <2>1 DEF ReportOK
<1>19. TallyOK'
  BY <1>1, <1>4, <1>8 DEF TallyOK
<1> QED
  BY <1>13, <1>14, <1>15, <1>16, <1>17, <1>18, <1>19 DEF Inv

\* A node that gets the forced clock reports its vote, for the first time, and
\* has reached its snapshot time then.
LEMMA UpdateVectorClockInv ==
  ASSUME Inv, NEW n \in Node, UpdateVectorClock(n)
  PROVE  Inv'
<1> DEFINE h == Head(inbox[n])
           c == Received(n, h)
           x == [is |-> "status", of |-> n, value |-> vote[n]]
<1>1. TypeOK /\ InboxOK /\ PhaseOK /\ RoundOK /\ AgreementOK /\ ReportOK /\ TallyOK
  BY DEF Inv
<1>2. Take(n, "update-vector-clock", c)
  BY DEF UpdateVectorClock
<1>3. /\ c \in Clock /\ c[n] \in Nat /\ c[n] >= h.time[n] /\ inbox[n] # <<>>
      /\ h.type = "update-vector-clock" /\ h \in Message /\ n \in alive
  BY <1>1, <1>2, TakeFacts
<1>4. UNCHANGED <<vote, telling, snapshotTimestamp, told, alive, obs, sending, nodeFinishedStates, illegal, asked>>
  BY <1>2 DEF UpdateVectorClock, Take, obsVars
<1>5. h \in Elements(inbox[n])
  BY <1>1, <1>2, <1>3, TailQueue, TakeFacts
<1>6. obs.state \in Forcing /\ h.time[n] >= obs.timestamp /\ reported[n] = None
  BY <1>1, <1>3, <1>5 DEF InboxOK, AtNode
<1>7. reported' = [reported EXCEPT ![n] = vote[n]] /\ Reply(n, c, x)
  BY <1>6 DEF UpdateVectorClock
<1>8. x \in Content /\ h.type \in Question /\ vote[n] # None
  BY <1>1, <1>3, NoneAssumption DEF Content, Question, TypeOK
<1> HIDE DEF c
<1>9. clock'[n][n] >= c[n] /\ (\A p \in Proc \ {n} : clock'[p] = clock[p]) /\ clock' \in [Proc -> Clock]
  <2> HIDE DEF x
  <2> QED
    BY <1>1, <1>3, <1>7, <1>8, ReplyFacts
<1>10. Open' = Open /\ n \in Open /\ ~Answered(n)
  <2> HIDE DEF x
  <2> QED
    BY <1>3, <1>7, <1>8, ReplyRound
<1>11. PICK msg \in Message :
         /\ msg.type = "response" /\ msg.from = n /\ msg.content = x
         /\ Elements(inbox'[Observer]) = Elements(inbox[Observer]) \cup {msg}
  <2> HIDE DEF x
  <2> QED
    BY <1>3, <1>7, <1>8, ReplyRound
<1>12. /\ \A p \in Proc : OneOfEachKind(inbox'[p])
       /\ \A k \in Node : Elements(inbox'[k]) \subseteq Elements(inbox[k])
       /\ \A m \in Elements(inbox'[n]) : m.type \notin Question
       /\ \A k \in Node : ~(Requested(k)' /\ Answered(k)')
  <2> HIDE DEF x
  <2> QED
    BY <1>3, <1>7, <1>8, ReplyRound
<1>13. reported'[n] = vote[n] /\ \A k \in Node : k # n => reported'[k] = reported[k]
  BY <1>1, <1>7 DEF TypeOK
<1> HIDE DEF h
<1>14. TypeOK'
  BY <1>1, UpdateVectorClockType
<1>15. InboxOK'
  <2>1. ASSUME NEW k \in Node, NEW m \in Elements(inbox'[k]) PROVE AtNode(k, m)'
    <3>1. AtNode(k, m)
      BY <1>1, <1>12, <2>1 DEF InboxOK
    <3>2. k = n => m.type # "update-vector-clock"
      BY <1>12, <2>1 DEF Question
    <3> QED
      BY <3>1, <3>2, <1>4, <1>13 DEF AtNode
  <2>2. ASSUME NEW m \in Elements(inbox'[Observer]) PROVE AtObserver(m)'
    <3>1. CASE m = msg
      BY <3>1, <1>4, <1>6, <1>8, <1>11, <1>13 DEF AtObserver
    <3>2. CASE m \in Elements(inbox[Observer])
      <4>1. AtObserver(m)
        BY <3>2, <1>1 DEF InboxOK
      <4>2. m.type = "response" => m.from # n
        BY <3>2, <1>10 DEF Answered
      <4> QED
        BY <4>1, <4>2, <1>4, <1>13 DEF AtObserver
    <3> QED
      BY <2>2, <1>11, <3>1, <3>2
  <2> QED
    BY <1>12, <2>1, <2>2 DEF InboxOK
<1>16. PhaseOK'
  BY <1>1, <1>4 DEF PhaseOK
<1>17. RoundOK'
  BY <1>1, <1>4, <1>10, <1>12 DEF RoundOK
<1>18. AgreementOK'
  BY <1>1, <1>4, <1>9, <1>10, ConstantFacts DEF AgreementOK
<1>19. ReportOK'
  <2>1. snapshotTimestamp[n] = obs.timestamp /\ obs.timestamp \in Nat
    BY <1>1, <1>3, <1>6 DEF AgreementOK, TypeOK
  <2>2. clock'[n][n] >= snapshotTimestamp[n] /\ snapshotTimestamp[n] # None
    <3>1. clock'[n][n] \in Nat /\ h.time[n] \in Nat
      BY <1>3, <1>9, MessageFacts, ConstantFacts DEF Clock
    <3> QED
      BY <2>1, <3>1, <1>3, <1>6, <1>9, NoneAssumption
  <2>3. ASSUME NEW k \in Node, reported'[k] # None
        PROVE  /\ vote'[k] = reported'[k]
               /\ snapshotTimestamp'[k] # None /\ clock'[k][k] >= snapshotTimestamp'[k]
    <3>1. CASE k = n
      BY <3>1, <2>2, <1>4, <1>13
    <3>2. CASE k # n
      <4>1. clock'[k] = clock[k]
        BY <3>2, <1>9, ConstantFacts
      <4> QED
        BY <3>2, <4>1, <2>3, <1>1, <1>4, <1>13 DEF ReportOK
    <3> QED
      BY <3>1, <3>2
  <2>4. sending' # None => \A k \in sending'.rest : reported'[k] = None
    <3>1. sending # None => n \notin sending.rest
      BY <1>1, <1>10 DEF RoundOK
    <3>2. sending # None => sending.rest \subseteq Node
      BY <1>1 DEF TypeOK, Sends
    <3> QED
      BY <3>1, <3>2, <1>1, <1>4, <1>13 DEF ReportOK
  <2> QED
    BY <2>3, <2>4, <1>4, <1>6 DEF ReportOK
<1>20. TallyOK'
  <2>1. \A i \in 1..Len(nodeFinishedStates) : reported'[nodeFinishedStates[i].of] = reported[nodeFinishedStates[i].of]
    <3>1. ASSUME NEW i \in 1..Len(nodeFinishedStates) PROVE nodeFinishedStates[i].of \in Node \ {n}
      <4>1. nodeFinishedStates[i] \in Content /\ nodeFinishedStates[i].is = "status"
        BY <1>1 DEF TypeOK, TallyOK
      <4> QED
        BY <4>1, <1>1, <1>10 DEF Content, TallyOK
    <3> QED
      BY <3>1, <1>13
  <2> QED
    BY <2>1, <1>1, <1>4, <1>10 DEF TallyOK
<1> QED
  BY <1>14, <1>15, <1>16, <1>17, <1>18, <1>19, <1>20 DEF Inv

\* What neither moves parts nor touches what the round speaks of keeps the
\* invariant: campaigns and rumors, and the end of a process.
LEMMA FrameInv ==
  ASSUME Inv, TypeOK',
         \A p \in Proc : OneOfEachKind(inbox'[p]),
         \A k \in Node : \A m \in Elements(inbox'[k]) : m \in Elements(inbox[k]) \/ m.type = "app",
         inbox'[Observer] = inbox[Observer],
         Open' = Open, \A k \in Node : Requested(k)' = Requested(k) /\ Answered(k)' = Answered(k),
         alive' \subseteq alive, clock'[Observer] = clock[Observer],
         \A k \in Node : reported[k] # None => vote'[k] = vote[k] /\ clock'[k][k] >= clock[k][k],
         UNCHANGED <<snapshotTimestamp, reported, obs, sending, nodeFinishedStates, illegal, asked>>
  PROVE  Inv'
<1>1. TypeOK /\ InboxOK /\ PhaseOK /\ RoundOK /\ AgreementOK /\ ReportOK /\ TallyOK
  BY DEF Inv
<1>2. InboxOK'
  <2>1. ASSUME NEW k \in Node, NEW m \in Elements(inbox'[k]) PROVE AtNode(k, m)'
    <3>1. AtNode(k, m)
      BY <1>1, <2>1 DEF InboxOK, AtNode
    <3> QED
      BY <3>1 DEF AtNode
  <2>2. ASSUME NEW m \in Elements(inbox'[Observer]) PROVE AtObserver(m)'
    <3>1. AtObserver(m)
      BY <1>1, <2>2 DEF InboxOK
    <3> QED
      BY <3>1 DEF AtObserver
  <2> QED
    BY <2>1, <2>2 DEF InboxOK
<1>3. PhaseOK'
  BY <1>1 DEF PhaseOK
<1>4. RoundOK'
  BY <1>1 DEF RoundOK
<1>5. AgreementOK'
  BY <1>1 DEF AgreementOK
<1>6. ReportOK'
  <2>1. ASSUME NEW k \in Node, reported[k] # None
        PROVE  vote'[k] = reported[k] /\ snapshotTimestamp[k] # None /\ clock'[k][k] >= snapshotTimestamp[k]
    <3>1. /\ vote[k] = reported[k] /\ snapshotTimestamp[k] # None
          /\ clock[k][k] >= snapshotTimestamp[k] /\ clock'[k][k] >= clock[k][k]
      BY <1>1, <2>1 DEF ReportOK
    <3>2. snapshotTimestamp[k] \in Nat
      BY <1>1, <3>1 DEF TypeOK
    <3>3. clock[k][k] \in Nat /\ clock'[k][k] \in Nat
      BY <1>1, ConstantFacts DEF TypeOK, Clock
    <3> QED
      BY <3>1, <3>2, <3>3, <2>1
  <2> QED
    BY <1>1, <2>1 DEF ReportOK
<1>7. TallyOK'
  BY <1>1 DEF TallyOK
<1> QED
  BY <1>2, <1>3, <1>4, <1>5, <1>6, <1>7 DEF Inv

\* A node that has reported has reached its snapshot time, so it drops a
\* campaign or rumor and keeps its vote.
LEMMA HandleAppInv ==
  ASSUME Inv, NEW n \in Node, HandleApp(n)
  PROVE  Inv'
<1> DEFINE c == Received(n, Head(inbox[n]))
<1>1. TypeOK /\ ReportOK /\ n \in Proc
  BY ConstantFacts DEF Inv
<1>2. /\ Take(n, "app", c)
      /\ clock' = [clock EXCEPT ![n] = c] /\ inbox' = [inbox EXCEPT ![n] = Tail(@)]
  BY DEF HandleApp
<1>3. /\ c \in Clock /\ c[n] \in Nat /\ c[n] >= clock[n][n] /\ inbox[n] # <<>>
      /\ Head(inbox[n]).type = "app"
  BY <1>1, <1>2, TakeFacts
<1>4. UNCHANGED <<snapshotTimestamp, reported, alive, obs, sending, nodeFinishedStates, illegal, asked>>
  BY <1>2 DEF HandleApp, Take, obsVars
<1>5. \/ Finished(n, c[n]) /\ UNCHANGED vote
      \/ ~Finished(n, c[n]) /\ \E v \in Vote : vote' = [vote EXCEPT ![n] = v]
  BY DEF HandleApp
<1> HIDE DEF c
<1>6. /\ clock'[n] = c /\ \A p \in Proc \ {n} : clock'[p] = clock[p]
      /\ inbox'[n] = Tail(inbox[n]) /\ \A p \in Proc \ {n} : inbox'[p] = inbox[p]
  BY <1>1, <1>2, <1>3, DropFacts
<1>7. /\ \A p \in Proc : OneOfEachKind(inbox'[p])
      /\ \A k \in Node : \A m \in Elements(inbox'[k]) : m \in Elements(inbox[k]) \/ m.type = "app"
      /\ inbox'[Observer] = inbox[Observer]
      /\ Open' = Open /\ \A k \in Node : Requested(k)' = Requested(k) /\ Answered(k)' = Answered(k)
  BY <1>3, <1>6, AppRound
<1>8. ASSUME NEW k \in Node, reported[k] # None
      PROVE  vote'[k] = vote[k] /\ clock'[k][k] >= clock[k][k]
  <2>1. /\ snapshotTimestamp[k] # None /\ clock[k][k] >= snapshotTimestamp[k]
        /\ snapshotTimestamp[k] \in Nat /\ clock[k][k] \in Nat
    BY <1>1, <1>8, ConstantFacts DEF ReportOK, TypeOK, Clock
  <2>2. CASE k = n
    <3>1. Finished(n, c[n])
      BY <2>1, <2>2, <1>3 DEF Finished
    <3> QED
      BY <3>1, <2>2, <1>3, <1>5, <1>6
  <2>3. CASE k # n
    <3>1. clock'[k] = clock[k]
      BY <2>3, <1>6, ConstantFacts
    <3>2. vote'[k] = vote[k]
      BY <2>3, <1>1, <1>5 DEF TypeOK
    <3> QED
      BY <3>1, <3>2, <2>1
  <2> QED
    BY <2>2, <2>3
<1>9. TypeOK'
  BY <1>1, HandleAppType
<1>10. clock'[Observer] = clock[Observer]
  BY <1>6, ConstantFacts
<1> QED
  BY <1>4, <1>7, <1>8, <1>9, <1>10, FrameInv

LEMMA TellInv ==
  ASSUME Inv, NEW n \in Node, NEW m \in Node, Tell(n, m)
  PROVE  Inv'
<1>1. TypeOK /\ n \in Proc /\ m \in Proc /\ m # Observer /\ n # Observer
  BY ConstantFacts DEF Inv
<1>2. PICK msg \in Message :
           /\ msg.type = "app"
           /\ clock' \in [Proc -> Clock] /\ inbox' \in [Proc -> Seq(Message)]
           /\ \A r \in Proc : clock'[n][r] >= clock[n][r]
           /\ \A r \in Proc \ {n} : clock'[r] = clock[r]
           /\ inbox'[m] = IF m \in alive THEN Append(inbox[m], msg) ELSE inbox[m]
           /\ \A r \in Proc \ {m} : inbox'[r] = inbox[r]
  BY <1>1, TellFacts
<1>3. inbox'[m] = inbox[m] \/ inbox'[m] = Append(inbox[m], msg)
  BY <1>2
<1>4. /\ \A p \in Proc : OneOfEachKind(inbox'[p])
      /\ \A k \in Node : \A x \in Elements(inbox'[k]) : x \in Elements(inbox[k]) \/ x.type = "app"
      /\ inbox'[Observer] = inbox[Observer]
      /\ Open' = Open /\ \A k \in Node : Requested(k)' = Requested(k) /\ Answered(k)' = Answered(k)
  BY <1>2, <1>3, AppRound
<1>5. UNCHANGED <<alive, vote, snapshotTimestamp, reported, obs, sending, nodeFinishedStates, illegal, asked>>
  BY DEF Tell, obsVars
<1>6. ASSUME NEW k \in Node PROVE clock'[k][k] >= clock[k][k]
  <2>1. k \in Proc /\ clock[k][k] \in Nat
    BY <1>1, ConstantFacts DEF TypeOK, Clock
  <2>2. k # n => clock'[k] = clock[k]
    BY <1>2, <2>1
  <2> QED
    BY <1>2, <2>1, <2>2
<1>7. TypeOK'
  BY <1>1, TellType
<1>8. clock'[Observer] = clock[Observer] /\ alive' \subseteq alive
  BY <1>1, <1>2, <1>5, ConstantFacts
<1>9. \A k \in Node : reported[k] # None => vote'[k] = vote[k] /\ clock'[k][k] >= clock[k][k]
  BY <1>5, <1>6
<1> QED
  BY <1>4, <1>5, <1>7, <1>8, <1>9, FrameInv

LEMMA CrashInv ==
  ASSUME Inv, NEW n \in Node, Crash(n)
  PROVE  Inv'
<1>1. TypeOK /\ InboxOK
  BY DEF Inv
<1>2. UNCHANGED <<clock, inbox, vote, snapshotTimestamp, reported, obs, sending, nodeFinishedStates, illegal, asked>>
      /\ alive' \subseteq alive
  BY DEF Crash, nodeVars, obsVars
<1>3. /\ \A p \in Proc \ {n} : inbox'[p] = inbox[p]
      /\ inbox'[n] = inbox[n]
  BY <1>2
<1>4. /\ \A p \in Proc : OneOfEachKind(inbox'[p])
      /\ \A k \in Node : \A x \in Elements(inbox'[k]) : x \in Elements(inbox[k]) \/ x.type = "app"
      /\ inbox'[Observer] = inbox[Observer]
      /\ Open' = Open /\ \A k \in Node : Requested(k)' = Requested(k) /\ Answered(k)' = Answered(k)
  BY <1>3, AppRound
<1>5. \A k \in Node : reported[k] # None => vote'[k] = vote[k] /\ clock'[k][k] >= clock[k][k]
  <2>1. \A k \in Node : clock[k][k] \in Nat
    BY <1>1, ConstantFacts DEF TypeOK, Clock
  <2> QED
    BY <2>1, <1>2
<1>6. TypeOK'
  BY <1>1, CrashType
<1> QED
  BY <1>2, <1>4, <1>5, <1>6, FrameInv

-----------------------------------------------------------------------------
(* The inductive invariant: the steps of the observer.                     *)

\* The one request finds the observer idle.
LEMMA RequestSnapshotInv ==
  ASSUME MaxTakeSnapshot <= 1, Inv, RequestSnapshot
  PROVE  Inv'
<1>1. TypeOK /\ InboxOK /\ PhaseOK /\ RoundOK /\ AgreementOK /\ ReportOK /\ TallyOK
  BY DEF Inv
<1>2. asked = 0 /\ asked' = 1
  BY <1>1, NumberAssumption DEF TypeOK, RequestSnapshot
<1>3. UNCHANGED <<clock, alive, vote, telling, snapshotTimestamp, reported, obs, sending,
                  nodeFinishedStates, illegal, told>>
  BY DEF RequestSnapshot, nodeVars, obsVars
<1>4. PICK msg \in Message :
           /\ msg.type = "take-snapshot"
           /\ inbox'[Observer] = Append(inbox[Observer], msg)
           /\ \A p \in Proc \ {Observer} : inbox'[p] = inbox[p]
  BY <1>1, RequestSnapshotFacts
<1>5. obs.state = "idle" /\ sending = None
  BY <1>1, <1>2 DEF PhaseOK
<1>6. \A m \in Elements(inbox[Observer]) : m.type # "take-snapshot"
  <2>1. SUFFICES ASSUME NEW m \in Elements(inbox[Observer]), m.type = "take-snapshot" PROVE FALSE
    OBVIOUS
  <2>2. AtObserver(m)
    BY <1>1 DEF InboxOK
  <2>3. asked > 0
    BY <2>1, <2>2 DEF AtObserver
  <2> QED
    BY <2>3, <1>2
<1>7. /\ Elements(inbox'[Observer]) = Elements(inbox[Observer]) \cup {msg}
      /\ OneOfEachKind(inbox'[Observer])
  <2>1. inbox[Observer] \in Seq(Message) /\ OneOfEachKind(inbox[Observer])
    BY <1>1, ConstantFacts DEF TypeOK, InboxOK
  <2>2. \A x \in Elements(inbox[Observer]) : ~SameKind(x, msg)
    BY <1>4, <1>6 DEF SameKind, Question
  <2> QED
    BY <2>1, <2>2, <1>4, AppendQueue
<1>8. \A k \in Node : inbox'[k] = inbox[k]
  BY <1>4, ConstantFacts
<1>9. ASSUME NEW k \in Node PROVE Requested(k)' = Requested(k) /\ Answered(k)' = Answered(k)
  <2>1. Requested(k)' = Requested(k)
    BY <1>8 DEF Requested
  <2>2. Answered(k)' = Answered(k)
    BY <1>4, <1>7 DEF Answered
  <2> QED
    BY <2>1, <2>2
<1>10. Open' = Open
  BY <1>9 DEF Open
<1>11. TypeOK'
  BY <1>1, RequestSnapshotType
<1>12. InboxOK'
  <2>1. ASSUME NEW k \in Node, NEW m \in Elements(inbox'[k]) PROVE AtNode(k, m)'
    <3>1. AtNode(k, m)
      BY <1>1, <1>8, <2>1 DEF InboxOK
    <3> QED
      BY <3>1, <1>3 DEF AtNode
  <2>2. ASSUME NEW m \in Elements(inbox'[Observer]) PROVE AtObserver(m)'
    <3>1. m = msg \/ AtObserver(m)
      BY <1>1, <1>7, <2>2 DEF InboxOK
    <3> QED
      BY <3>1, <1>2, <1>3, <1>4, <1>5 DEF AtObserver
  <2>3. \A p \in Proc : OneOfEachKind(inbox'[p])
    BY <1>1, <1>4, <1>7 DEF InboxOK
  <2> QED
    BY <2>1, <2>2, <2>3 DEF InboxOK
<1>13. PhaseOK'
  BY <1>1, <1>2, <1>3 DEF PhaseOK
<1>14. RoundOK'
  BY <1>1, <1>3, <1>9, <1>10 DEF RoundOK
<1>15. AgreementOK' /\ ReportOK' /\ TallyOK'
  BY <1>1, <1>3, <1>10 DEF AgreementOK, ReportOK, TallyOK
<1> QED
  BY <1>11, <1>12, <1>13, <1>14, <1>15 DEF Inv

\* One send of the observer's loop opens the part of a node that lives.
LEMMA SendToNodeInv ==
  ASSUME Inv, NEW n \in Node, SendToNode(n)
  PROVE  Inv'
<1>1. TypeOK /\ InboxOK /\ PhaseOK /\ RoundOK /\ AgreementOK /\ ReportOK /\ TallyOK
  BY DEF Inv
<1>2. /\ sending \in Sends /\ sending # None /\ n \in sending.rest
      /\ sending' \in Sends /\ sending' # None /\ sending'.type = sending.type
      /\ sending'.rest = sending.rest \ {n}
      /\ sending'.contacted = IF n \in alive THEN sending.contacted + 1 ELSE sending.contacted
  BY <1>1, SendToNodeFacts, NoneAssumption
<1>3. PICK msg \in Message :
              /\ msg.type = sending.type
              /\ msg.type = "take-snapshot-at" => msg.at = obs.timestamp
              /\ \A q \in Proc : msg.time[q] >= clock[Observer][q]
              /\ clock' \in [Proc -> Clock] /\ inbox' \in [Proc -> Seq(Message)]
              /\ \A q \in Proc : clock'[Observer][q] >= clock[Observer][q]
              /\ \A q \in Proc \ {Observer} : clock'[q] = clock[q]
              /\ inbox'[n] = IF n \in alive THEN Append(inbox[n], msg) ELSE inbox[n]
              /\ \A q \in Proc \ {n} : inbox'[q] = inbox[q]
  BY <1>1, SendToNodeFacts
<1>4. UNCHANGED <<alive, vote, snapshotTimestamp, reported, obs, nodeFinishedStates, illegal, asked>>
  BY DEF SendToNode, nodeVars
<1>5. sending.type \in Question /\ sending.rest \subseteq Node /\ sending.contacted \in Nat
  BY <1>2 DEF Sends, Question
<1>6. /\ sending.type = "get-local-vector-timestamp" => obs.state = "idle"
      /\ sending.type = "take-snapshot-at" => obs.state = "calculate-snapshot-timestamp"
      /\ sending.type = "update-vector-clock" => obs.state = "timestamp-distributed"
      /\ sending.type \in {"get-local-vector-timestamp", "take-snapshot-at", "update-vector-clock"}
  BY <1>1, <1>2 DEF PhaseOK, Sends
<1>7. ~Requested(n) /\ ~Answered(n) /\ n \notin Open
  BY <1>1, <1>2 DEF RoundOK, Open
<1>8. inbox'[Observer] = inbox[Observer] /\ \A k \in Node \ {n} : inbox'[k] = inbox[k]
  BY <1>3, ConstantFacts
<1>9. /\ OneOfEachKind(inbox'[n])
      /\ Elements(inbox'[n]) = IF n \in alive THEN Elements(inbox[n]) \cup {msg} ELSE Elements(inbox[n])
  <2>1. inbox[n] \in Seq(Message) /\ OneOfEachKind(inbox[n])
    BY <1>1, ConstantFacts DEF TypeOK, InboxOK
  <2>2. \A x \in Elements(inbox[n]) : ~SameKind(x, msg)
    BY <1>3, <1>5, <1>7 DEF SameKind, Question, Requested
  <2> QED
    BY <2>1, <2>2, <1>3, AppendQueue
<1>10. \A p \in Proc : OneOfEachKind(inbox'[p])
  BY <1>1, <1>3, <1>9 DEF InboxOK
<1>11. \A k \in Node : Answered(k)' = Answered(k)
  BY <1>8 DEF Answered
<1>12. \A k \in Node : Requested(k)' <=> Requested(k) \/ (k = n /\ n \in alive)
  <2>1. Requested(n)' <=> n \in alive
    <3>1. n \in alive => msg \in Elements(inbox'[n]) /\ msg.type \in Question
      BY <1>3, <1>5, <1>9
    <3>2. n \notin alive => inbox'[n] = inbox[n]
      BY <1>3
    <3> QED
      BY <3>1, <3>2, <1>7 DEF Requested
  <2>2. ASSUME NEW k \in Node, k # n PROVE Requested(k)' <=> Requested(k)
    <3>1. inbox'[k] = inbox[k]
      BY <1>8, <2>2
    <3> QED
      BY <3>1 DEF Requested
  <2> QED
    BY <2>1, <2>2, <1>7
<1>13. Open' = IF n \in alive THEN Open \cup {n} ELSE Open
  BY <1>11, <1>12 DEF Open
<1>14. Cardinality(Open') = IF n \in alive THEN Cardinality(Open) + 1 ELSE Cardinality(Open)
  BY <1>7, <1>13, OpenFacts, FS_AddElement
<1>15. TypeOK'
  BY <1>1, SendToNodeType
<1>16. InboxOK'
  <2>1. ASSUME NEW k \in Node, NEW m \in Elements(inbox'[k]) PROVE AtNode(k, m)'
    <3>1. CASE m \in Elements(inbox[k])
      <4>1. AtNode(k, m)
        BY <1>1, <3>1 DEF InboxOK
      <4> QED
        BY <4>1, <1>4 DEF AtNode
    <3>2. CASE k = n /\ m = msg
      <4>1. msg.type = "update-vector-clock" => msg.time[n] >= obs.timestamp /\ reported[n] = None
        <5>1. SUFFICES ASSUME msg.type = "update-vector-clock"
                       PROVE  msg.time[n] >= obs.timestamp /\ reported[n] = None
          OBVIOUS
        <5>2. obs.state = "timestamp-distributed" /\ reported[n] = None
          BY <5>1, <1>1, <1>2, <1>3, <1>6 DEF ReportOK
        <5>3. clock[Observer][n] >= obs.timestamp
          BY <5>2, <1>1 DEF AgreementOK, Forcing
        <5>4. n \in Proc /\ msg.time[n] \in Nat /\ clock[Observer][n] \in Nat /\ obs.timestamp \in Nat
          BY <1>1, MessageFacts, ConstantFacts, SMTT(30) DEF TypeOK, Clock
        <5> QED
          BY <5>2, <5>3, <5>4, <1>3
      <4>2. msg.type = "take-snapshot-at" => msg.at = obs.timestamp
        BY <1>3
      <4>3. AtNode(n, msg)
        BY <4>1, <4>2, <1>3, <1>6 DEF AtNode, Calling, Proposing, Forcing
      <4> QED
        BY <4>3, <3>2, <1>4 DEF AtNode
    <3>3. m \in Elements(inbox[k]) \/ (k = n /\ m = msg)
      <4>1. CASE k = n
        BY <4>1, <2>1, <1>9
      <4>2. CASE k # n
        BY <4>2, <2>1, <1>8
      <4> QED
        BY <4>1, <4>2
    <3> QED
      BY <3>1, <3>2, <3>3
  <2>2. ASSUME NEW m \in Elements(inbox'[Observer]) PROVE AtObserver(m)'
    <3>1. AtObserver(m)
      BY <1>1, <1>8, <2>2 DEF InboxOK
    <3>2. m.type = "response"
      BY <3>1, <1>2 DEF AtObserver
    <3> QED
      BY <3>1, <3>2, <1>4 DEF AtObserver
  <2> QED
    BY <1>10, <2>1, <2>2 DEF InboxOK
<1>17. PhaseOK'
  BY <1>1, <1>2, <1>4 DEF PhaseOK
<1>18. RoundOK'
  <2>1. \A k \in Node : ~(Requested(k)' /\ Answered(k)')
    BY <1>1, <1>7, <1>11, <1>12 DEF RoundOK
  <2>2. Open' \cap sending'.rest = {} /\ alive' \subseteq Open' \cup sending'.rest
    BY <1>1, <1>2, <1>4, <1>13 DEF RoundOK
  <2>3. sending'.contacted = Cardinality(Open')
    <3>1. sending.contacted = Cardinality(Open)
      BY <1>1, <1>2 DEF RoundOK
    <3> QED
      BY <3>1, <1>2, <1>14
  <2> QED
    BY <1>2, <2>1, <2>2, <2>3 DEF RoundOK
<1>19. AgreementOK'
  <2>1. obs.state # "distribute-snapshot-timestamp"
    BY <1>6
  <2>2. ASSUME NEW k \in Node, obs.state \in Forcing \cup {"finished"}
        PROVE  clock'[Observer][k] >= obs.timestamp
    <3>1. clock[Observer][k] >= obs.timestamp
      BY <1>1, <2>2 DEF AgreementOK
    <3>2. k \in Proc /\ clock[Observer][k] \in Nat /\ clock'[Observer][k] \in Nat /\ obs.timestamp \in Nat
      BY <1>1, <1>3, ConstantFacts DEF TypeOK, Clock
    <3> QED
      BY <3>1, <3>2, <1>3
  <2> QED
    BY <2>1, <2>2, <1>1, <1>4 DEF AgreementOK
<1>20. ReportOK'
  <2>1. \A k \in Node : clock'[k] = clock[k]
    BY <1>3, ConstantFacts
  <2> QED
    BY <2>1, <1>1, <1>2, <1>4 DEF ReportOK
<1>21. TallyOK'
  <2>1. nodeFinishedStates = <<>>
    BY <1>1, <1>6 DEF TallyOK
  <2> QED
    BY <2>1, <1>4, <1>6 DEF TallyOK
<1> QED
  BY <1>15, <1>16, <1>17, <1>18, <1>19, <1>20, <1>21 DEF Inv

\* The loop of sends is through: who lives was asked, and nobody was counted.
LEMMA WaitForResponsesInv ==
  ASSUME Inv, WaitForResponses
  PROVE  Inv'
<1>1. TypeOK /\ InboxOK /\ PhaseOK /\ RoundOK /\ AgreementOK /\ ReportOK /\ TallyOK
  BY DEF Inv
<1>2. sending # None /\ sending.rest = {} /\ sending' = None /\ sending \in Sends
  BY <1>1 DEF WaitForResponses, TypeOK
<1>3. UNCHANGED <<clock, inbox, alive, vote, snapshotTimestamp, reported, nodeFinishedStates, asked>>
  BY DEF WaitForResponses, nodeVars
<1>4. obs.state \in {"idle", "calculate-snapshot-timestamp", "timestamp-distributed"}
  BY <1>1, <1>2 DEF PhaseOK
<1>5. obs' = [obs EXCEPT !.state = NextState[@], !.responses = 0, !.expected = sending.contacted]
      /\ UNCHANGED illegal
  BY <1>4 DEF WaitForResponses, Collecting
<1>6. /\ obs'.state = NextState[obs.state] /\ obs'.responses = 0 /\ obs'.expected = sending.contacted
      /\ obs'.negative = obs.negative /\ obs'.timestamp = obs.timestamp /\ obs'.killed = obs.killed
  BY <1>1, <1>5 DEF TypeOK
<1>7. /\ obs.state = "idle" => obs'.state = "collect-timestamps"
      /\ obs.state = "calculate-snapshot-timestamp" => obs'.state = "distribute-snapshot-timestamp"
      /\ obs.state = "timestamp-distributed" => obs'.state = "collect-node-state"
  BY <1>1, <1>6, ObsFacts
<1>8. \A k \in Node : Requested(k)' = Requested(k) /\ Answered(k)' = Answered(k)
  BY <1>3 DEF Requested, Answered
<1>9. Open' = Open
  BY <1>8 DEF Open
<1>10. alive \subseteq Open /\ sending.contacted = Cardinality(Open)
  BY <1>1, <1>2 DEF RoundOK
<1>11. TypeOK'
  BY <1>1, WaitForResponsesType
<1>12. InboxOK'
  <2>1. ASSUME NEW k \in Node, NEW m \in Elements(inbox[k]) PROVE AtNode(k, m)'
    <3>1. AtNode(k, m)
      BY <1>1, <2>1 DEF InboxOK
    <3> QED
      BY <3>1, <1>3, <1>4, <1>6, <1>7 DEF AtNode, Calling, Proposing, Forcing
  <2>2. ASSUME NEW m \in Elements(inbox[Observer]) PROVE AtObserver(m)'
    <3>1. AtObserver(m)
      BY <1>1, <2>2 DEF InboxOK
    <3> QED
      BY <3>1, <1>2, <1>3, <1>4, <1>6, <1>7 DEF AtObserver, Calling, Proposing, Forcing
  <2> QED
    BY <1>1, <1>3, <2>1, <2>2 DEF InboxOK
<1>13. PhaseOK'
  <2>1. ~obs.negative /\ ~obs.killed /\ ~illegal
    BY <1>1, <1>4 DEF PhaseOK
  <2>2. asked # 0
    BY <1>1, <1>2 DEF PhaseOK
  <2> QED
    BY <2>1, <2>2, <1>2, <1>3, <1>4, <1>5, <1>6, <1>7 DEF PhaseOK, Collecting
<1>14. RoundOK'
  <2>1. obs'.expected = obs'.responses + Cardinality(Open)
    BY <1>6, <1>10, OpenFacts
  <2> QED
    BY <2>1, <1>1, <1>2, <1>4, <1>7, <1>8, <1>9 DEF RoundOK, Collecting
<1>15. AgreementOK'
  BY <1>1, <1>3, <1>4, <1>6, <1>7, <1>9, <1>10 DEF AgreementOK, Forcing
<1>16. ReportOK'
  BY <1>1, <1>2, <1>3, <1>4, <1>7 DEF ReportOK, Forcing
<1>17. TallyOK'
  <2>1. nodeFinishedStates = <<>>
    BY <1>1, <1>4 DEF TallyOK
  <2> QED
    BY <2>1, <1>3, <1>9, <1>10 DEF TallyOK
<1> QED
  BY <1>11, <1>12, <1>13, <1>14, <1>15, <1>16, <1>17 DEF Inv

\* The one request starts the first round.
LEMMA StartSnapshotInv ==
  ASSUME Inv, StartSnapshot
  PROVE  Inv'
<1> DEFINE h == Head(inbox[Observer])
<1>1. TypeOK /\ InboxOK /\ PhaseOK /\ RoundOK /\ AgreementOK /\ ReportOK /\ TallyOK
  BY DEF Inv
<1>2. /\ ObserverTakes(h) /\ h.type = "take-snapshot"
      /\ clock' \in [Proc -> Clock]
      /\ \A p \in Proc \ {Observer} : clock'[p] = clock[p]
      /\ sending' = Loop("get-local-vector-timestamp")
      /\ UNCHANGED <<obs, nodeFinishedStates, illegal>>
  BY <1>1, StartSnapshotFacts
<1>3. /\ inbox[Observer] \in Seq(Message) /\ inbox[Observer] # <<>>
      /\ inbox'[Observer] = Tail(inbox[Observer])
      /\ \A p \in Proc \ {Observer} : inbox'[p] = inbox[p]
      /\ UNCHANGED <<alive, vote, snapshotTimestamp, reported, asked>>
  BY <1>1, <1>2, ObserverTakesFacts DEF nodeVars
<1>4. /\ h \in Elements(inbox[Observer])
      /\ Elements(inbox[Observer]) = Elements(inbox'[Observer]) \cup {h}
      /\ OneOfEachKind(inbox'[Observer])
      /\ \A x \in Elements(inbox'[Observer]) : ~SameKind(x, h)
  BY <1>1, <1>3, TailQueue, ConstantFacts DEF InboxOK
<1>5. obs.state = "idle" /\ sending = None /\ asked > 0
  BY <1>1, <1>2, <1>4 DEF InboxOK, AtObserver
<1>6. Open = {}
  BY <1>1, <1>5 DEF RoundOK, Collecting
<1>7. /\ sending' # None /\ sending'.type = "get-local-vector-timestamp"
      /\ sending'.rest = Node /\ sending'.contacted = 0
  BY <1>2, LoopFacts
<1>8. Elements(inbox'[Observer]) = {}
  BY <1>2, <1>4, <1>6, Quiet DEF SameKind
<1>9. \A k \in Node : inbox'[k] = inbox[k]
  BY <1>3, ConstantFacts
<1>10. \A k \in Node : ~Requested(k)' /\ ~Answered(k)'
  BY <1>6, <1>8, <1>9 DEF Open, Requested, Answered
<1>11. Open' = {}
  BY <1>10 DEF Open
<1>12. TypeOK'
  BY <1>1, StartSnapshotType
<1>13. InboxOK'
  <2>1. ASSUME NEW k \in Node, NEW m \in Elements(inbox'[k]) PROVE AtNode(k, m)'
    <3>1. m.type = "app"
      BY <2>1, <1>6, <1>9, Quiet
    <3> QED
      BY <3>1 DEF AtNode
  <2>2. \A p \in Proc : OneOfEachKind(inbox'[p])
    BY <1>1, <1>3, <1>4 DEF InboxOK
  <2> QED
    BY <1>8, <2>1, <2>2 DEF InboxOK
<1>14. PhaseOK'
  BY <1>1, <1>2, <1>3, <1>5, <1>7 DEF PhaseOK
<1>15. RoundOK'
  <2>1. alive \subseteq Node /\ Cardinality({}) = 0
    BY <1>1, FS_EmptySet DEF TypeOK
  <2> QED
    BY <2>1, <1>3, <1>7, <1>10, <1>11 DEF RoundOK
<1>16. AgreementOK'
  BY <1>2, <1>5 DEF AgreementOK, Forcing
<1>17. ReportOK'
  <2>1. \A k \in Node : reported'[k] = None
    BY <1>1, <1>3, <1>5 DEF ReportOK, Forcing
  <2> QED
    BY <2>1, <1>7 DEF ReportOK
<1>18. TallyOK'
  BY <1>1, <1>2, <1>5 DEF TallyOK
<1> QED
  BY <1>12, <1>13, <1>14, <1>15, <1>16, <1>17, <1>18 DEF Inv

\* A response closes the part of its node; it is the last one exactly when no
\* part is open any more.
LEMMA CollectRound ==
  ASSUME Inv, ReceiveResponse
  PROVE  LET h == Head(inbox[Observer]) IN
         /\ obs.state \in Collecting /\ sending = None
         /\ h.type = "response" /\ h.from \in Open /\ h \in Message /\ AtObserver(h)
         /\ \A p \in Proc : OneOfEachKind(inbox'[p])
         /\ \A k \in Node : inbox'[k] = inbox[k]
         /\ Elements(inbox'[Observer]) \subseteq Elements(inbox[Observer])
         /\ \A k \in Node : ~(Requested(k)' /\ Answered(k)')
         /\ Open' = Open \ {h.from}
         /\ obs.expected = obs.responses + 1 + Cardinality(Open')
         /\ obs.responses + 1 = obs.expected <=> Open' = {}
<1> DEFINE h == Head(inbox[Observer])
<1>1. TypeOK /\ InboxOK /\ PhaseOK /\ RoundOK
  BY DEF Inv
<1>2. ObserverTakes(h) /\ h.type = "response"
  BY DEF ReceiveResponse
<1>3. /\ inbox[Observer] \in Seq(Message) /\ inbox[Observer] # <<>> /\ h \in Message
      /\ inbox'[Observer] = Tail(inbox[Observer])
      /\ \A p \in Proc \ {Observer} : inbox'[p] = inbox[p]
      /\ sending = None /\ ~obs.killed
  BY <1>1, <1>2, ObserverTakesFacts
<1>4. /\ h \in Elements(inbox[Observer])
      /\ Elements(inbox[Observer]) = Elements(inbox'[Observer]) \cup {h}
      /\ OneOfEachKind(inbox'[Observer])
      /\ \A x \in Elements(inbox'[Observer]) : ~SameKind(x, h)
  BY <1>1, <1>3, TailQueue, ConstantFacts DEF InboxOK
<1>5. AtObserver(h)
  BY <1>1, <1>4 DEF InboxOK
<1> HIDE DEF h
<1>6. PICK v \in Node : v = h.from
  BY <1>2, <1>5 DEF AtObserver
<1>7. Answered(v) /\ v \in Open
  BY <1>2, <1>4, <1>6 DEF Answered, Open
<1>8. obs.state \in Collecting
  BY <1>1, <1>3, <1>7 DEF RoundOK
<1>9. \A k \in Node : inbox'[k] = inbox[k]
  BY <1>3, ConstantFacts
<1>10. ~Requested(v)' /\ ~Answered(v)'
  <2>1. ~Requested(v)
    BY <1>1, <1>6, <1>7 DEF RoundOK
  <2>2. ~Requested(v)'
    BY <2>1, <1>6, <1>9 DEF Requested
  <2>3. ~Answered(v)'
    BY <1>2, <1>4, <1>6 DEF SameKind, Answered
  <2> QED
    BY <2>2, <2>3
<1>11. ASSUME NEW k \in Node, k # v
       PROVE  (Requested(k)' <=> Requested(k)) /\ (Answered(k)' <=> Answered(k))
  <2>1. Requested(k)' <=> Requested(k)
    BY <1>9 DEF Requested
  <2>2. Answered(k)' <=> Answered(k)
    BY <1>4, <1>6, <1>11 DEF Answered
  <2> QED
    BY <2>1, <2>2
<1>12. Open' = Open \ {v}
  BY <1>6, <1>10, <1>11 DEF Open
<1>13. /\ IsFiniteSet(Open') /\ Cardinality(Open') = Cardinality(Open) - 1
       /\ Cardinality(Open') \in Nat /\ Cardinality(Open) \in Nat
       /\ Cardinality(Open') = 0 <=> Open' = {}
  <2>1. IsFiniteSet(Open') /\ Cardinality(Open') = Cardinality(Open) - 1
    BY <1>7, <1>12, OpenFacts, FS_RemoveElement
  <2> QED
    BY <2>1, OpenFacts, FS_CardinalityType, FS_EmptySet
<1>14. obs.expected = obs.responses + Cardinality(Open) /\ obs.responses \in Nat /\ obs.expected \in Nat
  BY <1>1, <1>3, <1>8, ObsFacts DEF RoundOK
<1>15. /\ obs.expected = obs.responses + 1 + Cardinality(Open')
       /\ obs.responses + 1 = obs.expected <=> Open' = {}
  <2>1. obs.expected = obs.responses + 1 + Cardinality(Open')
    BY <1>13, <1>14
  <2>2. obs.responses + 1 = obs.expected <=> Cardinality(Open') = 0
    BY <2>1, <1>13, <1>14
  <2> QED
    BY <2>1, <2>2, <1>13
<1>16. \A k \in Node : ~(Requested(k)' /\ Answered(k)')
  BY <1>1, <1>10, <1>11 DEF RoundOK
<1>17. \A p \in Proc : OneOfEachKind(inbox'[p])
  BY <1>1, <1>3, <1>4 DEF InboxOK
<1> QED
  BY <1>2, <1>6, <1>3, <1>4, <1>5, <1>7, <1>8, <1>9, <1>12, <1>15, <1>16, <1>17 DEF h

\* What a response leaves alone, and how it changes the observer.
LEMMA CollectEffect ==
  ASSUME Inv, ReceiveResponse,
         NEW full \in BOOLEAN, full <=> Open' = {},
         NEW negative \in BOOLEAN,
         negative <=> obs.negative \/ (obs.state = "distribute-snapshot-timestamp"
                                         /\ Head(inbox[Observer]).content.is # "valid")
  PROVE  /\ obs'.responses = obs.responses + 1 /\ obs'.expected = obs.expected
         /\ obs'.negative <=> negative /\ ~full
         /\ ~full => obs'.state = obs.state
         /\ full /\ negative => obs'.state = "calculate-snapshot-timestamp"
         /\ full /\ ~negative => obs'.state = NextState[obs.state]
         /\ obs'.killed <=> obs'.state = "finished"
         /\ obs'.state # "calculate-snapshot-timestamp" => obs'.timestamp = obs.timestamp
         /\ obs'.state = "calculate-snapshot-timestamp" => sending' = Loop("take-snapshot-at")
         /\ obs'.state = "timestamp-distributed" => sending' = Loop("update-vector-clock")
         /\ obs'.state \notin {"calculate-snapshot-timestamp", "timestamp-distributed"} => sending' = None
         /\ nodeFinishedStates' = IF obs.state = "collect-node-state"
                                  THEN Append(nodeFinishedStates, Head(inbox[Observer]).content)
                                  ELSE nodeFinishedStates
         /\ \A p \in Proc : clock'[Observer][p] >= clock[Observer][p]
         /\ \A n \in Node : clock'[n] = clock[n]
         /\ obs'.state = "timestamp-distributed" => \A n \in Node : clock'[Observer][n] >= obs.timestamp
         /\ UNCHANGED <<alive, vote, snapshotTimestamp, reported, asked, illegal>>
<1> DEFINE h == Head(inbox[Observer])
           o == AfterResponse(h.content)
<1>1. TypeOK
  BY DEF Inv
<1>2. obs.state \in Collecting /\ (full <=> obs.responses + 1 = obs.expected)
  BY CollectRound
<1>3. /\ o.responses = obs.responses + 1 /\ o.expected = obs.expected
      /\ o.negative <=> negative /\ ~full
      /\ ~full => o.state = obs.state
      /\ full /\ negative => o.state = "calculate-snapshot-timestamp"
      /\ full /\ ~negative => o.state = NextState[obs.state]
  BY <1>1, <1>2, AfterResponseFacts
<1>4. /\ ObserverTakes(h)
      /\ nodeFinishedStates' = IF obs.state = "collect-node-state"
                               THEN Append(nodeFinishedStates, h.content)
                               ELSE nodeFinishedStates
      /\ obs'.state = o.state /\ obs'.responses = o.responses /\ obs'.expected = o.expected
      /\ obs'.negative = o.negative /\ obs'.killed = (o.state = "finished")
      /\ o.state # "calculate-snapshot-timestamp" => obs'.timestamp = obs.timestamp
      /\ o.state = "calculate-snapshot-timestamp" => sending' = Loop("take-snapshot-at")
      /\ o.state = "timestamp-distributed" => sending' = Loop("update-vector-clock")
      /\ o.state \notin {"calculate-snapshot-timestamp", "timestamp-distributed"} => sending' = None
      /\ \A p \in Proc : clock'[Observer][p] >= clock[Observer][p]
      /\ \A p \in Proc \ {Observer} : clock'[p] = clock[p]
      /\ o.state = "timestamp-distributed" => \A n \in Node : clock'[Observer][n] >= obs.timestamp
      /\ UNCHANGED illegal
  BY <1>1, <1>2, CollectFacts
<1>5. UNCHANGED <<alive, vote, snapshotTimestamp, reported, asked>>
  BY <1>1, <1>4, ObserverTakesFacts DEF nodeVars
<1>6. \A n \in Node : clock'[n] = clock[n]
  BY <1>4, ConstantFacts
<1> HIDE DEF o
<1> QED
  BY <1>3, <1>4, <1>5, <1>6 DEF h

\* A status that is counted is the first of its node.
LEMMA TallyRound ==
  ASSUME Inv, ReceiveResponse, obs.state = "collect-node-state",
         nodeFinishedStates' = Append(nodeFinishedStates, Head(inbox[Observer]).content),
         UNCHANGED <<alive, reported>>
  PROVE  /\ \A i \in 1..Len(nodeFinishedStates') :
              LET s == nodeFinishedStates'[i] IN
              /\ s.is = "status" /\ s.of \notin Open'
              /\ s.value = reported'[s.of] /\ reported'[s.of] # None
              /\ \A j \in 1..Len(nodeFinishedStates') : nodeFinishedStates'[j].of = s.of => j = i
         /\ \A n \in alive' \ Open' : \E i \in 1..Len(nodeFinishedStates') : nodeFinishedStates'[i].of = n
<1> DEFINE r == nodeFinishedStates
           l == Len(nodeFinishedStates)
<1>1. PICK x \in Message : x = Head(inbox[Observer])
  BY CollectRound
<1>2. /\ x.from \in Open /\ Open' = Open \ {x.from} /\ x.type = "response" /\ AtObserver(x)
  BY <1>1, CollectRound
<1>3. x.content.is = "status" /\ x.content.of = x.from /\ x.content.value = reported[x.from] /\ reported[x.from] # None
  BY <1>2 DEF AtObserver, Calling, Proposing, Forcing
<1>4. x.content \in Content /\ r \in Seq(Content)
  BY <1>2, MessageFacts DEF Inv, TypeOK
<1> DEFINE q == Append(r, x.content)
<1>5. /\ l \in Nat /\ Len(q) = l + 1 /\ q[l + 1] = x.content
      /\ \A i \in 1..l : q[i] = r[i]
      /\ 1..(l + 1) = 1..l \cup {l + 1}
  BY <1>4
<1>6. nodeFinishedStates' = q
  BY <1>1
<1> HIDE DEF q, l
<1>7. \A i \in 1..l : /\ r[i].is = "status" /\ r[i].of \notin Open
                      /\ r[i].value = reported[r[i].of] /\ reported[r[i].of] # None
                      /\ \A j \in 1..l : r[j].of = r[i].of => j = i
  BY DEF Inv, TallyOK, l
<1>8. \A i \in 1..(l + 1) : i \in 1..l \/ i = l + 1
  BY <1>5
<1>9. ASSUME NEW i \in 1..(l + 1)
      PROVE  /\ q[i].is = "status" /\ q[i].of \notin Open'
             /\ q[i].value = reported[q[i].of] /\ reported[q[i].of] # None
             /\ \A j \in 1..(l + 1) : q[j].of = q[i].of => j = i
  <2>1. CASE i \in 1..l
    BY <2>1, <1>2, <1>3, <1>5, <1>7, <1>8
  <2>2. CASE i = l + 1
    BY <2>2, <1>2, <1>3, <1>5, <1>7, <1>8
  <2> QED
    BY <2>1, <2>2, <1>8
<1>10. ASSUME NEW n \in alive \ Open' PROVE \E i \in 1..(l + 1) : q[i].of = n
  <2>1. CASE n = x.from
    <3>1. l + 1 \in 1..(l + 1)
      BY <1>5
    <3> QED
      BY <2>1, <3>1, <1>3, <1>5
  <2>2. CASE n \notin Open
    <3>1. PICK i \in 1..l : r[i].of = n
      BY <2>2, <1>10 DEF Inv, TallyOK, l
    <3> QED
      BY <3>1, <1>5
  <2> QED
    BY <2>1, <2>2, <1>2, <1>10
<1> QED
  BY <1>5, <1>6, <1>9, <1>10

\* Answers are still to come: the response is counted and the state stays.
LEMMA ReceiveSomeInv ==
  ASSUME Inv, ReceiveResponse, Open' # {}
  PROVE  Inv'
<1> DEFINE h == Head(inbox[Observer])
           v == h.from
           negative == obs.negative \/ (obs.state = "distribute-snapshot-timestamp" /\ h.content.is # "valid")
<1>1. TypeOK /\ InboxOK /\ PhaseOK /\ RoundOK /\ AgreementOK /\ ReportOK /\ TallyOK
  BY DEF Inv
<1>2. /\ obs.state \in Collecting /\ sending = None
      /\ h.type = "response" /\ v \in Open /\ h \in Message /\ AtObserver(h)
      /\ \A p \in Proc : OneOfEachKind(inbox'[p])
      /\ \A k \in Node : inbox'[k] = inbox[k]
      /\ Elements(inbox'[Observer]) \subseteq Elements(inbox[Observer])
      /\ \A k \in Node : ~(Requested(k)' /\ Answered(k)')
      /\ Open' = Open \ {v}
      /\ obs.expected = obs.responses + 1 + Cardinality(Open')
  BY CollectRound
<1>3. negative \in BOOLEAN
  BY <1>1 DEF TypeOK
<1>4. /\ obs'.responses = obs.responses + 1 /\ obs'.expected = obs.expected
      /\ obs'.negative <=> negative
      /\ obs'.state = obs.state
      /\ obs'.killed <=> obs'.state = "finished"
      /\ obs.state \notin {"calculate-snapshot-timestamp", "timestamp-distributed"} =>
           obs'.timestamp = obs.timestamp /\ sending' = None
      /\ nodeFinishedStates' = IF obs.state = "collect-node-state"
                               THEN Append(nodeFinishedStates, h.content)
                               ELSE nodeFinishedStates
      /\ \A p \in Proc : clock'[Observer][p] >= clock[Observer][p]
      /\ \A n \in Node : clock'[n] = clock[n]
      /\ UNCHANGED <<alive, vote, snapshotTimestamp, reported, asked, illegal>>
  <2> HIDE DEF negative
  <2>1. negative <=> obs.negative \/ (obs.state = "distribute-snapshot-timestamp"
                                        /\ Head(inbox[Observer]).content.is # "valid")
    BY DEF negative
  <2> QED
    BY <1>3, <2>1, CollectEffect
<1>5. obs'.timestamp = obs.timestamp /\ sending' = None /\ ~obs'.killed
  BY <1>2, <1>4 DEF Collecting
<1> HIDE DEF h
<1>6. TypeOK'
  BY <1>1, ReceiveResponseType
<1>7. InboxOK'
  <2>1. ASSUME NEW k \in Node, NEW m \in Elements(inbox'[k]) PROVE AtNode(k, m)'
    <3>1. AtNode(k, m)
      BY <1>1, <1>2, <2>1 DEF InboxOK
    <3> QED
      BY <3>1, <1>4, <1>5 DEF AtNode
  <2>2. ASSUME NEW m \in Elements(inbox'[Observer]) PROVE AtObserver(m)'
    <3>1. AtObserver(m)
      BY <1>1, <1>2, <2>2 DEF InboxOK
    <3> QED
      BY <3>1, <1>2, <1>4, <1>5 DEF AtObserver
  <2> QED
    BY <1>2, <2>1, <2>2 DEF InboxOK
<1>8. PhaseOK'
  BY <1>1, <1>2, <1>4, <1>5 DEF PhaseOK, Collecting
<1>9. RoundOK'
  BY <1>2, <1>4, <1>5 DEF RoundOK
<1>10. AgreementOK'
  <2>1. ASSUME obs.state = "distribute-snapshot-timestamp", ~obs'.negative, NEW k \in alive \ Open'
        PROVE  snapshotTimestamp[k] = obs.timestamp
    <3>1. ~obs.negative /\ h.content.is = "valid"
      BY <2>1, <1>4 DEF h
    <3>2. CASE k \notin Open
      BY <3>1, <3>2, <2>1, <1>1 DEF AgreementOK
    <3>3. CASE k = v
      BY <3>1, <3>3, <2>1, <1>2 DEF AtObserver, Calling, Proposing, Forcing
    <3> QED
      BY <3>2, <3>3, <2>1, <1>2
  <2>2. ASSUME obs.state \in Forcing \cup {"finished"}, NEW k \in Node
        PROVE  clock'[Observer][k] >= obs.timestamp
    <3>1. clock[Observer][k] >= obs.timestamp
      BY <1>1, <2>2 DEF AgreementOK
    <3>2. clock[Observer][k] \in Nat /\ clock'[Observer][k] \in Nat /\ obs.timestamp \in Nat
      BY <1>1, <1>6, ConstantFacts DEF TypeOK, Clock
    <3>3. clock'[Observer][k] >= clock[Observer][k]
      BY <1>4, ConstantFacts
    <3> QED
      BY <3>1, <3>2, <3>3
  <2> QED
    BY <2>1, <2>2, <1>1, <1>4, <1>5 DEF AgreementOK
<1>11. ReportOK'
  BY <1>1, <1>4, <1>5 DEF ReportOK
<1>12. TallyOK'
  <2>1. CASE obs.state # "collect-node-state"
    <3>1. nodeFinishedStates = <<>> /\ obs.state # "finished"
      BY <2>1, <1>1, <1>2 DEF TallyOK, Collecting
    <3> QED
      BY <2>1, <3>1, <1>4 DEF TallyOK
  <2>2. CASE obs.state = "collect-node-state"
    BY <2>2, <1>4, TallyRound DEF TallyOK, h
  <2> QED
    BY <2>1, <2>2
<1> QED
  BY <1>6, <1>7, <1>8, <1>9, <1>10, <1>11, <1>12 DEF Inv

\* Where the last response of a round leads.
LEMMA LastState ==
  ASSUME Inv, ReceiveResponse, Open' = {},
         NEW negative \in BOOLEAN,
         negative <=> obs.negative \/ (obs.state = "distribute-snapshot-timestamp"
                                         /\ Head(inbox[Observer]).content.is # "valid")
  PROVE  \/ /\ obs.state \in {"collect-timestamps", "distribute-snapshot-timestamp"}
            /\ obs'.state = "calculate-snapshot-timestamp"
            /\ sending' # None /\ sending'.type = "take-snapshot-at"
         \/ /\ obs.state = "distribute-snapshot-timestamp" /\ ~negative
            /\ obs'.state = "timestamp-distributed"
            /\ sending' # None /\ sending'.type = "update-vector-clock"
         \/ /\ obs.state = "collect-node-state"
            /\ obs'.state = "finished" /\ sending' = None
<1>1. obs.state \in Collecting
  BY CollectRound
<1>2. /\ negative => obs'.state = "calculate-snapshot-timestamp"
      /\ ~negative => obs'.state = NextState[obs.state]
      /\ obs'.state = "calculate-snapshot-timestamp" => sending' = Loop("take-snapshot-at")
      /\ obs'.state = "timestamp-distributed" => sending' = Loop("update-vector-clock")
      /\ obs'.state \notin {"calculate-snapshot-timestamp", "timestamp-distributed"} => sending' = None
  BY CollectEffect
<1>3. /\ Loop("take-snapshot-at") # None /\ Loop("take-snapshot-at").type = "take-snapshot-at"
      /\ Loop("update-vector-clock") # None /\ Loop("update-vector-clock").type = "update-vector-clock"
  BY LoopFacts
<1>4. /\ NextState["collect-timestamps"] = "calculate-snapshot-timestamp"
      /\ NextState["distribute-snapshot-timestamp"] = "timestamp-distributed"
      /\ NextState["collect-node-state"] = "finished"
  BY ObsFacts DEF Inv
<1>5. CASE obs.state = "collect-timestamps"
  <2>1. obs'.state = "calculate-snapshot-timestamp"
    BY <1>2, <1>4, <1>5
  <2> QED
    BY <2>1, <1>2, <1>3, <1>5
<1>6. CASE obs.state = "distribute-snapshot-timestamp"
  BY <1>2, <1>3, <1>4, <1>6
<1>7. CASE obs.state = "collect-node-state"
  <2>1. ~negative
    BY <1>7 DEF Inv, PhaseOK
  <2> QED
    BY <2>1, <1>2, <1>4, <1>7
<1> QED
  BY <1>1, <1>5, <1>6, <1>7 DEF Collecting

\* Nobody's part is open any more: the next round starts, or the tally is
\* there.
LEMMA ReceiveLastInv ==
  ASSUME Inv, ReceiveResponse, Open' = {}
  PROVE  Inv'
<1>1. TypeOK /\ InboxOK /\ PhaseOK /\ RoundOK /\ AgreementOK /\ ReportOK /\ TallyOK
  BY DEF Inv
<1>2. PICK h \in Message : h = Head(inbox[Observer])
  BY CollectRound
<1>3. PICK negative \in BOOLEAN :
        negative <=> obs.negative \/ (obs.state = "distribute-snapshot-timestamp" /\ h.content.is # "valid")
  BY <1>1 DEF TypeOK
<1>4. /\ obs.state \in Collecting /\ sending = None
      /\ h.type = "response" /\ h.from \in Open /\ AtObserver(h)
      /\ \A p \in Proc : OneOfEachKind(inbox'[p])
      /\ \A k \in Node : inbox'[k] = inbox[k]
      /\ Elements(inbox'[Observer]) \subseteq Elements(inbox[Observer])
      /\ Open' = Open \ {h.from}
  BY <1>2, CollectRound
<1>5. /\ ~obs'.negative
      /\ obs'.killed <=> obs'.state = "finished"
      /\ obs'.state # "calculate-snapshot-timestamp" => obs'.timestamp = obs.timestamp
      /\ nodeFinishedStates' = IF obs.state = "collect-node-state"
                               THEN Append(nodeFinishedStates, h.content)
                               ELSE nodeFinishedStates
      /\ \A p \in Proc : clock'[Observer][p] >= clock[Observer][p]
      /\ \A n \in Node : clock'[n] = clock[n]
      /\ obs'.state = "timestamp-distributed" => \A n \in Node : clock'[Observer][n] >= obs.timestamp
      /\ UNCHANGED <<alive, vote, snapshotTimestamp, reported, asked, illegal>>
  BY <1>2, <1>3, CollectEffect
<1>6. \/ /\ obs.state \in {"collect-timestamps", "distribute-snapshot-timestamp"}
         /\ obs'.state = "calculate-snapshot-timestamp"
         /\ sending' # None /\ sending'.type = "take-snapshot-at"
      \/ /\ obs.state = "distribute-snapshot-timestamp" /\ ~negative
         /\ obs'.state = "timestamp-distributed"
         /\ sending' # None /\ sending'.type = "update-vector-clock"
      \/ /\ obs.state = "collect-node-state"
         /\ obs'.state = "finished" /\ sending' = None
  BY <1>2, <1>3, LastState
<1>7. sending' # None => sending'.rest = Node /\ sending'.contacted = 0
  <2>1. sending' \in {Loop("take-snapshot-at"), Loop("update-vector-clock"), None}
    BY <1>2, <1>3, CollectEffect
  <2> QED
    BY <2>1, LoopFacts
<1>8. \A k \in Node : ~Requested(k)' /\ ~Answered(k)'
  BY DEF Open
<1>9. TypeOK'
  BY <1>1, ReceiveResponseType
<1>10. InboxOK'
  <2>1. ASSUME NEW k \in Node, NEW m \in Elements(inbox'[k]) PROVE AtNode(k, m)'
    <3>1. AtNode(k, m)
      BY <1>1, <1>4, <2>1 DEF InboxOK
    <3>2. m.type \notin Question
      BY <1>8, <2>1 DEF Requested
    <3> QED
      BY <3>1, <3>2 DEF AtNode, Question
  <2>2. ASSUME NEW m \in Elements(inbox'[Observer]) PROVE FALSE
    <3>1. AtObserver(m)
      BY <1>1, <1>4, <2>2 DEF InboxOK
    <3>2. ~(m.type = "response" /\ m.from \in Node)
      BY <1>8, <2>2 DEF Answered
    <3> QED
      BY <3>1, <3>2, <1>4 DEF AtObserver, Collecting
  <2> QED
    BY <1>4, <2>1, <2>2 DEF InboxOK
<1>11. PhaseOK'
  <2>1. asked # 0 /\ ~illegal
    BY <1>1, <1>4 DEF PhaseOK, Collecting
  <2> QED
    BY <2>1, <1>5, <1>6 DEF PhaseOK
<1>12. RoundOK'
  <2>1. alive \subseteq Node /\ Cardinality({}) = 0
    BY <1>1, FS_EmptySet DEF TypeOK
  <2>2. \A k \in Node : ~(Requested(k)' /\ Answered(k)')
    BY <1>8
  <2>3. sending' = None => obs'.state \notin Collecting
    BY <1>6 DEF Collecting
  <2> QED
    BY <2>1, <2>2, <2>3, <1>5, <1>7 DEF RoundOK
<1>13. AgreementOK'
  <2>1. ASSUME obs'.state = "timestamp-distributed", NEW k \in alive
        PROVE  snapshotTimestamp[k] = obs.timestamp
    <3>1. obs.state = "distribute-snapshot-timestamp" /\ ~obs.negative /\ h.content.is = "valid"
      BY <2>1, <1>3, <1>6
    <3>2. CASE k \notin Open
      BY <3>1, <3>2, <1>1 DEF AgreementOK
    <3>3. CASE k = h.from
      BY <3>1, <3>3, <1>4 DEF AtObserver, Calling, Proposing, Forcing
    <3> QED
      BY <3>2, <3>3, <1>4
  <2>2. ASSUME obs'.state = "finished", NEW k \in Node
        PROVE  clock'[Observer][k] >= obs.timestamp
    <3>1. clock[Observer][k] >= obs.timestamp
      BY <1>1, <1>6, <2>2 DEF AgreementOK, Forcing
    <3>2. clock[Observer][k] \in Nat /\ clock'[Observer][k] \in Nat /\ obs.timestamp \in Nat
      BY <1>1, <1>9, ConstantFacts DEF TypeOK, Clock
    <3>3. clock'[Observer][k] >= clock[Observer][k]
      BY <1>5, ConstantFacts
    <3> QED
      BY <3>1, <3>2, <3>3
  <2>3. obs'.state = "finished" => \A k \in alive : snapshotTimestamp[k] = obs.timestamp
    BY <1>1, <1>6 DEF AgreementOK, Forcing
  <2>4. obs'.state \in {"calculate-snapshot-timestamp", "timestamp-distributed", "finished"}
    BY <1>6
  <2>5. CASE obs'.state = "calculate-snapshot-timestamp"
    BY <2>5 DEF AgreementOK, Forcing
  <2>6. CASE obs'.state = "timestamp-distributed"
    BY <2>6, <2>1, <1>5 DEF AgreementOK
  <2>7. CASE obs'.state = "finished"
    BY <2>7, <2>2, <2>3, <1>5 DEF AgreementOK
  <2> QED
    BY <2>4, <2>5, <2>6, <2>7
<1>14. ReportOK'
  <2>1. sending' # None => \A k \in Node : reported[k] = None
    BY <1>1, <1>6 DEF ReportOK, Forcing
  <2>2. obs'.state \notin Forcing \cup {"finished"} => sending' # None
    BY <1>6 DEF Forcing
  <2> QED
    BY <2>1, <2>2, <1>1, <1>5, <1>7 DEF ReportOK
<1>15. TallyOK'
  <2>1. CASE obs.state # "collect-node-state"
    <3>1. nodeFinishedStates' = <<>> /\ obs'.state \notin {"collect-node-state", "finished"}
      BY <2>1, <1>1, <1>4, <1>5, <1>6 DEF TallyOK, Collecting
    <3> QED
      BY <3>1 DEF TallyOK
  <2>2. CASE obs.state = "collect-node-state"
    <3>1. obs'.state = "finished"
      BY <2>2, <1>6
    <3> QED
      BY <2>2, <3>1, <1>2, <1>5, TallyRound DEF TallyOK
  <2> QED
    BY <2>1, <2>2
<1> QED
  BY <1>9, <1>10, <1>11, <1>12, <1>13, <1>14, <1>15 DEF Inv

-----------------------------------------------------------------------------
(* The theorems.                                                           *)

LEMMA InvInit ==
  ASSUME Init
  PROVE  Inv
<1>1. TypeOK
  BY InitType
<1>2. /\ obs.state = "idle" /\ obs.negative = FALSE /\ obs.killed = FALSE /\ sending = None /\ illegal = FALSE
      /\ nodeFinishedStates = <<>>
  BY DEF Init
<1>3. \A n \in Node : reported[n] = None
  BY DEF Init
<1>4. /\ inbox[Observer] = <<>>
      /\ \A n \in Node : inbox[n] = [i \in 1..Backlog |-> [type |-> "app", from |-> n, time |-> NewClock(Proc)]]
  BY ConstantFacts DEF Init
<1>5. Elements(inbox[Observer]) = {}
  BY <1>4 DEF Elements
<1>6. \A n \in Node : \A i \in 1..Len(inbox[n]) : inbox[n][i].type = "app"
  BY <1>4, NumberAssumption
<1>7. \A n \in Node : \A m \in Elements(inbox[n]) : m.type = "app"
  BY <1>6 DEF Elements
<1>8. \A n \in Node : ~Requested(n) /\ ~Answered(n)
  BY <1>5, <1>7 DEF Requested, Answered, Question
<1>9. Open = {}
  BY <1>8 DEF Open
<1>10. InboxOK
  <2>1. \A n \in Node : OneOfEachKind(inbox[n])
    BY <1>6 DEF OneOfEachKind, SameKind, Question
  <2>2. OneOfEachKind(inbox[Observer])
    BY <1>4 DEF OneOfEachKind
  <2> QED
    BY <2>1, <2>2, <1>5, <1>7, ConstantFacts DEF InboxOK, AtNode
<1>11. PhaseOK
  BY <1>2 DEF PhaseOK
<1>12. RoundOK
  BY <1>2, <1>8, <1>9 DEF RoundOK, Collecting
<1>13. AgreementOK /\ ReportOK /\ TallyOK
  BY <1>2, <1>3 DEF AgreementOK, ReportOK, TallyOK, Forcing
<1> QED
  BY <1>1, <1>10, <1>11, <1>12, <1>13 DEF Inv

LEMMA InvNext ==
  ASSUME MaxTakeSnapshot <= 1, Inv, [Next]_vars
  PROVE  Inv'
<1>1. CASE UNCHANGED vars
  <2>1. UNCHANGED <<clock, inbox, alive, vote, snapshotTimestamp, reported, obs, sending,
                    nodeFinishedStates, illegal, asked>>
    BY <1>1 DEF vars, nodeVars, obsVars
  <2>2. TypeOK /\ TypeOK'
    BY NextType DEF Inv
  <2>3. \A k \in Node : clock[k][k] \in Nat
    BY <2>2, ConstantFacts DEF TypeOK, Clock
  <2>4. \A k \in Node : Requested(k)' = Requested(k) /\ Answered(k)' = Answered(k)
    BY <2>1 DEF Requested, Answered
  <2>5. Open' = Open
    BY <2>4 DEF Open
  <2>6. \A p \in Proc : OneOfEachKind(inbox[p])
    BY DEF Inv, InboxOK
  <2> QED
    BY <2>1, <2>2, <2>3, <2>4, <2>5, <2>6, FrameInv
<1>2. CASE Next
  <2>1. CASE ReceiveResponse
    BY <2>1, ReceiveSomeInv, ReceiveLastInv
  <2>2. CASE RequestSnapshot \/ StartSnapshot \/ WaitForResponses
    BY <2>2, RequestSnapshotInv, StartSnapshotInv, WaitForResponsesInv
  <2>3. CASE \E n \in Node : SendToNode(n) \/ Crash(n)
    BY <2>3, SendToNodeInv, CrashInv
  <2>4. CASE \E n \in Node : SendLocalTimestamp(n) \/ TakeSnapshotAt(n) \/ UpdateVectorClock(n) \/ HandleApp(n)
    BY <2>4, SendLocalTimestampInv, TakeSnapshotAtInv, UpdateVectorClockInv, HandleAppInv
  <2>5. CASE \E n \in Node : \E m \in Node : Tell(n, m)
    BY <2>5, TellInv
  <2> QED
    BY <1>2, <2>1, <2>2, <2>3, <2>4, <2>5, Steps
<1> QED
  BY <1>1, <1>2

\* The inductive invariant, for an observer that is asked for one snapshot at
\* most (run-election.js asks once; of a second request that comes in the
\* middle of the first snapshot the code makes an "Illegal-state" error).
THEOREM Invariance ==
  ASSUME MaxTakeSnapshot <= 1
  PROVE  Spec => []Inv
<1>1. Init => Inv
  BY InvInit
<1>2. Inv /\ [Next]_vars => Inv'
  BY InvNext
<1> QED
  BY <1>1, <1>2, PTL DEF Spec

\* No "Illegal-state" error is thrown by the snapshot's state machine, in
\* whatever order the answers come in and however many refusals there are
\* (snapshotState.js).
THEOREM NoIllegalStateHolds ==
  ASSUME MaxTakeSnapshot <= 1
  PROVE  Spec => []NoIllegalState
<1>1. Inv => NoIllegalState
  BY DEF Inv, PhaseOK, NoIllegalState
<1> QED
  BY <1>1, Invariance, PTL

\* The clocks are forced to a snapshot time that every living node has
\* accepted (snapshotAlgorithm.js, _handleSnapshotResponse).
THEOREM AgreedBeforeForcedHolds ==
  ASSUME MaxTakeSnapshot <= 1
  PROVE  Spec => []AgreedBeforeForced
<1>1. Inv => AgreedBeforeForced
  BY DEF Inv, AgreementOK, AgreedBeforeForced, Forcing
<1> QED
  BY <1>1, Invariance, PTL

\* The tally of the observer has the status of each living node, once, and
\* nothing else (observerNode.js, onFinishedSnapshot).
THEOREM TallyIsCompleteHolds ==
  ASSUME MaxTakeSnapshot <= 1
  PROVE  Spec => []TallyIsComplete
<1>1. Inv => TallyIsComplete
  <2>1. SUFFICES ASSUME Inv, obs.state = "finished" PROVE TallyIsComplete
    BY DEF TallyIsComplete
  <2> DEFINE r == nodeFinishedStates
  <2>2. Open = {}
    BY <2>1 DEF Inv, RoundOK, PhaseOK, Collecting
  <2>3. \A i \in 1..Len(r) :
          /\ r[i].is = "status" /\ r[i].value = reported[r[i].of]
          /\ \A j \in 1..Len(r) : r[j].of = r[i].of => j = i
    BY <2>1 DEF Inv, TallyOK
  <2>4. \A n \in alive : \E i \in 1..Len(r) : r[i].of = n
    BY <2>1, <2>2 DEF Inv, TallyOK
  <2> QED
    BY <2>3, <2>4 DEF TallyIsComplete
<1> QED
  BY <1>1, Invariance, PTL

\* A vote that was reported does not change any more, whatever campaigns and
\* rumors still arrive: the clock that asks for the report has carried the
\* node to its snapshot time (snapshotReceiver.js, serverLogic.js).
THEOREM ReportIsFrozenHolds ==
  ASSUME MaxTakeSnapshot <= 1
  PROVE  Spec => []ReportIsFrozen
<1>1. Inv => ReportIsFrozen
  BY DEF Inv, ReportOK, ReportIsFrozen
<1> QED
  BY <1>1, Invariance, PTL
=============================================================================
