-------------------------- MODULE ServerLogicProofs --------------------------
(***************************************************************************)
(* Proofs about the message handler (ServerLogic), for any network, any    *)
(* number of messages and any number of crashes.                           *)
(***************************************************************************)
EXTENDS ServerLogicInvariant, FiniteSetTheorems, TLAPS

-----------------------------------------------------------------------------
(* Sequences.                                                              *)

\* Append adds one element behind the others.
LEMMA AppendFacts ==
  ASSUME NEW S, NEW q \in Seq(S), NEW e \in S
  PROVE  /\ Append(q, e) \in Seq(S)
         /\ Len(q) \in Nat /\ Len(Append(q, e)) = Len(q) + 1
         /\ \A i \in 1..Len(q) : Append(q, e)[i] = q[i]
         /\ Append(q, e)[Len(q) + 1] = e
  OBVIOUS

\* Head and Tail take a queue apart.
LEMMA HeadTailFacts ==
  ASSUME NEW S, NEW q \in Seq(S), q # <<>>
  PROVE  /\ Head(q) \in S /\ Tail(q) \in Seq(S)
         /\ Len(q) \in Nat /\ Len(q) >= 1 /\ Len(Tail(q)) = Len(q) - 1
         /\ Head(q) = q[1]
         /\ \A i \in 1..Len(Tail(q)) : Tail(q)[i] = q[i + 1]
  OBVIOUS

\* Concatenation puts one sequence behind the other.
LEMMA ConcatFacts ==
  ASSUME NEW S, NEW q \in Seq(S), NEW r \in Seq(S)
  PROVE  /\ q \o r \in Seq(S)
         /\ Len(q) \in Nat /\ Len(r) \in Nat /\ Len(q \o r) = Len(q) + Len(r)
         /\ \A i \in 1..Len(q) : (q \o r)[i] = q[i]
         /\ \A i \in 1..Len(q \o r) :
              i > Len(q) => i - Len(q) \in 1..Len(r) /\ (q \o r)[i] = r[i - Len(q)]
  OBVIOUS

\* A sequence of indices stays one when there are more of them.
LEMMA WiderIndex ==
  ASSUME NEW k \in Nat, NEW l \in Nat, k <= l
  PROVE  0..k \subseteq 0..l /\ Seq(1..k) \subseteq Seq(1..l)
<1>1. 1..k \subseteq 1..l
  OBVIOUS
<1>2. ASSUME NEW s \in Seq(1..k) PROVE s \in Seq(1..l)
  <2>1. Len(s) \in Nat /\ s \in [1..Len(s) -> 1..k]
    OBVIOUS
  <2>2. s \in [1..Len(s) -> 1..l]
    BY <2>1, <1>1
  <2> QED
    BY <2>1, <2>2
<1> QED
  BY <1>2

\* A function on 1..k is a sequence of length k.
LEMMA FunctionIsSequence ==
  ASSUME NEW S, NEW k \in Nat, NEW f \in [1..k -> S]
  PROVE  f \in Seq(S) /\ Len(f) = k
  OBVIOUS

-----------------------------------------------------------------------------
(* Connections.                                                            *)

\* Connections that n is about to open, one to each process in S.
Fan(s, n, S, type) ==
  /\ \A i \in 1..Len(s) : /\ s[i].type = type /\ s[i].from = n /\ s[i].to \in S
                          /\ s[i].phase = "connecting"
  /\ \A i, j \in 1..Len(s) : s[i].to = s[j].to => i = j
  /\ \A m \in S : \E i \in 1..Len(s) : s[i].to = m

\* A finite set can be listed, so CHOOSE finds an order for OpenedAll.
LEMMA OpenedAllFacts ==
  ASSUME NEW n \in Node, NEW S \in SUBSET Node, NEW type \in Types
  PROVE  OpenedAll(n, S, type) \in Seq(Connection) /\ Fan(OpenedAll(n, S, type), n, S, type)
<1>1. IsFiniteSet(S) /\ Cardinality(S) \in Nat
  BY NodeAssumption, FS_Subset, FS_CardinalityType
<1> DEFINE k == Cardinality(S)
           Lists(f) == \A m \in S : \E i \in DOMAIN f : f[i] = m
           order == CHOOSE f \in [1..k -> S] : Lists(f)
           all == OpenedAll(n, S, type)
<1>2. \E f \in [1..k -> S] : Lists(f)
  <2>1. PICK f : f \in Bijection(1..k, S)
    BY <1>1, FS_CardinalityType DEF ExistsBijection
  <2> QED
    BY <2>1 DEF Bijection, Surjection
<1>3. order \in [1..k -> S] /\ Lists(order)
  BY <1>2
<1>4. all = [i \in 1..k |-> Opened(n, order[i], type)]
  BY DEF OpenedAll
<1>5. \A i, j \in 1..k : order[i] = order[j] => i = j
  <2>1. order \in Surjection(1..k, S)
    BY <1>3 DEF Surjection
  <2>2. IsFiniteSet(1..k) /\ Cardinality(1..k) = k
    BY <1>1, FS_Interval
  <2>3. order \in Injection(1..k, S)
    BY <2>1, <2>2, <1>1, FS_SurjSameCardinalityImpliesInj
  <2> QED
    BY <2>3 DEF Injection, IsInjective
<1> HIDE DEF order, all
<1>6. \A i \in 1..k : Opened(n, order[i], type) \in Connection /\ all[i] = Opened(n, order[i], type)
  BY <1>3, <1>4 DEF Opened, Connection, Phases
<1>7. all \in [1..k -> Connection]
  BY <1>4, <1>6
<1>8. all \in Seq(Connection) /\ Len(all) = k
  BY <1>1, <1>7, FunctionIsSequence
<1>9. \A i \in 1..k : /\ all[i].type = type /\ all[i].from = n /\ all[i].to = order[i]
                       /\ all[i].phase = "connecting"
  <2>1. \A m : /\ Opened(n, m, type).type = type /\ Opened(n, m, type).from = n
               /\ Opened(n, m, type).to = m /\ Opened(n, m, type).phase = "connecting"
    BY DEF Opened
  <2> QED
    BY <2>1, <1>6
<1>10. \A m \in S : \E i \in 1..k : all[i].to = m
  BY <1>3, <1>9
<1>11. \A i \in 1..k : all[i].to \in S
  BY <1>3, <1>9
<1>12. \A i, j \in 1..k : all[i].to = all[j].to => i = j
  BY <1>5, <1>9
<1>13. Fan(all, n, S, type)
  BY <1>8, <1>9, <1>10, <1>11, <1>12 DEF Fan
<1> QED
  BY <1>8, <1>13 DEF all

\* What a step does to the connections when it sets the phase of one of them.
LEMMA PhaseSetFacts ==
  ASSUME NEW q \in Seq(Connection), NEW c \in 1..Len(q), NEW x \in Phases
  PROVE  /\ [q EXCEPT ![c].phase = x] \in Seq(Connection)
         /\ Len([q EXCEPT ![c].phase = x]) = Len(q)
         /\ \A d \in 1..Len(q) :
              [q EXCEPT ![c].phase = x][d] = IF d = c THEN [q[c] EXCEPT !.phase = x] ELSE q[d]
<1> DEFINE r == [q[c] EXCEPT !.phase = x]
           s == [q EXCEPT ![c].phase = x]
<1>1. q[c] \in Connection /\ Len(q) \in Nat /\ q \in [1..Len(q) -> Connection]
  OBVIOUS
<1>2. r \in Connection
  BY <1>1 DEF Connection
<1>3. s = [q EXCEPT ![c] = r]
  OBVIOUS
<1> HIDE DEF r, s
<1>4. s \in [1..Len(q) -> Connection] /\ \A d \in 1..Len(q) : s[d] = IF d = c THEN r ELSE q[d]
  BY <1>1, <1>2, <1>3
<1>5. s \in Seq(Connection) /\ Len(s) = Len(q)
  BY <1>1, <1>4, FunctionIsSequence
<1> QED
  BY <1>4, <1>5 DEF r, s

\* No connection is forgotten, and what is fixed when it is opened stays.
Kept ==
  /\ conn' \in Seq(Connection)
  /\ Len(conn') >= Len(conn)
  /\ \A c \in Index : /\ conn'[c].type = conn[c].type
                      /\ conn'[c].from = conn[c].from
                      /\ conn'[c].to = conn[c].to
                      /\ conn[c].phase = "acked" => conn'[c].phase = "acked"
                      /\ conn[c].phase = "failed" => conn'[c].phase = "failed"

\* Connect, Receive and Reset settle nothing again that is settled.
LEMMA KeptByPhase ==
  ASSUME conn \in Seq(Connection), NEW c \in Index, NEW x \in Phases,
         conn[c].phase \notin {"acked", "failed"},
         conn' = [conn EXCEPT ![c].phase = x]
  PROVE  /\ Kept /\ Len(conn') = Len(conn)
         /\ \A d \in Index : conn'[d].phase = IF d = c THEN x ELSE conn[d].phase
<1>1. c \in 1..Len(conn)
  BY DEF Index
<1>2. /\ conn' \in Seq(Connection) /\ Len(conn') = Len(conn)
      /\ \A d \in 1..Len(conn) :
           conn'[d] = IF d = c THEN [conn[c] EXCEPT !.phase = x] ELSE conn[d]
  BY <1>1, PhaseSetFacts
<1>3. conn[c] \in Connection /\ Len(conn) \in Nat
  BY <1>1
<1>4. /\ [conn[c] EXCEPT !.phase = x].type = conn[c].type
      /\ [conn[c] EXCEPT !.phase = x].from = conn[c].from
      /\ [conn[c] EXCEPT !.phase = x].to = conn[c].to
      /\ [conn[c] EXCEPT !.phase = x].phase = x
  BY <1>3 DEF Connection
<1> QED
  BY <1>2, <1>3, <1>4 DEF Kept, Index

\* A connection that was not under way is opened: Request and SendNext.
LEMMA KeptByAppend ==
  ASSUME conn \in Seq(Connection), NEW n \in Node \cup {User}, NEW m \in Node, NEW type \in Types,
         conn' = Append(conn, Opened(n, m, type))
  PROVE  /\ Kept /\ Len(conn') = Len(conn) + 1 /\ Len(conn) \in Nat
         /\ \A d \in Index : conn'[d] = conn[d]
         /\ conn'[Len(conn) + 1] = Opened(n, m, type)
<1>1. Opened(n, m, type) \in Connection
  BY DEF Opened, Connection, Phases
<1>2. /\ conn' \in Seq(Connection) /\ Len(conn) \in Nat /\ Len(conn') = Len(conn) + 1
      /\ \A d \in 1..Len(conn) : conn'[d] = conn[d]
      /\ conn'[Len(conn) + 1] = Opened(n, m, type)
  BY <1>1, AppendFacts
<1> QED
  BY <1>2 DEF Kept, Index

\* n opens connections to S, one to each.
FansOut(n, S, type) ==
  /\ \A d \in Index : conn'[d] = conn[d]
  /\ \A d \in Index' : d \notin Index =>
       /\ conn'[d].type = type /\ conn'[d].from = n /\ conn'[d].to \in S
       /\ conn'[d].phase = "connecting"
       /\ \A e \in Index' : e \notin Index /\ conn'[e].to = conn'[d].to => e = d
  /\ \A m \in S : \E d \in Index' : d \notin Index /\ conn'[d].to = m

\* StopAll opens one to each neighbour.
LEMMA KeptByFlood ==
  ASSUME conn \in Seq(Connection), NEW n \in Node, NEW S \in SUBSET Node, NEW type \in Types,
         conn' = conn \o OpenedAll(n, S, type)
  PROVE  Kept /\ FansOut(n, S, type)
<1>1. PICK s \in Seq(Connection) :
        s = OpenedAll(n, S, type) /\ Fan(s, n, S, type)
  BY OpenedAllFacts
<1>2. conn' = conn \o s
  BY <1>1
<1>3. /\ conn' \in Seq(Connection)
      /\ Len(conn) \in Nat /\ Len(s) \in Nat /\ Len(conn') = Len(conn) + Len(s)
      /\ \A d \in 1..Len(conn) : conn'[d] = conn[d]
      /\ \A d \in 1..Len(conn') :
           d > Len(conn) => d - Len(conn) \in 1..Len(s) /\ conn'[d] = s[d - Len(conn)]
  BY <1>2, ConcatFacts
<1>4. \A d \in Index' : d \notin Index => d > Len(conn) /\ d \in 1..Len(conn')
  BY <1>3 DEF Index
<1>5. ASSUME NEW d \in Index', d \notin Index
      PROVE  /\ conn'[d].type = type /\ conn'[d].from = n /\ conn'[d].to \in S
             /\ conn'[d].phase = "connecting"
             /\ \A e \in Index' : e \notin Index /\ conn'[e].to = conn'[d].to => e = d
  <2>1. d - Len(conn) \in 1..Len(s) /\ conn'[d] = s[d - Len(conn)] /\ d \in Int
    BY <1>3, <1>4, <1>5
  <2>2. /\ conn'[d].type = type /\ conn'[d].from = n /\ conn'[d].to \in S
        /\ conn'[d].phase = "connecting"
    BY <2>1, <1>1 DEF Fan
  <2>3. ASSUME NEW e \in Index', e \notin Index, conn'[e].to = conn'[d].to PROVE e = d
    <3>1. e - Len(conn) \in 1..Len(s) /\ conn'[e] = s[e - Len(conn)] /\ e \in Int
      BY <1>3, <1>4, <2>3
    <3>2. e - Len(conn) = d - Len(conn)
      BY <2>1, <2>3, <3>1, <1>1 DEF Fan
    <3> QED
      BY <2>1, <3>1, <3>2, <1>3
  <2> QED
    BY <2>2, <2>3
<1>6. ASSUME NEW m \in S PROVE \E d \in Index' : d \notin Index /\ conn'[d].to = m
  <2>1. PICK i \in 1..Len(s) : s[i].to = m
    BY <1>1 DEF Fan
  <2>2. PICK d \in Int : d = Len(conn) + i
    BY <1>3
  <2>3. d \in 1..Len(conn') /\ d > Len(conn) /\ d - Len(conn) = i
    BY <2>2, <1>3
  <2>4. d \in Index' /\ d \notin Index
    BY <2>3, <1>3 DEF Index
  <2> QED
    BY <2>1, <2>3, <2>4, <1>3
<1>7. \A d \in Index : conn'[d] = conn[d]
  BY <1>3 DEF Index
<1>8. FansOut(n, S, type)
  BY <1>5, <1>6, <1>7 DEF FansOut
<1>9. Kept
  BY <1>3, <1>7 DEF Kept, Index
<1> QED
  BY <1>8, <1>9

\* Crash ends open connections only.
LEMMA KeptByCrash ==
  ASSUME conn \in Seq(Connection), NEW n \in Node, Crash(n)
  PROVE  /\ Kept /\ Len(conn') = Len(conn)
         /\ \A d \in Index : conn'[d].phase = "acked" => conn[d].phase = "acked"
<1>1. PICK end \in {"failed", "hung"} :
        conn' = [c \in Index |->
          IF conn[c].to = n /\ conn[c].phase = "connected" THEN [conn[c] EXCEPT !.phase = end]
          ELSE IF conn[c].from = n /\ conn[c].phase = "connecting" THEN [conn[c] EXCEPT !.phase = "failed"]
          ELSE conn[c]]
  BY DEF Crash
<1>2. Len(conn) \in Nat /\ \A c \in 1..Len(conn) : conn[c] \in Connection
  OBVIOUS
<1>3. \A c \in 1..Len(conn) :
        /\ conn'[c] \in Connection
        /\ conn'[c].type = conn[c].type /\ conn'[c].from = conn[c].from
        /\ conn'[c].to = conn[c].to
        /\ conn[c].phase \in {"acked", "failed"} => conn'[c].phase = conn[c].phase
        /\ conn'[c].phase = "acked" => conn[c].phase = "acked"
  <2>1. TAKE c \in 1..Len(conn)
  <2>2. /\ conn[c] \in Connection
        /\ conn'[c] = IF conn[c].to = n /\ conn[c].phase = "connected" THEN [conn[c] EXCEPT !.phase = end]
          ELSE IF conn[c].from = n /\ conn[c].phase = "connecting" THEN [conn[c] EXCEPT !.phase = "failed"]
          ELSE conn[c]
    BY <1>1, <1>2 DEF Index
  <2> QED
    BY <2>2 DEF Connection, Phases
<1>4. conn' \in [1..Len(conn) -> Connection]
  BY <1>1, <1>3 DEF Index
<1>5. conn' \in Seq(Connection) /\ Len(conn') = Len(conn)
  BY <1>2, <1>4, FunctionIsSequence
<1> QED
  BY <1>2, <1>3, <1>5 DEF Kept, Index

-----------------------------------------------------------------------------
(* Queues.                                                                 *)

\* What holds of a queue goes on to hold while connections come and change.
LEMMA Stable ==
  ASSUME conn \in Seq(Connection), Kept, NEW q \in Seq(Index), NEW r \in Seq(Index)
  PROVE  /\ q \in Seq(Index')
         /\ Acked(q) => Acked(q)'
         /\ Ascending(q) => Ascending(q)'
         /\ Before(q, r) => Before(q, r)'
<1>1. /\ Len(q) \in Nat /\ \A i \in 1..Len(q) : q[i] \in Index
      /\ Len(r) \in Nat /\ \A i \in 1..Len(r) : r[i] \in Index
  OBVIOUS
<1>2. \A c, d \in Index : Earlier(c, d) => Earlier(c, d)'
  BY DEF Earlier, Algorithm, Kept
<1>3. q \in Seq(Index')
  <2>1. Len(conn) \in Nat /\ Len(conn') \in Nat /\ Len(conn) <= Len(conn')
    BY DEF Kept
  <2> QED
    BY <2>1, WiderIndex DEF Index
<1>4. Acked(q) => Acked(q)'
  BY <1>1 DEF Acked, Kept
<1>5. Ascending(q) => Ascending(q)'
  BY <1>1, <1>2 DEF Ascending
<1>6. Before(q, r) => Before(q, r)'
  BY <1>1, <1>2 DEF Before
<1> QED
  BY <1>3, <1>4, <1>5, <1>6

\* A message that was sent after all others of its process joins a queue.
LEMMA Join ==
  ASSUME NEW h \in Seq(Index), NEW q \in Seq(Index), NEW c \in Index,
         Ascending(q), Before(h, q),
         \A i \in 1..Len(q) : Earlier(q[i], c),
         \A i \in 1..Len(h) : Earlier(h[i], c)
  PROVE  Ascending(Append(q, c)) /\ Before(h, Append(q, c))
<1> DEFINE a == Append(q, c)
<1>1. /\ Len(q) \in Nat /\ Len(a) = Len(q) + 1 /\ Len(h) \in Nat
      /\ \A i \in 1..Len(q) : a[i] = q[i]
      /\ a[Len(q) + 1] = c
  BY AppendFacts
<1> HIDE DEF a
<1>2. \A i \in 1..Len(a) : i \in 1..Len(q) \/ i = Len(q) + 1
  BY <1>1
<1>3. Ascending(a)
  <2> SUFFICES ASSUME NEW i \in 1..Len(a), NEW j \in 1..Len(a), i < j
               PROVE  Earlier(a[i], a[j])
    BY DEF Ascending
  <2>1. i \in 1..Len(q)
    BY <1>1
  <2> QED
    BY <2>1, <1>1, <1>2 DEF Ascending
<1>4. Before(h, a)
  <2> SUFFICES ASSUME NEW i \in 1..Len(h), NEW j \in 1..Len(a)
               PROVE  Earlier(h[i], a[j])
    BY DEF Before
  <2> QED
    BY <1>1, <1>2 DEF Before
<1> QED
  BY <1>3, <1>4 DEF a

\* The first of the waiting becomes the last of the handled.
LEMMA TurnComes ==
  ASSUME NEW h \in Seq(Index), NEW q \in Seq(Index), q # <<>>,
         Ascending(h), Ascending(q), Before(h, q)
  PROVE  /\ Ascending(Tail(q)) /\ Before(h, Tail(q))
         /\ Ascending(Append(h, Head(q))) /\ Before(Append(h, Head(q)), Tail(q))
<1> DEFINE t == Tail(q)
           c == Head(q)
           a == Append(h, c)
<1>1. /\ c \in Index /\ t \in Seq(Index)
      /\ Len(q) \in Nat /\ Len(q) >= 1 /\ Len(t) = Len(q) - 1 /\ c = q[1]
      /\ \A i \in 1..Len(t) : t[i] = q[i + 1]
  BY HeadTailFacts
<1>2. /\ Len(h) \in Nat /\ Len(a) = Len(h) + 1
      /\ \A i \in 1..Len(h) : a[i] = h[i]
      /\ a[Len(h) + 1] = c
  BY <1>1, AppendFacts
<1> HIDE DEF t, c, a
<1>3. \A i \in 1..Len(a) : i \in 1..Len(h) \/ i = Len(h) + 1
  BY <1>2
<1>4. \A i \in 1..Len(t) : i + 1 \in 1..Len(q) /\ 1 < i + 1
  BY <1>1
<1>5. 1 \in 1..Len(q)
  BY <1>1
<1>6. Ascending(t)
  <2> SUFFICES ASSUME NEW i \in 1..Len(t), NEW j \in 1..Len(t), i < j
               PROVE  Earlier(t[i], t[j])
    BY DEF Ascending
  <2>1. i + 1 < j + 1
    OBVIOUS
  <2> QED
    BY <2>1, <1>1, <1>4 DEF Ascending
<1>7. Before(h, t)
  BY <1>1, <1>4 DEF Before
<1>8. Ascending(a)
  <2> SUFFICES ASSUME NEW i \in 1..Len(a), NEW j \in 1..Len(a), i < j
               PROVE  Earlier(a[i], a[j])
    BY DEF Ascending
  <2>1. i \in 1..Len(h)
    BY <1>2
  <2>2. CASE j \in 1..Len(h)
    BY <2>1, <2>2, <1>2 DEF Ascending
  <2>3. CASE j = Len(h) + 1
    BY <2>1, <2>3, <1>1, <1>2, <1>5 DEF Before
  <2> QED
    BY <2>2, <2>3, <1>3
<1>9. Before(a, t)
  <2> SUFFICES ASSUME NEW i \in 1..Len(a), NEW j \in 1..Len(t)
               PROVE  Earlier(a[i], t[j])
    BY DEF Before
  <2>1. CASE i \in 1..Len(h)
    BY <2>1, <1>2, <1>7 DEF Before
  <2>2. CASE i = Len(h) + 1
    BY <2>2, <1>1, <1>2, <1>4, <1>5 DEF Ascending
  <2> QED
    BY <2>1, <2>2, <1>3
<1> QED
  BY <1>6, <1>7, <1>8, <1>9 DEF t, c, a

\* Whoever gets his turn had been answered.
LEMMA AckedTurn ==
  ASSUME NEW h \in Seq(Index), NEW q \in Seq(Index), q # <<>>, Acked(h), Acked(q)
  PROVE  Acked(Tail(q)) /\ Acked(Append(h, Head(q)))
<1>1. /\ Head(q) \in Index /\ Tail(q) \in Seq(Index)
      /\ Len(q) \in Nat /\ Len(q) >= 1 /\ Len(Tail(q)) = Len(q) - 1 /\ Head(q) = q[1]
      /\ \A i \in 1..Len(Tail(q)) : Tail(q)[i] = q[i + 1]
  BY HeadTailFacts
<1>2. 1 \in 1..Len(q) /\ \A i \in 1..Len(Tail(q)) : i + 1 \in 1..Len(q)
  BY <1>1
<1>3. conn[Head(q)].phase = "acked" /\ Acked(Tail(q))
  BY <1>1, <1>2 DEF Acked
<1>4. PICK d \in Index : d = Head(q)
  BY <1>1
<1>5. /\ Len(h) \in Nat /\ Len(Append(h, d)) = Len(h) + 1
      /\ \A i \in 1..Len(h) : Append(h, d)[i] = h[i]
      /\ Append(h, d)[Len(h) + 1] = d
  BY AppendFacts
<1>6. \A i \in 1..Len(Append(h, d)) : i \in 1..Len(h) \/ i = Len(h) + 1
  BY <1>5
<1>7. Acked(Append(h, d))
  BY <1>3, <1>4, <1>5, <1>6 DEF Acked
<1> QED
  BY <1>3, <1>4, <1>7

\* Whoever joins is answered with it.
LEMMA AckedJoin ==
  ASSUME Kept, NEW q \in Seq(Index), NEW c \in Index, Acked(q), conn'[c].phase = "acked"
  PROVE  Acked(Append(q, c))'
<1>1. /\ Len(q) \in Nat /\ Len(Append(q, c)) = Len(q) + 1
      /\ \A i \in 1..Len(q) : q[i] \in Index /\ Append(q, c)[i] = q[i]
      /\ Append(q, c)[Len(q) + 1] = c
  BY AppendFacts
<1>2. \A i \in 1..Len(Append(q, c)) : i \in 1..Len(q) \/ i = Len(q) + 1
  BY <1>1
<1>3. \A i \in 1..Len(Append(q, c)) : conn'[Append(q, c)[i]].phase = "acked"
  BY <1>1, <1>2 DEF Acked, Kept
<1> QED
  BY <1>3 DEF Acked

-----------------------------------------------------------------------------
(* Steps.                                                                  *)

\* The queues of process n stay as they are.
Rests(n) == waiting'[n] = waiting[n] /\ handled'[n] = handled[n]

\* A message is answered and joins the queue of n.
Joins(n) ==
  \E c \in Index : /\ conn[c].phase = "connected" /\ conn'[c].phase = "acked"
                  /\ waiting'[n] = Append(waiting[n], c)
                  /\ handled'[n] = handled[n]

\* The first message in the queue of n gets its turn; a stopped process drops it.
Turn(n) ==
  /\ waiting[n] # <<>>
  /\ waiting'[n] = Tail(waiting[n])
  /\ handled'[n] \in {handled[n], Append(handled[n], Head(waiting[n]))}

Queues == [Node -> Seq(Index)]

\* All that can happen to the queues.
Moves ==
  /\ waiting' = [n \in Node |-> waiting'[n]]
  /\ handled' = [n \in Node |-> handled'[n]]
  /\ \A n \in Node : Rests(n) \/ Joins(n) \/ Turn(n)

\* The parts of TypeOK besides connections and queues.
HandlersTyped ==
  /\ holder \in [Node -> 0..Len(conn)]
  /\ rest \in [Node -> SUBSET Node]
  /\ awaited \in [Node -> 0..Len(conn)]
  /\ killed \in [Node -> BOOLEAN]
  /\ alive \subseteq Node

\* Steps that leave the queues alone.
LEMMA NoMove ==
  ASSUME TypeOK, UNCHANGED <<waiting, handled>>
  PROVE  Moves
BY DEF TypeOK, Moves, Rests

\* Steps that leave the handlers alone.
LEMMA HandlersKept ==
  ASSUME TypeOK, Kept, UNCHANGED <<holder, rest, awaited, killed>>, alive' \subseteq Node
  PROVE  HandlersTyped'
<1>1. 0..Len(conn) \subseteq 0..Len(conn')
  BY DEF TypeOK, Kept
<1> QED
  BY <1>1 DEF TypeOK, HandlersTyped

\* Take, with the history as it is or longer by the message.
LEMMA TakeMoves ==
  ASSUME TypeOK, NEW n \in Node, NEW c, Take(n, c),
         \/ UNCHANGED handled
         \/ handled' = [handled EXCEPT ![n] = Append(@, c)]
  PROVE  /\ Moves
         /\ c \in Index /\ c = Head(waiting[n]) /\ holder[n] = 0
<1>1. /\ waiting[n] # <<>> /\ c = Head(waiting[n]) /\ holder[n] = 0
      /\ waiting' = [waiting EXCEPT ![n] = Tail(@)]
  BY DEF Take
<1>2. waiting \in [Node -> Seq(Index)] /\ handled \in [Node -> Seq(Index)]
  BY DEF TypeOK
<1>3. c \in Index
  BY <1>1, <1>2, HeadTailFacts
<1>4. /\ waiting' = [k \in Node |-> waiting'[k]] /\ waiting'[n] = Tail(waiting[n])
      /\ \A k \in Node : k # n => waiting'[k] = waiting[k]
  BY <1>1, <1>2
<1>5. /\ handled' = [k \in Node |-> handled'[k]]
      /\ handled'[n] \in {handled[n], Append(handled[n], Head(waiting[n]))}
      /\ \A k \in Node : k # n => handled'[k] = handled[k]
  BY <1>1, <1>2
<1>6. Moves
  BY <1>1, <1>4, <1>5 DEF Moves, Rests, Turn
<1> QED
  BY <1>1, <1>3, <1>6

\* The steps of the network.
LEMMA NetworkFacts ==
  ASSUME TypeOK, NEW c \in Index, Connect(c) \/ Receive(c) \/ Reset(c)
  PROVE  Kept /\ Moves /\ HandlersTyped'
<1>1. /\ conn \in Seq(Connection) /\ conn[c] \in Connection /\ conn[c].to \in Node
      /\ waiting \in [Node -> Seq(Index)] /\ handled \in [Node -> Seq(Index)]
      /\ alive \subseteq Node
  <2>1. conn \in Seq(Connection)
    BY DEF TypeOK
  <2>2. conn[c] \in Connection
    BY <2>1 DEF Index
  <2> QED
    BY <2>1, <2>2 DEF TypeOK, Connection
<1>2. CASE Connect(c)
  <2>1. PICK x \in {"connected", "failed"} :
          conn[c].phase = "connecting" /\ conn' = [conn EXCEPT ![c].phase = x]
    BY <1>2 DEF Connect
  <2>2. x \in Phases /\ conn[c].phase \notin {"acked", "failed"}
    BY <2>1 DEF Phases
  <2>3. Kept
    BY <1>1, <2>1, <2>2, KeptByPhase
  <2>4. UNCHANGED <<waiting, holder, rest, awaited, killed, alive, handled>>
    BY <1>2 DEF Connect
  <2> QED
    BY <1>1, <2>3, <2>4, NoMove, HandlersKept
<1>3. CASE Reset(c)
  <2>1. PICK x \in {"failed"} :
          conn[c].phase = "connected" /\ conn' = [conn EXCEPT ![c].phase = x]
    BY <1>3 DEF Reset
  <2>2. x \in Phases /\ conn[c].phase \notin {"acked", "failed"}
    BY <2>1 DEF Phases
  <2>3. Kept
    BY <1>1, <2>1, <2>2, KeptByPhase
  <2>4. UNCHANGED <<waiting, holder, rest, awaited, killed, alive, handled>>
    BY <1>3 DEF Reset
  <2> QED
    BY <1>1, <2>3, <2>4, NoMove, HandlersKept
<1>4. CASE Receive(c)
  <2>1. PICK x \in {"acked"} :
          conn[c].phase = "connected" /\ conn' = [conn EXCEPT ![c].phase = x]
    BY <1>4 DEF Receive
  <2>2. x \in Phases /\ conn[c].phase \notin {"acked", "failed"}
    BY <2>1 DEF Phases
  <2>3. Kept /\ conn'[c].phase = "acked"
    <3>1. Kept /\ \A d \in Index : conn'[d].phase = IF d = c THEN x ELSE conn[d].phase
      BY <1>1, <2>1, <2>2, KeptByPhase
    <3> QED
      BY <3>1
  <2>4. PICK n \in Node : n = conn[c].to
    BY <1>1
  <2>5. /\ waiting' = [waiting EXCEPT ![n] = Append(@, c)]
        /\ UNCHANGED <<holder, rest, awaited, killed, alive, handled>>
    BY <1>4, <2>4 DEF Receive
  <2>6. /\ waiting' = [k \in Node |-> waiting'[k]] /\ waiting'[n] = Append(waiting[n], c)
        /\ \A k \in Node : k # n => waiting'[k] = waiting[k]
        /\ handled' = [k \in Node |-> handled'[k]] /\ \A k \in Node : handled'[k] = handled[k]
    BY <1>1, <2>5
  <2>7. Moves
    BY <2>1, <2>3, <2>6 DEF Moves, Rests, Joins
  <2> QED
    BY <1>1, <2>3, <2>5, <2>7, HandlersKept
<1> QED
  BY <1>2, <1>3, <1>4

\* Messages of the user and crashes.
LEMMA OutsideFacts ==
  ASSUME TypeOK, NEW n \in Node, Crash(n) \/ \E type \in Types : Request(n, type)
  PROVE  Kept /\ Moves /\ HandlersTyped'
<1>1. conn \in Seq(Connection) /\ alive \subseteq Node
  BY DEF TypeOK
<1>2. CASE Crash(n)
  <2>1. Kept
    BY <1>1, <1>2, KeptByCrash
  <2>2. /\ UNCHANGED <<waiting, holder, rest, awaited, killed, handled>>
        /\ alive' \subseteq Node
    BY <1>1, <1>2 DEF Crash
  <2> QED
    BY <2>1, <2>2, NoMove, HandlersKept
<1>3. ASSUME NEW type \in Types, Request(n, type) PROVE Kept /\ Moves /\ HandlersTyped'
  <2>1. /\ conn' = Append(conn, Opened(User, n, type))
        /\ UNCHANGED <<waiting, holder, rest, awaited, killed, alive, handled>>
    BY <1>3 DEF Request
  <2>2. Kept
    BY <1>1, <2>1, KeptByAppend
  <2> QED
    BY <1>1, <2>1, <2>2, NoMove, HandlersKept
<1> QED
  BY <1>2, <1>3

\* An unchanged list of connections is kept.
LEMMA KeptUnchanged ==
  ASSUME TypeOK, UNCHANGED conn
  PROVE  Kept
<1>1. conn \in Seq(Connection) /\ Len(conn) \in Nat
  BY DEF TypeOK
<1> QED
  BY <1>1 DEF Kept

\* The steps of a handler that takes a message from the queue.
LEMMA TakingFacts ==
  ASSUME TypeOK, NEW n \in Node,
         DropWhenKilled(n) \/ StartAlgorithm(n) \/ Stop(n) \/ StopAll(n)
  PROVE  Kept /\ Moves /\ HandlersTyped'
<1>1. /\ conn \in Seq(Connection) /\ Len(conn) \in Nat /\ Neighbors[n] \subseteq Node
      /\ holder \in [Node -> 0..Len(conn)] /\ rest \in [Node -> SUBSET Node]
      /\ awaited \in [Node -> 0..Len(conn)] /\ killed \in [Node -> BOOLEAN] /\ alive \subseteq Node
  BY NodeAssumption DEF TypeOK
<1>2. CASE DropWhenKilled(n)
  <2>1. PICK c \in Index : Take(n, c)
    BY <1>2 DEF DropWhenKilled
  <2>2. UNCHANGED <<conn, holder, rest, awaited, killed, alive, handled>>
    BY <1>2 DEF DropWhenKilled
  <2>3. Kept /\ Moves
    BY <2>1, <2>2, KeptUnchanged, TakeMoves
  <2> QED
    BY <1>1, <2>2, <2>3, HandlersKept
<1>3. CASE StartAlgorithm(n)
  <2>1. PICK c \in Index :
          /\ Take(n, c)
          /\ holder' = [holder EXCEPT ![n] = c]
          /\ handled' = [handled EXCEPT ![n] = Append(@, c)]
          /\ \E S \in SUBSET Neighbors[n] : rest' = [rest EXCEPT ![n] = S]
          /\ UNCHANGED <<conn, awaited, killed, alive>>
    <3>1. PICK c \in Index :
            /\ Take(n, c)
            /\ holder' = [holder EXCEPT ![n] = c]
            /\ handled' = [handled EXCEPT ![n] = Append(@, c)]
            /\ \E S \in SUBSET Neighbors[n] :
                 AlgorithmSends + Cardinality(S) <= MaxAlgorithm /\ rest' = [rest EXCEPT ![n] = S]
            /\ UNCHANGED <<conn, awaited, killed, alive>>
      BY <1>3 DEF StartAlgorithm
    <3>2. \E S \in SUBSET Neighbors[n] : rest' = [rest EXCEPT ![n] = S]
      BY <3>1
    <3> QED
      BY <3>1, <3>2
  <2>2. Kept /\ Moves
    BY <2>1, KeptUnchanged, TakeMoves
  <2>3. c \in 0..Len(conn)
    BY <1>1 DEF Index
  <2>4. holder' \in [Node -> 0..Len(conn')] /\ rest' \in [Node -> SUBSET Node]
    BY <1>1, <2>1, <2>3
  <2> QED
    BY <1>1, <2>1, <2>2, <2>4 DEF HandlersTyped
<1>4. CASE Stop(n)
  <2>1. PICK c \in Index :
          /\ Take(n, c)
          /\ holder' = [holder EXCEPT ![n] = c]
          /\ handled' = [handled EXCEPT ![n] = Append(@, c)]
          /\ killed' = [killed EXCEPT ![n] = TRUE]
          /\ UNCHANGED <<conn, rest, awaited, alive>>
    BY <1>4 DEF Stop
  <2>2. Kept /\ Moves
    BY <2>1, KeptUnchanged, TakeMoves
  <2>3. c \in 0..Len(conn)
    BY <1>1 DEF Index
  <2>4. holder' \in [Node -> 0..Len(conn')]
    BY <1>1, <2>1, <2>3
  <2>5. killed' \in [Node -> BOOLEAN]
    BY <1>1, <2>1
  <2> QED
    BY <1>1, <2>1, <2>2, <2>4, <2>5 DEF HandlersTyped
<1>5. CASE StopAll(n)
  <2>1. PICK type \in Types : type = "STOP ALL"
    BY DEF Types
  <2>2. PICK c \in Index :
          /\ Take(n, c)
          /\ holder' = [holder EXCEPT ![n] = c]
          /\ handled' = [handled EXCEPT ![n] = Append(@, c)]
          /\ killed' = [killed EXCEPT ![n] = TRUE]
          /\ conn' = conn \o OpenedAll(n, Neighbors[n], type)
          /\ UNCHANGED <<rest, awaited, alive>>
    BY <1>5, <2>1 DEF StopAll, FloodTargets
  <2>3. Kept
    BY <1>1, <2>2, KeptByFlood
  <2>4. Moves
    BY <2>2, TakeMoves
  <2>5. 0..Len(conn) \subseteq 0..Len(conn')
    BY <1>1, <2>3 DEF Kept
  <2>6. c \in 0..Len(conn')
    BY <1>1, <2>5 DEF Index
  <2>7. holder' \in [Node -> 0..Len(conn')] /\ awaited' \in [Node -> 0..Len(conn')]
    BY <1>1, <2>2, <2>5, <2>6
  <2>8. killed' \in [Node -> BOOLEAN]
    BY <1>1, <2>2
  <2> QED
    BY <1>1, <2>2, <2>3, <2>4, <2>7, <2>8 DEF HandlersTyped
<1> QED
  BY <1>2, <1>3, <1>4, <1>5

\* The steps of a handler that works.
LEMMA WorkingFacts ==
  ASSUME TypeOK, NEW n \in Node, Continue(n) \/ Leave(n) \/ \E m \in Node : SendNext(n, m)
  PROVE  Kept /\ Moves /\ HandlersTyped'
<1>1. /\ conn \in Seq(Connection) /\ Len(conn) \in Nat
      /\ holder \in [Node -> 0..Len(conn)] /\ rest \in [Node -> SUBSET Node]
      /\ awaited \in [Node -> 0..Len(conn)] /\ killed \in [Node -> BOOLEAN] /\ alive \subseteq Node
      /\ 0 \in 0..Len(conn)
  BY DEF TypeOK
<1>2. CASE Continue(n)
  <2>1. /\ awaited' = [awaited EXCEPT ![n] = 0]
        /\ UNCHANGED <<conn, waiting, holder, rest, killed, alive, handled>>
    BY <1>2 DEF Continue
  <2>2. awaited' \in [Node -> 0..Len(conn')]
    BY <1>1, <2>1
  <2>3. Kept /\ Moves
    BY <2>1, KeptUnchanged, NoMove
  <2> QED
    BY <1>1, <2>1, <2>2, <2>3 DEF HandlersTyped
<1>3. CASE Leave(n)
  <2>1. /\ holder' = [holder EXCEPT ![n] = 0]
        /\ UNCHANGED killed \/ killed' = [killed EXCEPT ![n] = TRUE]
        /\ UNCHANGED <<conn, waiting, rest, awaited, alive, handled>>
    BY <1>3 DEF Leave, AfterLeave
  <2>2. holder' \in [Node -> 0..Len(conn')]
    BY <1>1, <2>1
  <2>3. killed' \in [Node -> BOOLEAN]
    BY <1>1, <2>1
  <2>4. Kept /\ Moves
    BY <2>1, KeptUnchanged, NoMove
  <2> QED
    BY <1>1, <2>1, <2>2, <2>3, <2>4 DEF HandlersTyped
<1>4. ASSUME NEW m \in Node, SendNext(n, m) PROVE Kept /\ Moves /\ HandlersTyped'
  <2>1. PICK type \in Types : type = "algorithm"
    BY DEF Types
  <2>2. /\ rest' = [rest EXCEPT ![n] = @ \ {m}]
        /\ conn' = Append(conn, Opened(n, m, type))
        /\ awaited' = [awaited EXCEPT ![n] = Len(conn) + 1]
        /\ UNCHANGED <<waiting, holder, killed, alive, handled>>
    BY <1>4, <2>1 DEF SendNext
  <2>3. Kept /\ Len(conn') = Len(conn) + 1
    BY <1>1, <2>2, KeptByAppend
  <2>4. 0..Len(conn) \subseteq 0..Len(conn') /\ Len(conn) + 1 \in 0..Len(conn')
    BY <1>1, <2>3
  <2>5. holder' \in [Node -> 0..Len(conn')] /\ awaited' \in [Node -> 0..Len(conn')]
    BY <1>1, <2>2, <2>4
  <2>6. rest' \in [Node -> SUBSET Node]
    BY <1>1, <2>2
  <2>7. Moves
    BY <2>2, NoMove
  <2> QED
    BY <1>1, <2>2, <2>3, <2>5, <2>6, <2>7 DEF HandlersTyped
<1> QED
  BY <1>2, <1>3, <1>4

\* Every step keeps the connections, moves the queues in one of the three
\* ways, and leaves the handlers well-typed.
LEMMA StepFacts ==
  ASSUME TypeOK, [Next]_vars
  PROVE  Kept /\ Moves /\ HandlersTyped'
<1>1. ASSUME NEW c \in Index, Connect(c) \/ Receive(c) \/ Reset(c)
      PROVE  Kept /\ Moves /\ HandlersTyped'
  BY <1>1, NetworkFacts
<1>2. ASSUME NEW n \in Node, Crash(n) \/ \E type \in Types : Request(n, type)
      PROVE  Kept /\ Moves /\ HandlersTyped'
  BY <1>2, OutsideFacts
<1>3. ASSUME NEW n \in Node, DropWhenKilled(n) \/ StartAlgorithm(n) \/ Stop(n) \/ StopAll(n)
      PROVE  Kept /\ Moves /\ HandlersTyped'
  BY <1>3, TakingFacts
<1>4. ASSUME NEW n \in Node, Continue(n) \/ Leave(n) \/ \E m \in Node : SendNext(n, m)
      PROVE  Kept /\ Moves /\ HandlersTyped'
  BY <1>4, WorkingFacts
<1>5. CASE UNCHANGED vars
  <2>1. UNCHANGED <<conn, waiting, holder, rest, awaited, killed, alive, handled>>
    BY <1>5 DEF vars
  <2>2. Kept /\ Moves /\ alive' \subseteq Node
    BY <2>1, KeptUnchanged, NoMove DEF TypeOK
  <2> QED
    BY <2>1, <2>2, HandlersKept
<1> QED
  BY <1>1, <1>2, <1>3, <1>4, <1>5 DEF Next, NetworkStep, HandlerStep

-----------------------------------------------------------------------------
(* Types.                                                                  *)

\* The queues of each process, whatever way they moved.
LEMMA QueuesTyped ==
  ASSUME TypeOK, Kept, Moves
  PROVE  waiting' \in [Node -> Seq(Index')] /\ handled' \in [Node -> Seq(Index')]
<1>1. conn \in Seq(Connection)
  BY DEF TypeOK
<1>2. ASSUME NEW n \in Node PROVE waiting'[n] \in Seq(Index') /\ handled'[n] \in Seq(Index')
  <2>1. PICK q \in Seq(Index) : q = waiting[n]
    BY DEF TypeOK
  <2>2. PICK h \in Seq(Index) : h = handled[n]
    BY DEF TypeOK
  <2>3. waiting'[n] \in Seq(Index) /\ handled'[n] \in Seq(Index)
    <3>1. CASE Rests(n)
      BY <3>1, <2>1, <2>2 DEF Rests
    <3>2. CASE Joins(n)
      <4>1. PICK c \in Index : waiting'[n] = Append(q, c) /\ handled'[n] = h
        BY <3>2, <2>1, <2>2 DEF Joins
      <4> QED
        BY <4>1, AppendFacts
    <3>3. CASE Turn(n)
      <4>1. /\ q # <<>> /\ waiting'[n] = Tail(q)
            /\ handled'[n] \in {h, Append(h, Head(q))}
        BY <3>3, <2>1, <2>2 DEF Turn
      <4>2. PICK c \in Index : c = Head(q)
        BY <4>1, HeadTailFacts
      <4>3. Tail(q) \in Seq(Index) /\ Append(h, c) \in Seq(Index)
        BY <4>1, HeadTailFacts, AppendFacts
      <4> QED
        BY <4>1, <4>2, <4>3
    <3> QED
      BY <3>1, <3>2, <3>3 DEF Moves
  <2> QED
    BY <1>1, <2>3, Stable
<1> QED
  BY <1>2 DEF Moves

\* The starting point.
LEMMA InitTyped == Init => TypeOK
<1> SUFFICES ASSUME Init PROVE TypeOK
  OBVIOUS
<1>1. /\ conn = <<>> /\ waiting = [n \in Node |-> <<>>] /\ holder = [n \in Node |-> 0]
      /\ rest = [n \in Node |-> {}] /\ awaited = [n \in Node |-> 0]
      /\ killed = [n \in Node |-> FALSE] /\ alive = Node /\ handled = [n \in Node |-> <<>>]
  BY DEF Init
<1>2. <<>> \in Seq(Connection) /\ Len(<<>>) = 0
  OBVIOUS
<1>3. conn \in Seq(Connection) /\ Len(conn) = 0
  BY <1>1, <1>2, Zenon
<1>4. <<>> \in Seq(Index)
  OBVIOUS
<1>5. waiting \in [Node -> Seq(Index)] /\ handled \in [Node -> Seq(Index)]
  BY <1>1, <1>4, Zenon
<1>6. 0 \in 0..Len(conn)
  BY <1>3
<1>7. holder \in [Node -> 0..Len(conn)] /\ awaited \in [Node -> 0..Len(conn)]
  BY <1>1, <1>6, Zenon
<1>8. rest \in [Node -> SUBSET Node] /\ killed \in [Node -> BOOLEAN] /\ alive \subseteq Node
  BY <1>1
<1> QED
  BY <1>3, <1>5, <1>7, <1>8 DEF TypeOK

\* Every step keeps the types.
LEMMA TypeStep == TypeOK /\ [Next]_vars => TypeOK'
<1> SUFFICES ASSUME TypeOK, [Next]_vars PROVE TypeOK'
  OBVIOUS
<1>1. Kept /\ Moves /\ HandlersTyped'
  BY StepFacts
<1>2. waiting' \in [Node -> Seq(Index')] /\ handled' \in [Node -> Seq(Index')]
  BY <1>1, QueuesTyped
<1>3. conn' \in Seq(Connection)
  BY <1>1 DEF Kept
<1> QED
  BY <1>1, <1>2, <1>3 DEF TypeOK, HandlersTyped

\* Type correctness: queues, semaphores and awaited sends name connections
\* that were opened, and every connection is between processes of the network
\* or from the user (serverLogic.js:51-95).
THEOREM TypeCorrect == Spec => []TypeOK
<1>1. Init => TypeOK
  BY InitTyped
<1>2. TypeOK /\ [Next]_vars => TypeOK'
  BY TypeStep
<1> QED
  BY <1>1, <1>2, PTL DEF Spec

-----------------------------------------------------------------------------
(* Order.                                                                  *)

\* No send is begun or ended for a process that is not waiting for it.
LEMMA SendsKept ==
  ASSUME SendOK, Kept, conn \in Seq(Connection), UNCHANGED awaited,
         \A c \in Index' : c \notin Index =>
           conn'[c].type # "algorithm" \/ conn'[c].from \notin Node
  PROVE  SendOK'
<1> SUFFICES ASSUME NEW m \in Node, NEW c \in Index', Algorithm(c, m)'
             PROVE  /\ Settled(c)' \/ awaited'[m] = c
                    /\ awaited'[m] # 0 => c <= awaited'[m]
  BY DEF SendOK
<1>1. c \in Index /\ Algorithm(c, m)
  BY DEF Algorithm, Kept
<1>2. Settled(c) => Settled(c)'
  BY <1>1 DEF Settled, Kept
<1> QED
  BY <1>1, <1>2 DEF SendOK

\* SendOK is inductive: the loop goes on to the next neighbour only when the
\* send to the last one is settled.
LEMMA SendStep ==
  ASSUME TypeOK, SendOK, [Next]_vars
  PROVE  SendOK'
<1>1. conn \in Seq(Connection) /\ Len(conn) \in Nat /\ awaited \in [Node -> 0..Len(conn)]
  BY DEF TypeOK
<1>2. Kept
  BY StepFacts
<1>3. ASSUME UNCHANGED awaited, Len(conn') = Len(conn) PROVE SendOK'
  <2>1. Index' = Index
    BY <1>3 DEF Index
  <2> QED
    BY <2>1, <1>1, <1>2, <1>3, SendsKept
<1>4. ASSUME NEW c \in Index, Connect(c) \/ Receive(c) \/ Reset(c) PROVE SendOK'
  <2>1. UNCHANGED awaited /\ \E x : conn' = [conn EXCEPT ![c].phase = x]
    BY <1>4 DEF Connect, Receive, Reset
  <2>2. Len(conn') = Len(conn)
    BY <2>1, <1>1
  <2> QED
    BY <2>1, <2>2, <1>3
<1>5. ASSUME NEW n \in Node, Crash(n) PROVE SendOK'
  <2>1. UNCHANGED awaited
    BY <1>5 DEF Crash
  <2> QED
    BY <2>1, <1>1, <1>3, <1>5, KeptByCrash
<1>6. ASSUME NEW n \in Node, NEW type \in Types, Request(n, type) PROVE SendOK'
  <2>1. UNCHANGED awaited /\ conn' = Append(conn, Opened(User, n, type))
    BY <1>6 DEF Request
  <2>2. Len(conn') = Len(conn) + 1 /\ conn'[Len(conn) + 1] = Opened(User, n, type)
    BY <2>1, <1>1, KeptByAppend
  <2>3. \A c \in Index' : c \notin Index => c = Len(conn) + 1
    BY <2>2, <1>1 DEF Index
  <2>4. conn'[Len(conn) + 1].from \notin Node
    BY <2>2, NodeAssumption DEF Opened
  <2> QED
    BY <2>1, <2>3, <2>4, <1>1, <1>2, SendsKept
<1>7. ASSUME NEW n \in Node, DropWhenKilled(n) \/ StartAlgorithm(n) \/ Stop(n) \/ Leave(n)
      PROVE  SendOK'
  <2>1. UNCHANGED <<conn, awaited>>
    BY <1>7 DEF DropWhenKilled, StartAlgorithm, Stop, Leave
  <2> QED
    BY <2>1, <1>3
<1>8. ASSUME NEW n \in Node, StopAll(n) PROVE SendOK'
  <2>1. PICK type \in Types : type = "STOP ALL"
    BY DEF Types
  <2>2. UNCHANGED awaited /\ conn' = conn \o OpenedAll(n, Neighbors[n], type)
    BY <1>8, <2>1 DEF StopAll, FloodTargets
  <2>3. \A c \in Index' : c \notin Index => conn'[c].type = type
    <3>1. PICK S \in SUBSET Node : S = Neighbors[n]
      BY NodeAssumption
    <3>2. conn' = conn \o OpenedAll(n, S, type)
      BY <3>1, <2>2
    <3>3. FansOut(n, S, type)
      BY <3>2, <1>1, KeptByFlood
    <3> QED
      BY <3>3 DEF FansOut
  <2>4. \A c \in Index' : c \notin Index => conn'[c].type # "algorithm"
    BY <2>1, <2>3
  <2> QED
    BY <2>2, <2>4, <1>1, <1>2, SendsKept
<1>9. ASSUME NEW n \in Node, Continue(n) PROVE SendOK'
  <2>1. /\ Settled(awaited[n])
        /\ awaited' = [awaited EXCEPT ![n] = 0] /\ UNCHANGED conn
    BY <1>9 DEF Continue
  <2>2. \A m \in Node : awaited'[m] = IF m = n THEN 0 ELSE awaited[m]
    BY <2>1, <1>1
  <2>3. SUFFICES ASSUME NEW m \in Node, NEW c \in Index, Algorithm(c, m)
                 PROVE  /\ Settled(c) \/ awaited'[m] = c
                        /\ awaited'[m] # 0 => c <= awaited'[m]
    BY <2>1 DEF SendOK, Index, Algorithm, Settled
  <2>4. Settled(c) \/ awaited[m] = c
    BY <2>3 DEF SendOK
  <2>5. awaited[m] # 0 => c <= awaited[m]
    BY <2>3 DEF SendOK
  <2> QED
    BY <2>1, <2>2, <2>4, <2>5
<1>10. ASSUME NEW n \in Node, NEW m \in Node, SendNext(n, m) PROVE SendOK'
  <2>1. PICK type \in Types : type = "algorithm"
    BY DEF Types
  <2>2. /\ awaited[n] = 0
        /\ conn' = Append(conn, Opened(n, m, type))
        /\ awaited' = [awaited EXCEPT ![n] = Len(conn) + 1]
    BY <1>10, <2>1 DEF SendNext
  <2>3. /\ Len(conn') = Len(conn) + 1
        /\ \A d \in Index : conn'[d] = conn[d]
        /\ conn'[Len(conn) + 1] = Opened(n, m, type)
    BY <2>2, <1>1, KeptByAppend
  <2>4. \A k \in Node : awaited'[k] = IF k = n THEN Len(conn) + 1 ELSE awaited[k]
    BY <2>2, <1>1
  <2>5. SUFFICES ASSUME NEW k \in Node, NEW c \in Index', Algorithm(c, k)'
                 PROVE  /\ Settled(c)' \/ awaited'[k] = c
                        /\ awaited'[k] # 0 => c <= awaited'[k]
    BY DEF SendOK
  <2>6. CASE c \in Index
    <3>1. Algorithm(c, k) /\ (Settled(c) => Settled(c)')
      BY <2>3, <2>5, <2>6 DEF Algorithm, Settled
    <3>2. /\ Settled(c) \/ awaited[k] = c
          /\ awaited[k] # 0 => c <= awaited[k]
      BY <3>1, <2>6 DEF SendOK
    <3>3. c <= Len(conn) /\ c # 0 /\ c \in Int
      BY <2>6, <1>1 DEF Index
    <3>4. CASE k = n
      <4>1. Settled(c)'
        BY <3>1, <3>2, <3>3, <3>4, <2>2
      <4> QED
        BY <4>1, <3>3, <3>4, <2>4, <1>1
    <3>5. CASE k # n
      <4>1. awaited'[k] = awaited[k]
        BY <3>5, <2>4
      <4> QED
        BY <4>1, <3>1, <3>2
    <3> QED
      BY <3>4, <3>5
  <2>7. CASE c = Len(conn) + 1
    <3>1. conn'[c].from = n
      BY <2>3, <2>7 DEF Opened
    <3>2. k = n
      BY <3>1, <2>5 DEF Algorithm
    <3> QED
      BY <3>2, <2>4, <2>7, <1>1
  <2>8. c \in Index \/ c = Len(conn) + 1
    BY <2>3, <2>5, <1>1 DEF Index
  <2> QED
    BY <2>6, <2>7, <2>8
<1>11. CASE UNCHANGED vars
  BY <1>3, <1>11 DEF vars
<1> QED
  BY <1>4, <1>5, <1>6, <1>7, <1>8, <1>9, <1>10, <1>11 DEF Next, NetworkStep, HandlerStep

\* Who holds a semaphore, and what is awaited, was opened.
LEMMA OpenFacts ==
  ASSUME TypeOK, NEW n \in Node
  PROVE  /\ holder[n] # 0 => holder[n] \in Index
         /\ awaited[n] # 0 => awaited[n] \in Index
<1>1. Len(conn) \in Nat /\ holder[n] \in 0..Len(conn) /\ awaited[n] \in 0..Len(conn)
  BY DEF TypeOK
<1> QED
  BY <1>1 DEF Index

\* A step that begins no handler, ends none and sends nothing in one.
LEMMA LoopKept ==
  ASSUME TypeOK, LoopOK, Kept, UNCHANGED <<holder, rest, awaited>>
  PROVE  LoopOK'
<1> SUFFICES ASSUME NEW n \in Node
             PROVE  /\ ~Busy(n)' => rest'[n] = {} /\ awaited'[n] = 0
                    /\ awaited'[n] # 0 =>
                         Algorithm(awaited[n], n)' /\ conn'[awaited'[n]].to \notin rest'[n]
  BY DEF LoopOK
<1>1. /\ holder[n] # 0 => holder[n] \in Index
      /\ awaited[n] # 0 => awaited[n] \in Index
  BY OpenFacts
<1>2. Busy(n)' <=> Busy(n)
  BY <1>1 DEF Busy, Kept
<1>3. awaited[n] # 0 => Algorithm(awaited[n], n) /\ conn[awaited[n]].to \notin rest[n]
  BY DEF LoopOK
<1>4. awaited[n] # 0 => Algorithm(awaited[n], n)' /\ conn'[awaited[n]].to \notin rest[n]
  BY <1>1, <1>3 DEF Algorithm, Kept
<1> QED
  BY <1>2, <1>4 DEF LoopOK

\* LoopOK is inductive: a handler is through only after its last send is
\* settled.
LEMMA LoopStep ==
  ASSUME TypeOK, LoopOK, [Next]_vars
  PROVE  LoopOK'
<1>1. /\ conn \in Seq(Connection) /\ Len(conn) \in Nat
      /\ holder \in [Node -> 0..Len(conn)] /\ awaited \in [Node -> 0..Len(conn)]
      /\ rest \in [Node -> SUBSET Node]
  BY DEF TypeOK
<1>2. Kept
  BY StepFacts
<1>3. ASSUME UNCHANGED <<holder, rest, awaited>> PROVE LoopOK'
  BY <1>2, <1>3, LoopKept
<1> DEFINE Good(n) ==
      /\ ~Busy(n)' => rest'[n] = {} /\ awaited'[n] = 0
      /\ awaited'[n] # 0 => Algorithm(awaited[n], n)' /\ conn'[awaited'[n]].to \notin rest'[n]
\* the other processes
<1>4. ASSUME NEW k \in Node,
             holder'[k] = holder[k], rest'[k] = rest[k], awaited'[k] = awaited[k]
      PROVE  Good(k)
  <2>1. /\ holder[k] # 0 => holder[k] \in Index
        /\ awaited[k] # 0 => awaited[k] \in Index
    BY OpenFacts
  <2>2. Busy(k)' <=> Busy(k)
    BY <2>1, <1>2, <1>4 DEF Busy, Kept
  <2>3. awaited[k] # 0 => Algorithm(awaited[k], k) /\ conn[awaited[k]].to \notin rest[k]
    BY DEF LoopOK
  <2>4. awaited[k] # 0 => Algorithm(awaited[k], k)' /\ conn'[awaited'[k]].to \notin rest'[k]
    BY <2>1, <2>3, <1>2, <1>4 DEF Algorithm, Kept
  <2>5. ~Busy(k)' => rest'[k] = {} /\ awaited'[k] = 0
    BY <2>2, <1>4 DEF LoopOK
  <2> QED
    BY <2>4, <2>5, <1>4
<1>5. (\A k \in Node : Good(k)) => LoopOK'
  BY DEF LoopOK
<1> HIDE DEF Good
<1>6. ASSUME NEW c \in Index, Connect(c) \/ Receive(c) \/ Reset(c) PROVE LoopOK'
  BY <1>3, <1>6 DEF Connect, Receive, Reset
<1>7. ASSUME NEW n \in Node, Crash(n) \/ DropWhenKilled(n) \/ \E type \in Types : Request(n, type)
      PROVE  LoopOK'
  BY <1>3, <1>7 DEF Crash, DropWhenKilled, Request
<1>8. ASSUME NEW n \in Node, StartAlgorithm(n) PROVE LoopOK'
  <2>1. PICK c \in Index, S \in SUBSET Node :
          /\ holder[n] = 0 /\ conn[c].type = "algorithm"
          /\ holder' = [holder EXCEPT ![n] = c]
          /\ rest' = [rest EXCEPT ![n] = S]
          /\ UNCHANGED <<conn, awaited>>
    BY <1>8, NodeAssumption DEF StartAlgorithm, Take
  <2>2. ~Busy(n)
    BY <2>1 DEF Busy
  <2>3. awaited'[n] = 0
    BY <2>1, <2>2 DEF LoopOK
  <2>4. holder'[n] = c /\ c # 0
    BY <2>1, <1>1 DEF Index
  <2>5. Busy(n)'
    BY <2>1, <2>4 DEF Busy
  <2>6. Good(n)
    BY <2>3, <2>5 DEF Good
  <2>7. \A k \in Node : k # n =>
          holder'[k] = holder[k] /\ rest'[k] = rest[k] /\ awaited'[k] = awaited[k]
    BY <2>1, <1>1
  <2> QED
    BY <2>6, <2>7, <1>4, <1>5
<1>9. ASSUME NEW n \in Node, Stop(n) \/ StopAll(n) PROVE LoopOK'
  <2>1. PICK c \in Index :
          /\ holder[n] = 0 /\ conn[c].type # "algorithm"
          /\ holder' = [holder EXCEPT ![n] = c]
          /\ UNCHANGED <<rest, awaited>>
    BY <1>9 DEF Stop, StopAll, Take
  <2>2. ~Busy(n)
    BY <2>1 DEF Busy
  <2>3. awaited'[n] = 0 /\ rest'[n] = {}
    BY <2>1, <2>2 DEF LoopOK
  <2>4. Good(n)
    BY <2>3 DEF Good
  <2>5. \A k \in Node : k # n =>
          holder'[k] = holder[k] /\ rest'[k] = rest[k] /\ awaited'[k] = awaited[k]
    BY <2>1, <1>1
  <2> QED
    BY <2>4, <2>5, <1>4, <1>5
<1>10. ASSUME NEW n \in Node, Continue(n) PROVE LoopOK'
  <2>1. /\ awaited[n] # 0 /\ awaited' = [awaited EXCEPT ![n] = 0]
        /\ UNCHANGED <<conn, holder, rest>>
    BY <1>10 DEF Continue
  <2>2. Busy(n)
    BY <2>1 DEF LoopOK
  <2>3. Busy(n)' /\ awaited'[n] = 0
    BY <2>1, <2>2, <1>1 DEF Busy
  <2>4. Good(n)
    BY <2>3 DEF Good
  <2>5. \A k \in Node : k # n =>
          holder'[k] = holder[k] /\ rest'[k] = rest[k] /\ awaited'[k] = awaited[k]
    BY <2>1, <1>1
  <2> QED
    BY <2>4, <2>5, <1>4, <1>5
<1>11. ASSUME NEW n \in Node, Leave(n) PROVE LoopOK'
  <2>1. /\ awaited[n] = 0 /\ rest[n] = {} /\ holder' = [holder EXCEPT ![n] = 0]
        /\ UNCHANGED <<conn, awaited, rest>>
    BY <1>11 DEF Leave, AfterLeave
  <2>2. Good(n)
    BY <2>1 DEF Good
  <2>3. \A k \in Node : k # n =>
          holder'[k] = holder[k] /\ rest'[k] = rest[k] /\ awaited'[k] = awaited[k]
    BY <2>1, <1>1
  <2> QED
    BY <2>2, <2>3, <1>4, <1>5
<1>12. ASSUME NEW n \in Node, NEW m \in Node, SendNext(n, m) PROVE LoopOK'
  <2>1. PICK type \in Types : type = "algorithm"
    BY DEF Types
  <2>2. /\ Busy(n) /\ rest' = [rest EXCEPT ![n] = @ \ {m}]
        /\ conn' = Append(conn, Opened(n, m, type))
        /\ awaited' = [awaited EXCEPT ![n] = Len(conn) + 1]
        /\ UNCHANGED holder
    BY <1>12, <2>1 DEF SendNext
  <2>3. conn'[Len(conn) + 1] = Opened(n, m, type)
    BY <2>2, <1>1, KeptByAppend
  <2>4. awaited'[n] = Len(conn) + 1 /\ m \notin rest'[n]
    BY <2>2, <1>1
  <2>5. Algorithm(awaited[n], n)' /\ conn'[awaited'[n]].to = m
    BY <2>1, <2>3, <2>4 DEF Algorithm, Opened
  <2>6. Busy(n)'
    <3>1. holder[n] \in Index
      BY <2>2, <1>1 DEF Busy, Index
    <3> QED
      BY <3>1, <2>2, <1>2 DEF Busy, Kept
  <2>7. Good(n)
    BY <2>4, <2>5, <2>6 DEF Good
  <2>8. \A k \in Node : k # n =>
          holder'[k] = holder[k] /\ rest'[k] = rest[k] /\ awaited'[k] = awaited[k]
    BY <2>2, <1>1
  <2> QED
    BY <2>7, <2>8, <1>4, <1>5
<1>13. CASE UNCHANGED vars
  BY <1>3, <1>13 DEF vars
<1> QED
  BY <1>6, <1>7, <1>8, <1>9, <1>10, <1>11, <1>12, <1>13 DEF Next, NetworkStep, HandlerStep

\* No process sends STOP ALL, and none leaves the handler of one.
LEMMA FloodKept ==
  ASSUME TypeOK, FloodOK, Kept,
         \A c \in Index' : c \notin Index =>
           conn'[c].type = "algorithm" \/ conn'[c].from \notin Node,
         \A n \in Node : holder[n] # 0 /\ conn[holder[n]].type = "STOP ALL" =>
           holder'[n] = holder[n]
  PROVE  FloodOK'
<1> SUFFICES ASSUME NEW c \in Index', NEW n \in Node,
                    conn'[c].from = n, conn'[c].type # "algorithm"
             PROVE  /\ conn'[c].type = "STOP ALL"
                    /\ holder'[n] # 0 /\ conn'[holder'[n]].type = "STOP ALL"
                    /\ \A d \in Index' : (/\ conn'[d].from = n /\ conn'[d].to = conn'[c].to
                                            /\ conn'[d].type = "STOP ALL") => d = c
  BY DEF FloodOK
<1>1. c \in Index
  OBVIOUS
<1>2. conn[c].from = n /\ conn[c].type # "algorithm" /\ conn'[c].to = conn[c].to
  BY <1>1 DEF Kept
<1>3. /\ conn[c].type = "STOP ALL"
      /\ holder[n] # 0 /\ conn[holder[n]].type = "STOP ALL"
      /\ \A d \in Index : (/\ conn[d].from = n /\ conn[d].to = conn[c].to
                             /\ conn[d].type = "STOP ALL") => d = c
  BY <1>1, <1>2 DEF FloodOK
<1>4. holder[n] \in Index
  BY <1>3, OpenFacts
<1>5. holder'[n] # 0 /\ conn'[holder'[n]].type = "STOP ALL"
  BY <1>3, <1>4 DEF Kept
<1>6. ASSUME NEW d \in Index', conn'[d].from = n, conn'[d].to = conn'[c].to,
             conn'[d].type = "STOP ALL"
      PROVE  d = c
  <2>1. d \in Index
    BY <1>6
  <2> QED
    BY <2>1, <1>2, <1>3, <1>6 DEF Kept
<1> QED
  BY <1>1, <1>3, <1>5, <1>6 DEF Kept

\* FloodOK is inductive: a process takes STOP ALL from its queue at most once.
LEMMA FloodStep ==
  ASSUME TypeOK, FloodOK, [Next]_vars
  PROVE  FloodOK'
<1>1. /\ conn \in Seq(Connection) /\ Len(conn) \in Nat
      /\ holder \in [Node -> 0..Len(conn)]
  BY DEF TypeOK
<1>2. Kept
  BY StepFacts
<1>3. ASSUME Len(conn') = Len(conn),
             \A n \in Node : holder[n] # 0 /\ conn[holder[n]].type = "STOP ALL" =>
               holder'[n] = holder[n]
      PROVE  FloodOK'
  <2>1. Index' = Index
    BY <1>3 DEF Index
  <2> QED
    BY <2>1, <1>2, <1>3, FloodKept
<1>4. ASSUME NEW c \in Index, Connect(c) \/ Receive(c) \/ Reset(c) PROVE FloodOK'
  <2>1. UNCHANGED holder /\ \E x : conn' = [conn EXCEPT ![c].phase = x]
    BY <1>4 DEF Connect, Receive, Reset
  <2>2. Len(conn') = Len(conn)
    BY <2>1, <1>1
  <2> QED
    BY <2>1, <2>2, <1>3
<1>5. ASSUME NEW n \in Node, Crash(n) PROVE FloodOK'
  <2>1. UNCHANGED holder
    BY <1>5 DEF Crash
  <2> QED
    BY <2>1, <1>1, <1>3, <1>5, KeptByCrash
<1>6. ASSUME NEW n \in Node, NEW type \in Types, Request(n, type) PROVE FloodOK'
  <2>1. UNCHANGED holder /\ conn' = Append(conn, Opened(User, n, type))
    BY <1>6 DEF Request
  <2>2. Len(conn') = Len(conn) + 1 /\ conn'[Len(conn) + 1] = Opened(User, n, type)
    BY <2>1, <1>1, KeptByAppend
  <2>3. \A c \in Index' : c \notin Index => c = Len(conn) + 1
    BY <2>2, <1>1 DEF Index
  <2>4. conn'[Len(conn) + 1].from \notin Node
    BY <2>2, NodeAssumption DEF Opened
  <2> QED
    BY <2>1, <2>3, <2>4, <1>2, FloodKept
<1>7. ASSUME NEW n \in Node, DropWhenKilled(n) \/ Continue(n) PROVE FloodOK'
  <2>1. UNCHANGED <<conn, holder>>
    BY <1>7 DEF DropWhenKilled, Continue
  <2> QED
    BY <2>1, <1>3
<1>8. ASSUME NEW n \in Node, StartAlgorithm(n) \/ Stop(n) PROVE FloodOK'
  <2>1. PICK c \in Index : holder[n] = 0 /\ holder' = [holder EXCEPT ![n] = c] /\ UNCHANGED conn
    BY <1>8 DEF StartAlgorithm, Stop, Take
  <2>2. \A k \in Node : holder[k] # 0 => holder'[k] = holder[k]
    BY <2>1, <1>1
  <2> QED
    BY <2>1, <2>2, <1>3
<1>9. ASSUME NEW n \in Node, Leave(n) PROVE FloodOK'
  <2>1. /\ conn[holder[n]].type = "algorithm"
        /\ holder' = [holder EXCEPT ![n] = 0] /\ UNCHANGED conn
    BY <1>9 DEF Leave, AfterLeave, Busy
  <2>2. \A k \in Node : conn[holder[k]].type = "STOP ALL" => holder'[k] = holder[k]
    BY <2>1, <1>1
  <2> QED
    BY <2>1, <2>2, <1>3
<1>10. ASSUME NEW n \in Node, NEW m \in Node, SendNext(n, m) PROVE FloodOK'
  <2>1. PICK type \in Types : type = "algorithm"
    BY DEF Types
  <2>2. UNCHANGED holder /\ conn' = Append(conn, Opened(n, m, type))
    BY <1>10, <2>1 DEF SendNext
  <2>3. Len(conn') = Len(conn) + 1 /\ conn'[Len(conn) + 1] = Opened(n, m, type)
    BY <2>2, <1>1, KeptByAppend
  <2>4. \A c \in Index' : c \notin Index => c = Len(conn) + 1
    BY <2>3, <1>1 DEF Index
  <2>5. conn'[Len(conn) + 1].type = "algorithm"
    BY <2>1, <2>3 DEF Opened
  <2> QED
    BY <2>2, <2>4, <2>5, <1>2, FloodKept
<1>11. ASSUME NEW n \in Node, StopAll(n) PROVE FloodOK'
  <2>1. PICK type \in Types : type = "STOP ALL"
    BY DEF Types
  <2>2. PICK S \in SUBSET Node : S = Neighbors[n]
    BY NodeAssumption
  <2>3. PICK c \in Index :
          /\ holder[n] = 0 /\ conn[c].type = type
          /\ holder' = [holder EXCEPT ![n] = c]
          /\ conn' = conn \o OpenedAll(n, S, type)
    BY <1>11, <2>1, <2>2 DEF StopAll, FloodTargets, Take
  <2>4. /\ \A d \in Index : conn'[d] = conn[d]
        /\ \A d \in Index' : d \notin Index =>
             /\ conn'[d].type = type /\ conn'[d].from = n
             /\ \A e \in Index' : e \notin Index /\ conn'[e].to = conn'[d].to => e = d
    <3>1. FansOut(n, S, type)
      BY <2>3, <1>1, KeptByFlood
    <3> QED
      BY <3>1 DEF FansOut
  <2>5. \A k \in Node : holder'[k] = IF k = n THEN c ELSE holder[k]
    BY <2>3, <1>1
  <2>6. c # 0
    BY <1>1 DEF Index
  <2> SUFFICES ASSUME NEW d \in Index', NEW k \in Node,
                      conn'[d].from = k, conn'[d].type # "algorithm"
               PROVE  /\ conn'[d].type = "STOP ALL"
                      /\ holder'[k] # 0 /\ conn'[holder'[k]].type = "STOP ALL"
                      /\ \A e \in Index' : (/\ conn'[e].from = k /\ conn'[e].to = conn'[d].to
                                              /\ conn'[e].type = "STOP ALL") => e = d
    BY DEF FloodOK
  \* n holds no semaphore yet, so it has not sent STOP ALL before
  <2>7. \A e \in Index : conn[e].from = n => conn[e].type = "algorithm"
    BY <2>3 DEF FloodOK
  <2>8. CASE k = n
    <3>1. d \notin Index
      BY <2>4, <2>7, <2>8
    <3>2. holder'[k] = c /\ conn'[c].type = type
      BY <2>3, <2>4, <2>5, <2>8
    <3>3. ASSUME NEW e \in Index', conn'[e].from = k, conn'[e].to = conn'[d].to,
                 conn'[e].type = type
          PROVE  e = d
      <4>1. e \notin Index
        BY <3>3, <2>1, <2>4, <2>7, <2>8
      <4> QED
        BY <4>1, <3>1, <3>3, <2>4
    <3> QED
      BY <3>1, <3>2, <3>3, <2>1, <2>4, <2>6
  <2>9. CASE k # n
    <3>1. d \in Index /\ conn[d].from = k /\ conn[d].type # "algorithm"
      BY <2>4, <2>9
    <3>2. /\ conn[d].type = type
          /\ holder[k] # 0 /\ conn[holder[k]].type = type
          /\ \A e \in Index : (/\ conn[e].from = k /\ conn[e].to = conn[d].to
                                 /\ conn[e].type = type) => e = d
      BY <3>1, <2>1 DEF FloodOK
    <3>3. holder[k] \in Index /\ holder'[k] = holder[k]
      BY <3>2, <2>5, <2>9, <1>1 DEF Index
    <3>4. ASSUME NEW e \in Index', conn'[e].from = k, conn'[e].to = conn'[d].to,
                 conn'[e].type = type
          PROVE  e = d
      <4>1. e \in Index
        BY <3>4, <2>4, <2>9
      <4> QED
        BY <4>1, <3>1, <3>2, <3>4, <2>4
    <3> QED
      BY <3>1, <3>2, <3>3, <3>4, <2>1, <2>4
  <2> QED
    BY <2>8, <2>9
<1>12. CASE UNCHANGED vars
  <2>1. UNCHANGED <<conn, holder>>
    BY <1>12 DEF vars
  <2> QED
    BY <2>1, <1>3
<1> QED
  BY <1>4, <1>5, <1>6, <1>7, <1>8, <1>9, <1>10, <1>11, <1>12 DEF Next, NetworkStep, HandlerStep

\* A message that is only now answered was sent after all of its process that
\* were answered before: its process waits for it.
LEMMA SentLater ==
  ASSUME TypeOK, SendOK, NEW c \in Index, conn[c].phase = "connected",
         NEW d \in Index, conn[d].phase = "acked"
  PROVE  Earlier(d, c)
<1> SUFFICES ASSUME NEW m \in Node, Algorithm(d, m), Algorithm(c, m) PROVE d < c
  BY DEF Earlier
<1>1. awaited[m] = c
  BY DEF SendOK, Settled
<1>2. c # 0 /\ d # c /\ c \in Int /\ d \in Int
  BY DEF TypeOK, Index
<1>3. d <= c
  BY <1>1, <1>2 DEF SendOK
<1> QED
  BY <1>2, <1>3

\* QueueOK and OrderOK are inductive, whatever way the queues move.
LEMMA QueueStep ==
  ASSUME TypeOK, SendOK, QueueOK, OrderOK, Kept, Moves
  PROVE  QueueOK' /\ OrderOK'
<1>1. conn \in Seq(Connection)
  BY DEF TypeOK
<1> SUFFICES ASSUME NEW n \in Node
             PROVE  /\ Acked(handled[n])' /\ Acked(waiting[n])'
                    /\ Ascending(handled[n])' /\ Ascending(waiting[n])'
                    /\ Before(handled[n], waiting[n])'
  BY DEF QueueOK, OrderOK
<1>2. PICK q \in Seq(Index) : q = waiting[n]
  BY DEF TypeOK
<1>3. PICK h \in Seq(Index) : h = handled[n]
  BY DEF TypeOK
<1>4. Acked(h) /\ Acked(q) /\ Ascending(h) /\ Ascending(q) /\ Before(h, q)
  BY <1>2, <1>3 DEF QueueOK, OrderOK
<1>5. PICK q1, h1 : q1 = waiting'[n] /\ h1 = handled'[n]
  OBVIOUS
<1>6. SUFFICES Acked(h1)' /\ Acked(q1)' /\ Ascending(h1)' /\ Ascending(q1)' /\ Before(h1, q1)'
  BY <1>5
<1>7. CASE Rests(n)
  <2>1. q1 = q /\ h1 = h
    BY <1>2, <1>3, <1>5, <1>7 DEF Rests
  <2> QED
    BY <2>1, <1>1, <1>4, Stable
<1>8. CASE Joins(n)
  <2>1. PICK c \in Index : /\ conn[c].phase = "connected" /\ conn'[c].phase = "acked"
                           /\ q1 = Append(q, c) /\ h1 = h
    BY <1>2, <1>3, <1>5, <1>8 DEF Joins
  <2>2. /\ \A i \in 1..Len(q) : q[i] \in Index /\ conn[q[i]].phase = "acked"
        /\ \A i \in 1..Len(h) : h[i] \in Index /\ conn[h[i]].phase = "acked"
    BY <1>4 DEF Acked
  <2>3. /\ \A i \in 1..Len(q) : Earlier(q[i], c)
        /\ \A i \in 1..Len(h) : Earlier(h[i], c)
    BY <2>1, <2>2, SentLater
  <2>4. Ascending(q1) /\ Before(h1, q1) /\ q1 \in Seq(Index)
    BY <2>1, <2>3, <1>4, Join, AppendFacts
  <2>5. Ascending(q1)' /\ Before(h1, q1)' /\ Acked(h1)' /\ Ascending(h1)'
    BY <2>1, <2>4, <1>1, <1>4, Stable
  <2>6. Acked(q1)'
    BY <2>1, <1>4, AckedJoin
  <2> QED
    BY <2>5, <2>6
<1>9. CASE Turn(n)
  <2>1. q # <<>> /\ q1 = Tail(q) /\ h1 \in {h, Append(h, Head(q))}
    BY <1>2, <1>3, <1>5, <1>9 DEF Turn
  <2>2. Head(q) \in Index /\ q1 \in Seq(Index)
    BY <2>1, HeadTailFacts
  <2>3. h1 \in Seq(Index)
    BY <2>1, <2>2, AppendFacts
  <2>4. Ascending(q1) /\ Ascending(h1) /\ Before(h1, q1)
    BY <2>1, <1>4, TurnComes
  <2>5. Acked(q1) /\ Acked(h1)
    BY <2>1, <1>4, AckedTurn
  <2> QED
    BY <2>2, <2>3, <2>4, <2>5, <1>1, Stable
<1> QED
  BY <1>7, <1>8, <1>9 DEF Moves

\* The inductive invariant.
THEOREM Invariance == Spec => []Inv
<1>1. Init => Inv
  <2> SUFFICES ASSUME Init PROVE Inv
    OBVIOUS
  <2>1. /\ TypeOK /\ conn = <<>>
        /\ waiting = [n \in Node |-> <<>>] /\ handled = [n \in Node |-> <<>>]
        /\ rest = [n \in Node |-> {}] /\ awaited = [n \in Node |-> 0]
    BY InitTyped DEF Init
  <2>2. Index = {}
    BY <2>1 DEF Index
  <2>3. \A n \in Node : 1..Len(waiting[n]) = {} /\ 1..Len(handled[n]) = {}
    BY <2>1
  <2>4. SendOK /\ LoopOK /\ FloodOK
    BY <2>1, <2>2 DEF SendOK, LoopOK, FloodOK
  <2>5. QueueOK /\ OrderOK
    BY <2>3 DEF QueueOK, OrderOK, Acked, Ascending, Before
  <2> QED
    BY <2>1, <2>4, <2>5 DEF Inv
<1>2. Inv /\ [Next]_vars => Inv'
  <2> SUFFICES ASSUME Inv, [Next]_vars PROVE Inv'
    OBVIOUS
  <2>1. TypeOK /\ SendOK /\ LoopOK /\ FloodOK /\ QueueOK /\ OrderOK
    BY DEF Inv
  <2>2. Kept /\ Moves
    BY <2>1, StepFacts
  <2>3. TypeOK'
    BY <2>1, TypeStep
  <2>4. SendOK' /\ LoopOK' /\ FloodOK'
    BY <2>1, SendStep, LoopStep, FloodStep
  <2>5. QueueOK' /\ OrderOK'
    BY <2>1, <2>2, QueueStep
  <2> QED
    BY <2>3, <2>4, <2>5 DEF Inv
<1> QED
  BY <1>1, <1>2, PTL DEF Spec

\* What one process sends to another is handled in the order it was sent
\* (client.js:24-34 is awaited, async-semaphore.js:3-20 is FIFO).
THEOREM InOrderHolds == Spec => []InOrder
<1>1. Inv => InOrder
  <2> SUFFICES ASSUME Inv, NEW n \in Node,
                      NEW i \in 1..Len(handled[n]), NEW j \in 1..Len(handled[n]),
                      conn[handled[n][i]].type = "algorithm",
                      conn[handled[n][j]].type = "algorithm",
                      conn[handled[n][i]].from \in Node,
                      conn[handled[n][i]].from = conn[handled[n][j]].from,
                      handled[n][i] < handled[n][j]
               PROVE  i < j
    BY DEF InOrder
  <2>1. Ascending(handled[n]) /\ handled[n] \in Seq(Index)
    BY DEF Inv, OrderOK, TypeOK
  <2>2. PICK c \in Index : c = handled[n][i]
    BY <2>1
  <2>3. PICK d \in Index : d = handled[n][j]
    BY <2>1
  <2>4. c \in Int /\ d \in Int /\ i \in Int /\ j \in Int
    BY <2>1 DEF Inv, TypeOK, Index
  <2>5. PICK m \in Node : Algorithm(c, m) /\ Algorithm(d, m)
    BY <2>2, <2>3 DEF Algorithm
  <2>6. ASSUME j < i PROVE FALSE
    <3>1. Earlier(d, c)
      BY <2>1, <2>2, <2>3, <2>6 DEF Ascending
    <3>2. d < c
      BY <3>1, <2>5 DEF Earlier
    <3> QED
      BY <3>2, <2>2, <2>3, <2>4
  <2>7. i # j
    BY <2>2, <2>3, <2>4
  <2> QED
    BY <2>4, <2>6, <2>7
<1> QED
  BY <1>1, Invariance, PTL
=============================================================================
