--------------------------- MODULE ElectionProofs ---------------------------
(***************************************************************************)
(* Proofs about the election (Election), for every network, every number   *)
(* of feedbacks a candidate waits for, all draws of the candidates and any *)
(* number of lost messages.                                                *)
(***************************************************************************)
EXTENDS ElectionInvariant, ConfidenceProofs, FiniteSetTheorems, TLAPS

-----------------------------------------------------------------------------
(* Numbers, ids and queues.                                                *)

LEMMA Multiples ==
  ASSUME NEW r \in Nat \ {0}, NEW a \in Int, a > 0
  PROVE  r * a >= r
OBVIOUS

LEMMA Division ==
  ASSUME NEW n \in Nat, NEW r \in Nat \ {0}
  PROVE  n \div r \in Int /\ n % r \in 0..(r - 1) /\ n = r * (n \div r) + (n % r)
OBVIOUS

LEMMA Unique ==
  ASSUME NEW r \in Nat \ {0}, NEW a \in Int, NEW b \in Int, NEW x \in 0..(r - 1), NEW y \in 0..(r - 1), r * a + x = r * b + y
  PROVE  a = b /\ x = y
<1>1. r * (a - b) = y - x
  OBVIOUS
<1>2. ~(a - b > 0)
  BY <1>1, Multiples
<1>3. r * (b - a) = x - y
  OBVIOUS
<1>4. ~(b - a > 0)
  BY <1>3, Multiples
<1>5. a = b
  BY <1>2, <1>4
<1> QED
  BY <1>5, <1>1

LEMMA ModSuccessor ==
  ASSUME NEW n \in Nat, NEW r \in Nat \ {0}
  PROVE  /\ n % r \in 0..(r - 1)
         /\ (n + 1) % r = IF n % r = r - 1 THEN 0 ELSE (n % r) + 1
<1> DEFINE q == n \div r
           x == n % r
           p == (n + 1) \div r
           y == (n + 1) % r
<1>1. q \in Int /\ x \in 0..(r - 1) /\ n = r * q + x
  BY Division
<1>2. p \in Int /\ y \in 0..(r - 1) /\ n + 1 = r * p + y
  BY Division
<1> HIDE DEF q, x, p, y
<1>3. CASE x = r - 1
  <2>1. r * p + y = r * (q + 1) + 0
    BY <1>1, <1>2, <1>3
  <2>2. y = 0
    BY <2>1, <1>1, <1>2, Unique
  <2> QED
    BY <2>2, <1>3, <1>1 DEF x, y
<1>4. CASE x # r - 1
  <2>1. r * p + y = r * q + (x + 1) /\ x + 1 \in 0..(r - 1)
    BY <1>1, <1>2, <1>4
  <2>2. y = x + 1
    BY <2>1, <1>1, <1>2, Unique
  <2> QED
    BY <2>2, <1>4, <1>1 DEF x, y
<1> QED
  BY <1>3, <1>4

LEMMA IdFacts ==
  /\ \A id \in Id : id[1] \in Candidate /\ id[2] \in 1..MaxActivities /\ id = <<id[1], id[2]>>
  /\ \A c \in Candidate, k \in 1..MaxActivities : <<c, k>> \in Id
  /\ Candidate \subseteq Node /\ Voter \subseteq Node
  /\ \A v \in Voter, c \in Candidate : v # c /\ v \notin Candidate /\ c \notin Voter
BY ElectionAssumption DEF Id, Node

LEMMA MessageFacts ==
  ASSUME NEW m \in Message
  PROVE  /\ m.id \in Id /\ m.from \in Node
         /\ m = [id |-> m.id, from |-> m.from]
         /\ m.id[1] \in Candidate
BY IdFacts DEF Message

LEMMA AppendQueue ==
  ASSUME NEW S, NEW q \in Seq(S), NEW m \in S
  PROVE  /\ Append(q, m) \in Seq(S)
         /\ \A x : InSeq(x, Append(q, m)) <=> InSeq(x, q) \/ x = m
         /\ NoRepetition(q) /\ ~InSeq(m, q) => NoRepetition(Append(q, m))
<1>1. /\ Append(q, m) \in Seq(S)
      /\ Len(q) \in Nat /\ Len(Append(q, m)) = Len(q) + 1
      /\ \A i \in 1..Len(q) : Append(q, m)[i] = q[i]
      /\ Append(q, m)[Len(q) + 1] = m
  OBVIOUS
<1> DEFINE a == Append(q, m)
           l == Len(q)
<1> HIDE DEF a
<1>2. ASSUME NEW x PROVE InSeq(x, a) <=> InSeq(x, q) \/ x = m
  BY <1>1 DEF InSeq, a
<1>3. NoRepetition(q) /\ ~InSeq(m, q) => NoRepetition(a)
  BY <1>1 DEF InSeq, NoRepetition, a
<1> QED
  BY <1>1, <1>2, <1>3 DEF a

LEMMA TailQueue ==
  ASSUME NEW S, NEW q \in Seq(S), q # <<>>
  PROVE  /\ Head(q) \in S /\ Tail(q) \in Seq(S)
         /\ \A x : InSeq(x, q) <=> x = Head(q) \/ InSeq(x, Tail(q))
         /\ NoRepetition(q) => NoRepetition(Tail(q)) /\ ~InSeq(Head(q), Tail(q))
<1>1. /\ Tail(q) \in Seq(S)
      /\ Len(q) \in Nat \ {0}
      /\ Len(Tail(q)) = Len(q) - 1
      /\ \A i \in 1..Len(Tail(q)) : Tail(q)[i] = q[i + 1]
      /\ Head(q) = q[1] /\ Head(q) \in S
  OBVIOUS
<1> DEFINE t == Tail(q)
           h == Head(q)
<1> HIDE DEF t, h
<1>2. ASSUME NEW x PROVE InSeq(x, q) <=> x = h \/ InSeq(x, t)
  <2>1. InSeq(x, t) => InSeq(x, q)
    BY <1>1 DEF InSeq, t
  <2>2. x = h => InSeq(x, q)
    BY <1>1 DEF InSeq, h
  <2>3. ASSUME NEW i \in 1..Len(q), q[i] = x PROVE x = h \/ InSeq(x, t)
    <3>1. CASE i = 1
      BY <1>1, <2>3, <3>1 DEF h
    <3>2. CASE i # 1
      <4>1. i - 1 \in 1..Len(t) /\ t[i - 1] = q[i]
        BY <1>1, <3>2 DEF t
      <4> QED
        BY <2>3, <4>1 DEF InSeq
    <3> QED
      BY <3>1, <3>2
  <2> QED
    BY <2>1, <2>2, <2>3 DEF InSeq
<1>3. NoRepetition(q) => NoRepetition(t) /\ ~InSeq(h, t)
  BY <1>1 DEF InSeq, NoRepetition, t, h
<1> QED
  BY <1>1, <1>2, <1>3 DEF t, h

-----------------------------------------------------------------------------
(* Constants and types.                                                    *)

LEMMA ConstantFacts ==
  /\ \A n \in Node : Neighbors[n] \in SUBSET Node /\ Friends[n] \in SUBSET Voter
  /\ \A c \in Candidate : Receives[c] \in Nat \ {0}
  /\ \A v \in Voter : Supported(v) \in SUBSET Candidate
  /\ NoId \notin Id
  /\ \A l \in Limits, c \in Candidate :
       /\ l.draws[c] \in Seq(Draw) /\ Len(l.draws[c]) \in Nat
       /\ Len(l.draws[c]) <= MaxActivities
  /\ \A l \in Limits : l.faults \in Nat
  /\ MaxActivities \in Nat /\ IsFiniteSet(Voter)
<1>1. \A n \in Node : Neighbors[n] \in SUBSET Node /\ Friends[n] \in SUBSET Voter
  BY ElectionAssumption DEF Friends, Node
<1>2. \A v \in Voter : Supported(v) \in SUBSET Candidate
  <2> TAKE v \in Voter
  <2> DEFINE candidates == Neighbors[v] \cap Candidate
  <2>1. CASE candidates = {}
    BY <2>1 DEF Supported
  <2>2. CASE candidates # {}
    <3>1. (CHOOSE c \in candidates : TRUE) \in candidates
      BY <2>2
    <3> QED
      BY <2>2, <3>1 DEF Supported
  <2> QED
    BY <2>1, <2>2
<1>3. ASSUME NEW l \in Limits, NEW c \in Candidate
      PROVE  /\ l.draws[c] \in Seq(Draw) /\ Len(l.draws[c]) \in Nat
             /\ Len(l.draws[c]) <= MaxActivities /\ l.faults \in Nat
  <2>1. l \in [draws : [Candidate -> Seq(Draw)], faults : Nat]
    BY ElectionAssumption
  <2>2. l.draws \in [Candidate -> Seq(Draw)] /\ l.faults \in Nat
    BY <2>1
  <2>3. l.draws[c] \in Seq(Draw)
    BY <2>2
  <2> QED
    BY <2>2, <2>3, ElectionAssumption
<1>4. 1 \in Candidate
  BY DEF Candidate
<1>5. /\ \A c \in Candidate : Receives[c] \in Nat \ {0}
      /\ NoId \notin Id /\ MaxActivities \in Nat /\ IsFiniteSet(Voter)
  BY ElectionAssumption
<1> QED
  BY <1>1, <1>2, <1>3, <1>4, <1>5

\* The number of the activity a candidate is in.
LEMMA LastActivity ==
  ASSUME TypeOK, NEW c \in Candidate
  PROVE  /\ started[c] \in Nat /\ started[c] <= MaxActivities
         /\ started[c] > 0 => <<c, started[c]>> \in Id
         /\ started[c] < Len(limit.draws[c]) =>
              started[c] + 1 \in 1..MaxActivities /\ <<c, started[c] + 1>> \in Id
<1>1. started[c] \in Nat /\ started[c] <= Len(limit.draws[c]) /\ limit \in Limits
  BY DEF TypeOK
<1>2. Len(limit.draws[c]) \in Nat /\ Len(limit.draws[c]) <= MaxActivities /\ MaxActivities \in Nat
  BY <1>1, ConstantFacts
<1> QED
  BY <1>1, <1>2, IdFacts

-----------------------------------------------------------------------------
(* A candidate starts a campaign or a rumor: what HandleInit, Callback and *)
(* CountFeedback have in common.                                           *)

StartedTask(c) ==
  /\ task' \in [Node -> Task]
  /\ task'[c].pc \in {"idle", "tell"}
  /\ \A n \in Node : n # c => task'[n] = task[n]

StartedCampaign(c, id) ==
  /\ kind' = [kind EXCEPT ![id] = "campaign"]
  /\ current' = [current EXCEPT ![c] = NoId]
  /\ informed' = [informed EXCEPT ![id] = {c}]
  /\ UNCHANGED <<unsent, believers>>

StartedRumor(c, id) ==
  /\ kind' = [kind EXCEPT ![id] = "rumor"]
  /\ current' = [current EXCEPT ![c] = id]
  /\ unsent' = [unsent EXCEPT ![c][id] = Friends[c]]
  /\ believers' = [believers EXCEPT ![id] = {c}]
  /\ UNCHANGED informed

ActivityStarted(c) ==
  LET id == <<c, started[c] + 1>> IN
  /\ id \in Id /\ started[c] + 1 \in 1..MaxActivities /\ kind[id] = "none"
  /\ started[c] + 1 <= Len(limit.draws[c])
  /\ started' = [started EXCEPT ![c] = started[c] + 1]
  /\ StartedTask(c)
  /\ complete' = complete
  /\ StartedCampaign(c, id) \/ StartedRumor(c, id)

LEMMA TellingType ==
  ASSUME NEW n \in Node, NEW id \in Id, NEW S
  PROVE  Telling(n, id, S) \in Task /\ Telling(n, id, S).pc \in {"idle", "tell"}
BY DEF Telling, Task, Idle

LEMMA StartActivityEffect ==
  ASSUME TypeOK, ActivityOK, NEW c \in Candidate, NEW awaited \in BOOLEAN,
         StartActivity(c, awaited), limit' = limit
  PROVE  ActivityStarted(c)
<1> DEFINE id == <<c, started[c] + 1>>
<1>1. started[c] < Len(limit.draws[c]) /\ started' = [started EXCEPT ![c] = started[c] + 1]
  BY DEF StartActivity
<1>2. id \in Id /\ started[c] + 1 \in 1..MaxActivities /\ started[c] \in Nat
  BY <1>1, LastActivity
<1>3. kind[id] = "none"
  BY <1>2 DEF ActivityOK
<1>4. started[c] + 1 <= Len(limit.draws[c])
  <2>1. Len(limit.draws[c]) \in Nat
    BY ConstantFacts DEF TypeOK
  <2> QED
    BY <1>1, <1>2, <2>1
<1>5. c \in Node /\ task \in [Node -> Task]
  BY IdFacts DEF TypeOK
<1>6. Idle \in Task /\ Idle.pc = "idle"
  BY DEF Idle, Task
<1>7. CASE SendsCampaign(c) /\ StartCampaign(c, id)
  <2>1. /\ kind' = [kind EXCEPT ![id] = "campaign"]
        /\ current' = [current EXCEPT ![c] = NoId]
        /\ task' = [task EXCEPT ![c] = Idle]
        /\ informed' = [informed EXCEPT ![id] = {[i \in Id |-> i[1]][id]}]
        /\ complete' = complete
        /\ UNCHANGED <<unsent, believers>>
    BY <1>7 DEF StartCampaign, ResetRumor, Campaigns!Begin
  <2>2. StartedCampaign(c, id)
    BY <1>2, <2>1 DEF StartedCampaign
  <2>3. StartedTask(c)
    BY <1>5, <1>6, <2>1 DEF StartedTask
  <2> QED
    BY <1>1, <1>2, <1>3, <1>4, <2>1, <2>2, <2>3 DEF ActivityStarted
<1>8. CASE ~SendsCampaign(c) /\ StartRumor(c, id, IF awaited THEN Telling(c, id, Friends[c]) ELSE Idle)
  <2> DEFINE next == IF awaited THEN Telling(c, id, Friends[c]) ELSE Idle
  <2>1. next \in Task /\ next.pc \in {"idle", "tell"}
    BY <1>2, <1>5, <1>6, TellingType
  <2> HIDE DEF next
  <2>2. StartRumor(c, id, next)
    BY <1>8 DEF next
  <2>3. StartedRumor(c, id) /\ complete' = complete
    BY <2>2 DEF StartRumor, StartedRumor, campaignVars
  <2>4. task' = [task EXCEPT ![c] = next]
    BY <2>2 DEF StartRumor
  <2>5. StartedTask(c)
    BY <1>5, <2>1, <2>4 DEF StartedTask
  <2> QED
    BY <1>1, <1>2, <1>3, <1>4, <2>3, <2>5 DEF ActivityStarted
<1> QED
  BY <1>7, <1>8 DEF StartActivity

LEMMA StartKeepsActivity ==
  ASSUME TypeOK, ActivityOK, CurrentOK, NEW c \in Candidate, ActivityStarted(c),
         started[c] > 0 /\ kind[<<c, started[c]>>] = "campaign" => complete[<<c, started[c]>>]
  PROVE  ActivityOK' /\ CurrentOK'
<1> DEFINE new == <<c, started[c] + 1>>
<1>1. /\ started \in [Candidate -> Nat] /\ kind \in [Id -> Draw \cup {"none"}]
      /\ current \in [Candidate -> Id \cup {NoId}] /\ informed \in [Id -> SUBSET Node]
  BY DEF TypeOK
<1>2. /\ new \in Id /\ started[c] + 1 \in 1..MaxActivities /\ kind[new] = "none"
      /\ started' = [started EXCEPT ![c] = started[c] + 1] /\ complete' = complete
      /\ StartedCampaign(c, new) \/ StartedRumor(c, new)
  BY DEF ActivityStarted
<1>3. \A d \in Candidate, k \in 1..MaxActivities : <<d, k>> \in Id /\ (<<d, k>> = new <=> d = c /\ k = started[c] + 1)
  BY IdFacts
<1>4. /\ started'[c] = started[c] + 1
      /\ \A d \in Candidate : d # c => started'[d] = started[d] /\ current'[d] = current[d]
      /\ \A id \in Id : id # new => kind'[id] = kind[id] /\ informed'[id] = informed[id]
      /\ \/ kind'[new] = "campaign" /\ current'[c] = NoId
         \/ kind'[new] = "rumor" /\ current'[c] = new /\ informed'[new] = informed[new]
  BY <1>1, <1>2 DEF StartedCampaign, StartedRumor
<1>5. ActivityOK'
  <2> SUFFICES ASSUME NEW d \in Candidate, NEW k \in 1..MaxActivities
               PROVE  LET id == <<d, k>> IN
                      /\ kind'[id] # "none" <=> k <= started'[d]
                      /\ kind'[id] = "campaign" /\ k < started'[d] => complete'[id]
                      /\ kind'[id] = "rumor" /\ k = started'[d] => current'[d] = id
                      /\ informed'[id] # {} \/ complete'[id] => kind'[id] = "campaign"
    BY DEF ActivityOK
  <2> DEFINE id == <<d, k>>
  <2>1. /\ kind[id] # "none" <=> k <= started[d]
        /\ kind[id] = "campaign" /\ k < started[d] => complete[id]
        /\ kind[id] = "rumor" /\ k = started[d] => current[d] = id
        /\ informed[id] # {} \/ complete[id] => kind[id] = "campaign"
    BY DEF ActivityOK
  <2>2. CASE d = c /\ k = started[c] + 1
    BY <1>2, <1>3, <1>4, <2>1, <2>2
  <2>3. CASE d = c /\ k # started[c] + 1
    <3>1. kind'[id] = kind[id] /\ informed'[id] = informed[id] /\ complete'[id] = complete[id] /\ started'[d] = started[c] + 1
      BY <1>2, <1>3, <1>4, <2>3
    <3>2. k <= started[c] <=> k <= started[c] + 1
      BY <1>1, <2>3
    <3>3. k < started[c] + 1 => k < started[c] \/ k = started[c]
      BY <1>1
    <3> QED
      BY <2>1, <2>3, <3>1, <3>2, <3>3
  <2>4. CASE d # c
    <3>1. /\ kind'[id] = kind[id] /\ informed'[id] = informed[id] /\ complete'[id] = complete[id]
          /\ started'[d] = started[d] /\ current'[d] = current[d]
      BY <1>2, <1>3, <1>4, <2>4
    <3> QED
      BY <2>1, <3>1
  <2> QED
    BY <2>2, <2>3, <2>4
<1>6. CurrentOK'
  <2> SUFFICES ASSUME NEW d \in Candidate, current'[d] # NoId
               PROVE  started'[d] > 0 /\ current'[d] = <<d, started'[d]>> /\ kind'[current'[d]] = "rumor"
    BY DEF CurrentOK
  <2>1. CASE d = c
    BY <1>1, <1>4, <2>1
  <2>2. CASE d # c
    <3>1. current[d] # NoId /\ started[d] > 0 /\ current[d] = <<d, started[d]>> /\ kind[current[d]] = "rumor"
      BY <1>4, <2>2 DEF CurrentOK
    <3>2. current[d] \in Id /\ current[d] # new
      BY <1>1, <1>2, <3>1, <2>2
    <3> QED
      BY <1>4, <2>2, <3>1, <3>2
  <2> QED
    BY <2>1, <2>2
<1> QED
  BY <1>5, <1>6

LEMMA StartKeepsTypes ==
  ASSUME TypeOK, NEW c \in Candidate, ActivityStarted(c), limit' = limit,
         UNCHANGED <<voterVars, queue, feedback, faults>>,
         counter' \in [Candidate -> Nat], counted' \in [Id -> SUBSET Voter]
  PROVE  TypeOK'
<1>1. /\ started[c] + 1 <= Len(limit.draws[c]) /\ <<c, started[c] + 1>> \in Id
      /\ started' = [started EXCEPT ![c] = started[c] + 1] /\ complete' = complete /\ task' \in [Node -> Task]
      /\ StartedCampaign(c, <<c, started[c] + 1>>) \/ StartedRumor(c, <<c, started[c] + 1>>)
  BY DEF ActivityStarted, StartedTask
<1> DEFINE new == <<c, started[c] + 1>>
<1>2. c \in Node /\ Friends[c] \in SUBSET Voter
  BY IdFacts, ConstantFacts
<1>3. started' \in [Candidate -> Nat] /\ \A d \in Candidate : started'[d] <= Len(limit'.draws[d])
  BY <1>1 DEF TypeOK
<1>4. /\ kind' \in [Id -> Draw \cup {"none"}] /\ current' \in [Candidate -> Id \cup {NoId}]
      /\ informed' \in [Id -> SUBSET Node] /\ believers' \in [Id -> SUBSET Node]
  <2>1. /\ kind \in [Id -> Draw \cup {"none"}] /\ current \in [Candidate -> Id \cup {NoId}]
        /\ informed \in [Id -> SUBSET Node] /\ believers \in [Id -> SUBSET Node]
    BY DEF TypeOK
  <2>2. {c} \in SUBSET Node /\ "campaign" \in Draw /\ "rumor" \in Draw /\ new \in Id
    BY <1>1, <1>2 DEF Draw
  <2> HIDE DEF new
  <2>3. CASE StartedCampaign(c, new)
    BY <2>1, <2>2, <2>3 DEF StartedCampaign
  <2>4. CASE StartedRumor(c, new)
    BY <2>1, <2>2, <2>4 DEF StartedRumor
  <2> QED
    BY <1>1, <2>3, <2>4 DEF new
<1>5. unsent' \in [Node -> [Id -> SUBSET Voter]]
  <2>1. CASE unsent' = unsent
    BY <2>1 DEF TypeOK
  <2>2. CASE unsent' = [unsent EXCEPT ![c][new] = Friends[c]]
    <3>1. unsent \in [Node -> [Id -> SUBSET Voter]]
      BY DEF TypeOK
    <3> QED
      BY <1>1, <1>2, <2>2, <3>1
  <2> QED
    BY <1>1, <2>1, <2>2 DEF StartedCampaign, StartedRumor
<1>6. UNCHANGED <<level, tellers, queue, feedback, faults>>
  BY DEF voterVars
<1> QED
  BY <1>1, <1>3, <1>4, <1>5, <1>6 DEF TypeOK

LEMMA StartKeepsTask ==
  ASSUME TypeOK, TaskOK, NEW c \in Candidate, ActivityStarted(c)
  PROVE  TaskOK'
<1> DEFINE new == <<c, started[c] + 1>>
<1>1. /\ StartedTask(c) /\ complete' = complete
      /\ started' = [started EXCEPT ![c] = started[c] + 1]
      /\ StartedCampaign(c, new) \/ StartedRumor(c, new)
  BY DEF ActivityStarted
<1> HIDE DEF new
<1>2. SUFFICES ASSUME NEW d \in Candidate
               PROVE  /\ task'[d].pc = "count" =>
                           /\ task'[d].id = current'[d] /\ task'[d].id \in Id /\ task'[d].from \in Voter
                      /\ task'[d].pc = "callback" =>
                           started'[d] > 0 /\ task'[d].id = <<d, started'[d]>> /\ complete'[task'[d].id]
  BY DEF TaskOK
<1>3. CASE d = c
  BY <1>1, <1>3 DEF StartedTask
<1>4. CASE d # c
  <2>1. task'[d] = task[d]
    BY <1>1, <1>4, IdFacts DEF StartedTask
  <2>2. current'[d] = current[d] /\ started'[d] = started[d]
    BY <1>1, <1>4 DEF StartedCampaign, StartedRumor, TypeOK
  <2> QED
    BY <1>1, <2>1, <2>2 DEF TaskOK
<1> QED
  BY <1>3, <1>4

LEMMA StartKeepsSpread ==
  ASSUME TypeOK, SpreadOK, NEW c \in Candidate, ActivityStarted(c), UNCHANGED <<tellers, queue>>
  PROVE  SpreadOK'
<1> DEFINE new == <<c, started[c] + 1>>
<1>1. new \in Id /\ kind[new] = "none" /\ (StartedCampaign(c, new) \/ StartedRumor(c, new))
  BY DEF ActivityStarted
<1> HIDE DEF new
<1>2. believers[new] = {}
  BY <1>1 DEF SpreadOK
<1>3. c \in Node /\ c \notin Voter
  BY IdFacts
<1>4. /\ kind \in [Id -> Draw \cup {"none"}] /\ believers \in [Id -> SUBSET Node]
      /\ unsent \in [Node -> [Id -> SUBSET Voter]]
  BY DEF TypeOK
<1>5. \A v \in Voter : c \notin tellers[v][new]
  BY <1>1, <1>2 DEF SpreadOK
<1>6. \A v \in Voter, m \in Message : Queued(v, m) => m.id # new
  BY <1>2 DEF SpreadOK
<1>7. /\ \A id \in Id : Heard(id)' = Heard(id)
      /\ \A v \in Voter, m \in Message : Queued(v, m)' <=> Queued(v, m)
  BY DEF Heard, Queued
<1>8. CASE StartedCampaign(c, new)
  <2>1. UNCHANGED <<unsent, believers>> /\ kind' = [kind EXCEPT ![new] = "campaign"]
    BY <1>8 DEF StartedCampaign
  <2>2. \A id \in Id : believers'[id] # {} => kind'[id] = "rumor"
    BY <1>1, <1>2, <1>4, <2>1 DEF SpreadOK
  <2>3. \A n \in Node, id \in Id : \A v \in unsent[n][id] : v \in Voter /\ [id |-> id, from |-> n] \in Message
    BY <1>4 DEF Message
  <2> QED
    BY <1>7, <2>1, <2>2, <2>3 DEF SpreadOK
<1>9. CASE StartedRumor(c, new)
  <2>1. /\ kind' = [kind EXCEPT ![new] = "rumor"]
        /\ unsent' = [unsent EXCEPT ![c][new] = Friends[c]]
        /\ believers' = [believers EXCEPT ![new] = {c}]
    BY <1>9 DEF StartedRumor
  <2>2. /\ kind'[new] = "rumor" /\ believers'[new] = {c} /\ unsent'[c][new] = Friends[c]
        /\ \A id \in Id : id # new => kind'[id] = kind[id] /\ believers'[id] = believers[id]
        /\ \A n \in Node, id \in Id : n # c \/ id # new => unsent'[n][id] = unsent[n][id]
    BY <1>1, <1>3, <1>4, <2>1
  <2>3. \A id \in Id : believers'[id] # {} => kind'[id] = "rumor"
    BY <2>2 DEF SpreadOK
  <2>4. ASSUME NEW id \in Id, NEW v \in Voter
        PROVE  /\ v \in believers'[id] => v \in Heard(id)'
               /\ \A n \in tellers'[v][id] : n \in believers'[id] /\ v \in Friends[n]
    <3>1. CASE id = new
      BY <1>2, <1>3, <2>2, <3>1 DEF SpreadOK
    <3>2. CASE id # new
      BY <1>7, <2>2, <3>2 DEF SpreadOK
    <3> QED
      BY <3>1, <3>2
  <2>5. ASSUME NEW v \in Voter, NEW m \in Message, Queued(v, m)'
        PROVE  m.from \in believers'[m.id] /\ v \in Friends[m.from] /\ m.from \notin tellers'[v][m.id]
    <3>1. Queued(v, m) /\ m.id # new /\ m.id \in Id
      BY <1>6, <1>7, <2>5, MessageFacts
    <3> QED
      BY <2>2, <3>1 DEF SpreadOK
  <2>6. ASSUME NEW n \in Node, NEW id \in Id, NEW v \in unsent'[n][id]
        PROVE  /\ n \in believers'[id] /\ v \in Friends[n]
               /\ n \notin tellers'[v][id] /\ ~Queued(v, [id |-> id, from |-> n])'
    <3> DEFINE m == [id |-> id, from |-> n]
    <3>1. m \in Message /\ m.id = id
      BY DEF Message
    <3> HIDE DEF m
    <3>2. CASE n = c /\ id = new
      <4>1. v \in Friends[c] /\ v \in Voter
        BY <1>3, <2>2, <3>2, ConstantFacts
      <4>2. ~Queued(v, m)
        BY <1>6, <3>1, <3>2, <4>1
      <4> QED
        BY <1>5, <1>7, <2>2, <3>1, <3>2, <4>1, <4>2 DEF m
    <3>3. CASE ~(n = c /\ id = new)
      <4>1. v \in unsent[n][id] /\ v \in Voter
        BY <1>4, <2>2, <3>3
      <4>2. n \in believers[id] /\ v \in Friends[n] /\ n \notin tellers[v][id] /\ ~Queued(v, m)
        BY <4>1 DEF SpreadOK, m
      <4>3. id # new
        BY <1>2, <4>2
      <4> QED
        BY <1>7, <2>2, <3>1, <4>1, <4>2, <4>3 DEF m
    <3> QED
      BY <3>2, <3>3
  <2> QED
    BY <2>3, <2>4, <2>5, <2>6 DEF SpreadOK
<1> QED
  BY <1>1, <1>8, <1>9

\* The handlers change, but none that counts.
LEMMA TaskKeepsFeedback ==
  ASSUME TypeOK, FeedbackOK, UNCHANGED <<tellers, counted, queue, feedback>>,
         \A c \in Candidate : task'[c] = task[c] \/ (task[c].pc # "count" /\ task'[c].pc # "count")
  PROVE  FeedbackOK'
<1>1. /\ \A id \in Id : Heard(id)' = Heard(id)
      /\ \A m \in Message : NotCounted(m)' <=> NotCounted(m)
      /\ \A n \in Node, m \in Message : Queued(n, m)' <=> Queued(n, m)
  BY DEF Heard, NotCounted, Queued
<1>2. \A m \in Message : InHandler(m)' <=> InHandler(m)
  BY MessageFacts DEF InHandler
<1>3. \A m \in feedback : m \in Message /\ m.id[1] \in Node
  BY MessageFacts, IdFacts DEF TypeOK
<1> QED
  BY <1>1, <1>2, <1>3, IdFacts DEF FeedbackOK

LEMMA StartKeepsFeedback ==
  ASSUME TypeOK, FeedbackOK, NEW c \in Candidate, ActivityStarted(c), task[c].pc # "count",
         UNCHANGED <<counted, voterVars, queue, feedback>>
  PROVE  FeedbackOK'
<1>1. UNCHANGED <<tellers, queue, feedback, counted>>
  BY DEF voterVars
<1>2. task'[c].pc # "count" /\ \A n \in Candidate : n # c => task'[n] = task[n]
  BY IdFacts DEF ActivityStarted, StartedTask
<1> QED
  BY <1>1, <1>2, TaskKeepsFeedback

LEMMA SameSpread ==
  ASSUME TypeOK, SpreadOK, UNCHANGED <<kind, believers, tellers, queue, unsent>>
  PROVE  SpreadOK'
<1>1. /\ \A id \in Id : Heard(id)' = Heard(id)
      /\ \A n \in Voter, m \in Message : Queued(n, m)' <=> Queued(n, m)
  BY DEF Heard, Queued
<1>2. \A n \in Node, id \in Id : \A v \in unsent[n][id] : v \in Voter /\ [id |-> id, from |-> n] \in Message
  BY DEF TypeOK, Message
<1> QED
  BY <1>1, <1>2 DEF SpreadOK

LEMMA StartKeepsCounter ==
  ASSUME TypeOK, CurrentOK, CounterOK, NEW c \in Candidate, ActivityStarted(c),
         counter'[c] % Receives[c] = 0,
         \A d \in Candidate : d # c => counter'[d] = counter[d],
         \A id \in Id : id[1] # c => counted'[id] = counted[id],
         \A id \in Id : counted'[id] # {} => kind[id] = "rumor",
         \A k \in 1..MaxActivities :
           k <= started[c] /\ kind[<<c, k>>] = "rumor" => Cardinality(counted'[<<c, k>>]) = Receives[c]
  PROVE  CounterOK'
<1> DEFINE new == <<c, started[c] + 1>>
<1>1. /\ new \in Id /\ kind[new] = "none" /\ started[c] + 1 \in 1..MaxActivities
      /\ started' = [started EXCEPT ![c] = started[c] + 1]
      /\ StartedCampaign(c, new) \/ StartedRumor(c, new)
  BY DEF ActivityStarted
<1>2. /\ kind \in [Id -> Draw \cup {"none"}] /\ current \in [Candidate -> Id \cup {NoId}]
      /\ started \in [Candidate -> Nat]
  BY DEF TypeOK
<1>3. counted'[new] = {}
  BY <1>1
<1>4. /\ started'[c] = started[c] + 1
      /\ current'[c] \in {new, NoId}
      /\ \A d \in Candidate : d # c => started'[d] = started[d] /\ current'[d] = current[d]
      /\ \A id \in Id : id # new => kind'[id] = kind[id]
  BY <1>1, <1>2 DEF StartedCampaign, StartedRumor
<1>5. \A id \in Id : counted'[id] # {} => kind'[id] = "rumor"
  BY <1>3, <1>4
<1>6. ASSUME NEW d \in Candidate
      PROVE  /\ current'[d] = NoId => counter'[d] % Receives[d] = 0
             /\ current'[d] # NoId => counter'[d] % Receives[d] = Cardinality(counted'[current'[d]])
  <2>1. CASE d = c
    BY <1>3, <1>4, <2>1, FS_EmptySet
  <2>2. CASE d # c
    <3>1. current'[d] = current[d] /\ counter'[d] = counter[d]
      BY <1>4, <2>2
    <3>2. CASE current[d] # NoId
      <4>1. current[d] \in Id
        BY <1>2, <3>2
      <4>2. current[d][1] = d
        BY <3>2 DEF CurrentOK
      <4> QED
        BY <2>2, <3>1, <3>2, <4>1, <4>2 DEF CounterOK
    <3> QED
      BY <3>1, <3>2 DEF CounterOK
  <2> QED
    BY <2>1, <2>2
<1>7. ASSUME NEW d \in Candidate, NEW k \in 1..MaxActivities, k < started'[d], kind'[<<d, k>>] = "rumor"
      PROVE  Cardinality(counted'[<<d, k>>]) = Receives[d]
  <2>1. <<d, k>> \in Id /\ (<<d, k>> = new <=> d = c /\ k = started[c] + 1) /\ <<d, k>>[1] = d
    BY IdFacts
  <2>2. <<d, k>> # new
    BY <1>4, <1>7, <2>1
  <2>3. kind[<<d, k>>] = "rumor"
    BY <1>4, <1>7, <2>1, <2>2
  <2>4. CASE d = c
    BY <1>2, <1>4, <1>7, <2>3, <2>4
  <2>5. CASE d # c
    BY <1>4, <1>7, <2>1, <2>3, <2>5 DEF CounterOK
  <2> QED
    BY <2>4, <2>5
<1> QED
  BY <1>5, <1>6, <1>7 DEF CounterOK

-----------------------------------------------------------------------------
(* The invariant holds at first, and the steps of the candidates keep it.  *)

LEMMA InvInit ==
  Init => Inv
<1> SUFFICES ASSUME Init PROVE Inv
  OBVIOUS
<1>1. Idle \in Task /\ Idle.pc = "idle"
  BY DEF Idle, Task
<1>2. \A n \in Node : task[n] = Idle /\ queue[n] = <<>>
  BY DEF Init
<1>3. /\ informed = [id \in Id |-> {}] /\ complete = [id \in Id |-> FALSE]
  BY DEF Init, Campaigns!Init
<1>4. \A n \in Node : \A m : ~InSeq(m, queue[n])
  BY <1>2 DEF InSeq
<1>5. \A c \in Candidate : ActivityOK /\ CurrentOK
  BY <1>3, IdFacts, ConstantFacts DEF Init, ActivityOK, CurrentOK
<1>6. TypeOK
  <2>1. level \in [Voter -> Opinion] /\ limit \in Limits
    BY DEF Init
  <2>2. \A c \in Candidate : started[c] = 0 /\ started[c] <= Len(limit.draws[c])
    BY <2>1, ConstantFacts DEF Init
  <2>3. /\ started \in [Candidate -> Nat] /\ kind \in [Id -> Draw \cup {"none"}]
        /\ current \in [Candidate -> Id \cup {NoId}] /\ counter \in [Candidate -> Nat]
        /\ tellers \in [Voter -> [Id -> SUBSET Node]] /\ task \in [Node -> Task]
        /\ unsent \in [Node -> [Id -> SUBSET Voter]]
        /\ feedback \in SUBSET Message /\ faults \in Nat
        /\ counted \in [Id -> SUBSET Voter] /\ believers \in [Id -> SUBSET Node]
    BY <1>1 DEF Init
  <2>4. queue \in [Node -> Seq(Message)]
    <3>1. <<>> \in Seq(Message)
      OBVIOUS
    <3> QED
      BY <3>1 DEF Init
  <2> QED
    BY <1>3, <2>1, <2>2, <2>3, <2>4 DEF TypeOK
<1>7. TaskOK
  BY <1>1, <1>2, IdFacts DEF TaskOK
<1>8. QueueOK
  BY <1>2 DEF QueueOK, NoRepetition
<1>9. FeedbackOK
  <2>1. \A m \in Message : ~InHandler(m)
    BY <1>1, <1>2, MessageFacts, IdFacts DEF InHandler
  <2>2. feedback = {} /\ \A id \in Id : counted[id] = {}
    BY DEF Init
  <2> QED
    BY <1>4, <2>1, <2>2, IdFacts DEF FeedbackOK, Queued
<1>10. CounterOK
  <2>1. \A id \in Id : counted[id] = {}
    BY DEF Init
  <2>2. \A c \in Candidate : counter[c] = 0 /\ current[c] = NoId /\ started[c] = 0
    BY DEF Init
  <2>3. \A c \in Candidate : 0 % Receives[c] = 0
    BY ConstantFacts
  <2> QED
    BY <2>1, <2>2, <2>3 DEF CounterOK
<1>11. SpreadOK
  <2>1. /\ \A id \in Id : believers[id] = {}
        /\ \A v \in Voter, id \in Id : tellers[v][id] = {}
        /\ \A n \in Node, id \in Id : unsent[n][id] = {}
    BY DEF Init
  <2> QED
    BY <1>4, <2>1, IdFacts DEF SpreadOK, Queued, Heard
<1>12. SupporterOK
  <2> SUFFICES ASSUME NEW v \in Voter, NEW c \in Candidate, c \in Supported(v)
               PROVE  level[v] = SupporterOpinion(c)
    BY DEF SupporterOK
  <2>1. Supported(v) = {c}
    BY DEF Supported
  <2>2. level[v] \in FirstOpinions(v)
    BY DEF Init
  <2> QED
    BY <2>1, <2>2 DEF FirstOpinions
<1>13. 1 \in Candidate
  BY DEF Candidate
<1> QED
  BY <1>5, <1>6, <1>7, <1>8, <1>9, <1>10, <1>11, <1>12, <1>13 DEF Inv

LEMMA HandleInitKeepsInv ==
  ASSUME Inv, NEW c \in Candidate, HandleInit(c), limit' = limit
  PROVE  Inv'
<1>1. /\ TypeOK /\ ActivityOK /\ CurrentOK /\ TaskOK /\ QueueOK
      /\ FeedbackOK /\ CounterOK /\ SpreadOK /\ SupporterOK
  BY DEF Inv
<1>2. /\ started[c] = 0 /\ task[c] = Idle /\ StartActivity(c, TRUE)
      /\ UNCHANGED <<counter, counted, voterVars, queue, feedback, faults>>
  BY DEF HandleInit
<1>3. ActivityStarted(c)
  BY <1>1, <1>2, StartActivityEffect
<1>4. ActivityOK' /\ CurrentOK'
  <2>1. ~(started[c] > 0)
    BY <1>2
  <2> QED
    BY <1>1, <1>3, <2>1, StartKeepsActivity
<1>5. TypeOK' /\ TaskOK' /\ SpreadOK'
  <2>1. counter' \in [Candidate -> Nat] /\ counted' \in [Id -> SUBSET Voter]
    BY <1>1, <1>2 DEF TypeOK
  <2>2. UNCHANGED <<tellers, queue>>
    BY <1>2 DEF voterVars
  <2> QED
    BY <1>1, <1>2, <1>3, <2>1, <2>2, StartKeepsTypes, StartKeepsTask, StartKeepsSpread
<1>6. CounterOK'
  <2>1. current[c] = NoId
    BY <1>1, <1>2 DEF CurrentOK
  <2>2. \A k \in 1..MaxActivities : ~(k <= started[c])
    BY <1>2
  <2> QED
    BY <1>1, <1>2, <1>3, <2>1, <2>2, StartKeepsCounter DEF CounterOK
<1>7. FeedbackOK'
  <2>1. task[c].pc # "count"
    BY <1>2 DEF Idle
  <2> QED
    BY <1>1, <1>2, <1>3, <2>1, StartKeepsFeedback
<1>8. QueueOK' /\ SupporterOK'
  BY <1>1, <1>2 DEF QueueOK, SupporterOK, voterVars
<1> QED
  BY <1>4, <1>5, <1>6, <1>7, <1>8 DEF Inv

LEMMA CompleteCampaignKeepsInv ==
  ASSUME Inv, NEW c \in Candidate, NEW id \in Id, CompleteCampaign(c, id), limit' = limit
  PROVE  Inv'
<1>1. /\ TypeOK /\ ActivityOK /\ CurrentOK /\ TaskOK /\ QueueOK
      /\ FeedbackOK /\ CounterOK /\ SpreadOK /\ SupporterOK
  BY DEF Inv
<1> DEFINE next == [pc |-> "callback", id |-> id, from |-> c]
<1>2. /\ id[1] = c /\ task[c] = Idle
      /\ ~complete[id] /\ informed[id] = Node
      /\ complete' = [complete EXCEPT ![id] = TRUE] /\ informed' = informed
      /\ task' = [task EXCEPT ![c] = next]
      /\ UNCHANGED <<candidateVars, voterVars, queue, unsent, feedback, faults, believers>>
  BY DEF CompleteCampaign, Campaigns!Finish
<1>3. c \in Node /\ next \in Task /\ next.pc = "callback" /\ next.id = id
  BY IdFacts DEF Task
<1> HIDE DEF next
<1>4. UNCHANGED <<started, kind, current, counter, counted, level, tellers>>
  BY <1>2 DEF candidateVars, voterVars
<1>5. /\ task \in [Node -> Task] /\ complete \in [Id -> BOOLEAN] /\ started[c] \in Nat
  BY <1>1 DEF TypeOK
<1>6. /\ task'[c] = next /\ \A n \in Node : n # c => task'[n] = task[n]
      /\ complete'[id] = TRUE /\ \A i \in Id : i # id => complete'[i] = complete[i]
      /\ task' \in [Node -> Task] /\ complete' \in [Id -> BOOLEAN]
  BY <1>2, <1>3, <1>5
<1>7. kind[id] = "campaign" /\ id = <<c, started[c]>> /\ started[c] > 0
  <2> DEFINE k == id[2]
  <2>1. k \in 1..MaxActivities /\ id = <<c, k>>
    BY <1>2, IdFacts
  <2>2. kind[id] = "campaign"
    BY <1>1, <1>2, <1>3, <2>1 DEF ActivityOK
  <2>3. k <= started[c] /\ ~(k < started[c])
    BY <1>1, <1>2, <2>1, <2>2 DEF ActivityOK
  <2> QED
    BY <1>5, <2>1, <2>2, <2>3
<1>8. TypeOK'
  BY <1>1, <1>2, <1>4, <1>6 DEF TypeOK
<1>9. ActivityOK'
  BY <1>1, <1>2, <1>4, <1>6, <1>7, IdFacts DEF ActivityOK
<1>10. TaskOK'
  <2> SUFFICES ASSUME NEW d \in Candidate
               PROVE  /\ task'[d].pc = "count" =>
                           /\ task'[d].id = current'[d] /\ task'[d].id \in Id /\ task'[d].from \in Voter
                      /\ task'[d].pc = "callback" =>
                           started'[d] > 0 /\ task'[d].id = <<d, started'[d]>> /\ complete'[task'[d].id]
    BY DEF TaskOK
  <2>1. CASE d = c
    BY <1>3, <1>4, <1>6, <1>7, <2>1
  <2>2. CASE d # c
    <3>1. task'[d] = task[d] /\ (task[d].pc = "callback" => task[d].id # id)
      BY <1>1, <1>2, <1>6, <1>7, <2>2, IdFacts DEF TaskOK
    <3>2. task[d].pc = "callback" => task[d].id \in Id
      BY <1>1, LastActivity DEF TaskOK
    <3> QED
      BY <1>1, <1>4, <1>6, <3>1, <3>2 DEF TaskOK
  <2> QED
    BY <2>1, <2>2
<1>11. FeedbackOK'
  <2>1. \A d \in Candidate : task'[d] = task[d] \/ (task[d].pc # "count" /\ task'[d].pc # "count")
    BY <1>2, <1>3, <1>6, IdFacts DEF Idle
  <2> QED
    BY <1>1, <1>2, <1>4, <2>1, TaskKeepsFeedback
<1>12. SpreadOK'
  BY <1>1, <1>2, <1>4, SameSpread
<1>13. CurrentOK' /\ QueueOK' /\ CounterOK' /\ SupporterOK'
  BY <1>1, <1>2, <1>4 DEF CurrentOK, QueueOK, CounterOK, SupporterOK
<1> QED
  BY <1>8, <1>9, <1>10, <1>11, <1>12, <1>13 DEF Inv

LEMMA CallbackKeepsInv ==
  ASSUME Inv, NEW c \in Candidate, Callback(c), limit' = limit
  PROVE  Inv'
<1>1. /\ TypeOK /\ ActivityOK /\ CurrentOK /\ TaskOK /\ QueueOK
      /\ FeedbackOK /\ CounterOK /\ SpreadOK /\ SupporterOK
  BY DEF Inv
<1>2. /\ task[c].pc = "callback" /\ StartActivity(c, FALSE)
      /\ UNCHANGED <<counter, counted, voterVars, queue, feedback, faults>>
  BY DEF Callback
<1> DEFINE last == <<c, started[c]>>
<1>3. started[c] > 0 /\ complete[last] /\ last \in Id /\ started[c] \in 1..MaxActivities
  <2>1. started[c] > 0 /\ complete[last]
    BY <1>1, <1>2 DEF TaskOK
  <2>2. started[c] \in Nat /\ started[c] <= MaxActivities
    BY <1>1, LastActivity
  <2>3. started[c] \in 1..MaxActivities
    BY <2>1, <2>2, ConstantFacts
  <2> QED
    BY <2>1, <2>3, IdFacts
<1>4. kind[last] = "campaign"
  BY <1>1, <1>3 DEF ActivityOK
<1>5. ActivityStarted(c)
  BY <1>1, <1>2, StartActivityEffect
<1>6. ActivityOK' /\ CurrentOK'
  BY <1>1, <1>3, <1>5, StartKeepsActivity
<1>7. TypeOK' /\ TaskOK' /\ SpreadOK'
  <2>1. counter' \in [Candidate -> Nat] /\ counted' \in [Id -> SUBSET Voter]
    BY <1>1, <1>2 DEF TypeOK
  <2>2. UNCHANGED <<tellers, queue>>
    BY <1>2 DEF voterVars
  <2> QED
    BY <1>1, <1>2, <1>5, <2>1, <2>2, StartKeepsTypes, StartKeepsTask, StartKeepsSpread
<1>8. CounterOK'
  <2>1. current[c] = NoId
    BY <1>1, <1>4 DEF CurrentOK
  <2>2. ASSUME NEW k \in 1..MaxActivities, k <= started[c], kind[<<c, k>>] = "rumor"
        PROVE  Cardinality(counted'[<<c, k>>]) = Receives[c]
    <3>1. k < started[c]
      BY <1>3, <1>4, <2>2
    <3> QED
      BY <1>1, <1>2, <2>2, <3>1 DEF CounterOK
  <2> QED
    BY <1>1, <1>2, <1>5, <2>1, <2>2, StartKeepsCounter DEF CounterOK
<1>9. FeedbackOK'
  BY <1>1, <1>2, <1>5, StartKeepsFeedback
<1>10. QueueOK' /\ SupporterOK'
  BY <1>1, <1>2 DEF QueueOK, SupporterOK, voterVars
<1> QED
  BY <1>6, <1>7, <1>8, <1>9, <1>10 DEF Inv

LEMMA HandleFeedbackKeepsInv ==
  ASSUME Inv, NEW c \in Candidate, HandleFeedback(c), limit' = limit
  PROVE  Inv'
<1>1. /\ TypeOK /\ ActivityOK /\ CurrentOK /\ TaskOK /\ QueueOK
      /\ FeedbackOK /\ CounterOK /\ SpreadOK /\ SupporterOK
  BY DEF Inv
<1> DEFINE m == Head(queue[c])
           next == IF Outdated(c, m.id) THEN Idle
                   ELSE [pc |-> "count", id |-> m.id, from |-> m.from]
<1>2. /\ task[c] = Idle /\ queue[c] # <<>>
      /\ queue' = [queue EXCEPT ![c] = Tail(queue[c])]
      /\ task' = [task EXCEPT ![c] = next]
      /\ UNCHANGED <<candidateVars, voterVars, unsent, feedback, faults, campaignVars, believers>>
  BY DEF HandleFeedback
<1>3. c \in Node /\ c \notin Voter /\ queue[c] \in Seq(Message) /\ NoRepetition(queue[c])
  BY <1>1, IdFacts DEF TypeOK, QueueOK
<1>4. /\ m \in Message /\ Tail(queue[c]) \in Seq(Message)
      /\ \A x : InSeq(x, queue[c]) <=> x = m \/ InSeq(x, Tail(queue[c]))
      /\ NoRepetition(Tail(queue[c])) /\ ~InSeq(m, Tail(queue[c]))
  BY <1>2, <1>3, TailQueue
<1> HIDE DEF m
<1>5. UNCHANGED <<started, kind, current, counter, counted, level, tellers, informed, complete>>
  BY <1>2 DEF candidateVars, voterVars, campaignVars
<1>6. /\ m.id[1] = c /\ NotCounted(m) /\ m.from \in Voter /\ m.id \in Id
  <2>1. Queued(c, m)
    BY <1>4 DEF Queued
  <2> QED
    BY <1>1, <1>4, <2>1, MessageFacts DEF FeedbackOK, NotCounted, Heard
<1>7. /\ next \in Task
      /\ \/ next.pc = "idle"
         \/ next.pc = "count" /\ next.id = m.id /\ next.from = m.from /\ m.id = current[c]
  <2>1. CASE Outdated(c, m.id)
    BY <2>1 DEF Idle, Task
  <2>2. CASE ~Outdated(c, m.id)
    BY <1>6, <2>2, IdFacts DEF Task, Outdated
  <2> QED
    BY <2>1, <2>2
<1> HIDE DEF next
<1>8. /\ task'[c] = next /\ \A n \in Node : n # c => task'[n] = task[n]
      /\ queue'[c] = Tail(queue[c]) /\ \A n \in Node : n # c => queue'[n] = queue[n]
      /\ task' \in [Node -> Task] /\ queue' \in [Node -> Seq(Message)]
  BY <1>1, <1>2, <1>3, <1>4, <1>7 DEF TypeOK
<1>9. TypeOK'
  BY <1>1, <1>2, <1>5, <1>8 DEF TypeOK
<1>10. TaskOK'
  <2> SUFFICES ASSUME NEW d \in Candidate
               PROVE  /\ task'[d].pc = "count" =>
                           /\ task'[d].id = current'[d] /\ task'[d].id \in Id /\ task'[d].from \in Voter
                      /\ task'[d].pc = "callback" =>
                           started'[d] > 0 /\ task'[d].id = <<d, started'[d]>> /\ complete'[task'[d].id]
    BY DEF TaskOK
  <2>1. CASE d = c
    BY <1>5, <1>6, <1>7, <1>8, <2>1
  <2>2. CASE d # c
    BY <1>1, <1>5, <1>8, <2>2, IdFacts DEF TaskOK
  <2> QED
    BY <2>1, <2>2
<1>11. QueueOK'
  BY <1>1, <1>4, <1>8 DEF QueueOK
<1>12. /\ \A id \in Id : Heard(id)' = Heard(id)
       /\ \A x \in Message : NotCounted(x)' <=> NotCounted(x)
       /\ \A n \in Node, x \in Message : n # c => (Queued(n, x)' <=> Queued(n, x))
       /\ \A x \in Message : Queued(c, x)' <=> Queued(c, x) /\ x # m
  BY <1>4, <1>5, <1>8 DEF Heard, NotCounted, Queued
<1>13. FeedbackOK'
  <2>1. ASSUME NEW x \in Message, InHandler(x)' PROVE InHandler(x) \/ x = m
    <3> DEFINE d == x.id[1]
    <3>1. d \in Candidate /\ d \in Node
      BY MessageFacts, IdFacts
    <3>2. CASE d = c
      <4>1. next.pc = "count" /\ next.id = x.id /\ next.from = x.from
        BY <1>8, <2>1, <3>2 DEF InHandler
      <4>2. x.id = m.id /\ x.from = m.from
        BY <1>7, <4>1
      <4> QED
        BY <1>4, <4>2, MessageFacts
    <3>3. CASE d # c
      BY <1>8, <2>1, <3>1, <3>3 DEF InHandler
    <3> QED
      BY <3>2, <3>3
  <2>2. Queued(c, m)
    BY <1>4 DEF Queued
  <2>3. \A x \in feedback : x \in Message /\ x.id[1] \in Node /\ x # m
    BY <1>1, <1>6, <2>2, MessageFacts, IdFacts DEF TypeOK, FeedbackOK
  <2>4. \A x \in feedback' : NotCounted(x)' /\ ~Queued(x.id[1], x)' /\ ~InHandler(x)'
    BY <1>1, <1>2, <1>12, <2>1, <2>3 DEF FeedbackOK
  <2>5. \A d \in Candidate, x \in Message :
          Queued(d, x)' => x.id[1] = d /\ NotCounted(x)' /\ ~InHandler(x)'
    <3> SUFFICES ASSUME NEW d \in Candidate, NEW x \in Message, Queued(d, x)'
                 PROVE  x.id[1] = d /\ NotCounted(x)' /\ ~InHandler(x)'
      OBVIOUS
    <3>1. Queued(d, x) /\ x.id[1] = d
      BY <1>1, <1>12, IdFacts DEF FeedbackOK
    <3>2. x # m
      BY <1>6, <1>12, <3>1
    <3> QED
      BY <1>1, <1>12, <2>1, <3>1, <3>2 DEF FeedbackOK
  <2>6. \A x \in Message : InHandler(x)' => NotCounted(x)'
    BY <1>1, <1>6, <1>12, <2>1 DEF FeedbackOK
  <2>7. \A id \in Id : counted'[id] \subseteq Heard(id)'
    BY <1>1, <1>5, <1>12 DEF FeedbackOK
  <2> QED
    BY <2>4, <2>5, <2>6, <2>7 DEF FeedbackOK
<1>14. SpreadOK'
  <2>1. \A v \in Voter : v # c /\ v \in Node
    BY <1>3, IdFacts
  <2>2. \A v \in Voter, x \in Message : Queued(v, x)' <=> Queued(v, x)
    BY <1>12, <2>1
  <2>3. \A n \in Node, id \in Id : \A v \in unsent[n][id] : v \in Voter /\ [id |-> id, from |-> n] \in Message
    BY <1>1 DEF TypeOK, Message
  <2>4. UNCHANGED <<believers, kind, unsent, tellers>>
    BY <1>2, <1>5
  <2> QED
    BY <1>1, <1>12, <2>2, <2>3, <2>4 DEF SpreadOK
<1>15. ActivityOK' /\ CurrentOK' /\ CounterOK' /\ SupporterOK'
  BY <1>1, <1>5 DEF ActivityOK, CurrentOK, CounterOK, SupporterOK
<1> QED
  BY <1>9, <1>10, <1>11, <1>13, <1>14, <1>15 DEF Inv

\* The feedback that is counted raises the counter and the number of those
\* that were counted for the current rumor, by one each.
LEMMA OneMoreCounted ==
  ASSUME Inv, NEW c \in Candidate, CountFeedback(c)
  PROVE  LET id == current[c]
             m  == [id |-> id, from |-> task[c].from]
             n  == Cardinality(counted[id])
         IN /\ id \in Id /\ id = <<c, started[c]>> /\ kind[id] = "rumor" /\ id[1] = c
            /\ started[c] \in 1..MaxActivities
            /\ m \in Message /\ InHandler(m) /\ m.from \in Voter
            /\ counter' = [counter EXCEPT ![c] = counter[c] + 1]
            /\ counted' = [counted EXCEPT ![id] = counted[id] \cup {m.from}]
            /\ counter' \in [Candidate -> Nat] /\ counted' \in [Id -> SUBSET Voter]
            /\ Cardinality(counted'[id]) = n + 1
            /\ counter'[c] % Receives[c] = IF n + 1 = Receives[c] THEN 0 ELSE n + 1
            /\ EnoughFeedback(c, counter[c] + 1) <=> n + 1 = Receives[c]
<1> DEFINE id == current[c]
           m  == [id |-> id, from |-> task[c].from]
           n  == Cardinality(counted[id])
           r  == Receives[c]
<1>1. /\ TypeOK /\ CurrentOK /\ TaskOK /\ FeedbackOK /\ CounterOK
  BY DEF Inv
<1>2. /\ task[c].pc = "count" /\ task[c].id = id /\ task[c].from \in Voter /\ id \in Id
      /\ counter' = [counter EXCEPT ![c] = counter[c] + 1]
      /\ counted' = [counted EXCEPT ![id] = counted[id] \cup {task[c].from}]
  BY <1>1 DEF CountFeedback, TaskOK
<1>3. id # NoId /\ id = <<c, started[c]>> /\ kind[id] = "rumor" /\ started[c] > 0
  BY <1>1, <1>2, ConstantFacts DEF CurrentOK
<1>4. id[1] = c
  BY <1>3
<1>5. started[c] \in 1..MaxActivities
  <2>1. started[c] \in Nat /\ started[c] <= MaxActivities
    BY <1>1, LastActivity
  <2> QED
    BY <1>3, <2>1, ConstantFacts
<1>6. m \in Message /\ InHandler(m) /\ m.from = task[c].from
  BY <1>2, <1>4, IdFacts DEF Message, InHandler
<1>7. m.from \notin counted[id] /\ counted[id] \subseteq Voter
  BY <1>1, <1>2, <1>6 DEF FeedbackOK, NotCounted, Heard
<1>8. IsFiniteSet(counted[id])
  BY <1>7, ConstantFacts, FS_Subset
<1>9. n \in Nat /\ Cardinality(counted[id] \cup {m.from}) = n + 1
  BY <1>7, <1>8, FS_AddElement, FS_CardinalityType
<1>10. /\ counter \in [Candidate -> Nat] /\ counted \in [Id -> SUBSET Voter] /\ r \in Nat \ {0}
  BY <1>1, ConstantFacts DEF TypeOK
<1>11. /\ counter' \in [Candidate -> Nat] /\ counter'[c] = counter[c] + 1
       /\ counted' \in [Id -> SUBSET Voter] /\ counted'[id] = counted[id] \cup {m.from}
  BY <1>2, <1>6, <1>10
<1>12. counter[c] % r = n
  BY <1>1, <1>3 DEF CounterOK
<1> HIDE DEF id, m, n, r
<1>13. (counter[c] + 1) % r = (IF n = r - 1 THEN 0 ELSE n + 1) /\ (n = r - 1 <=> n + 1 = r)
  <2>1. counter[c] \in Nat
    BY <1>10
  <2>2. (counter[c] + 1) % r = IF n = r - 1 THEN 0 ELSE n + 1
    BY <1>10, <1>12, <2>1, ModSuccessor
  <2> QED
    BY <1>9, <1>10, <2>2
<1>14. EnoughFeedback(c, counter[c] + 1) <=> n + 1 = r
  BY <1>9, <1>13 DEF EnoughFeedback, r
<1>15. counter'[c] % r = IF n + 1 = r THEN 0 ELSE n + 1
  BY <1>11, <1>13
<1> QED
  BY <1>2, <1>3, <1>4, <1>5, <1>6, <1>9, <1>11, <1>14, <1>15 DEF id, m, n, r

LEMMA CountFeedbackKeepsInv ==
  ASSUME Inv, NEW c \in Candidate, CountFeedback(c), limit' = limit
  PROVE  Inv'
<1> DEFINE id == current[c]
           m  == [id |-> id, from |-> task[c].from]
           n  == Cardinality(counted[id])
           r  == Receives[c]
<1>1. /\ TypeOK /\ ActivityOK /\ CurrentOK /\ TaskOK /\ QueueOK
      /\ FeedbackOK /\ CounterOK /\ SpreadOK /\ SupporterOK
  BY DEF Inv
<1>2. /\ id \in Id /\ id = <<c, started[c]>> /\ kind[id] = "rumor" /\ id[1] = c
      /\ started[c] \in 1..MaxActivities
      /\ m \in Message /\ InHandler(m) /\ m.from \in Voter
      /\ counter' = [counter EXCEPT ![c] = counter[c] + 1]
      /\ counted' = [counted EXCEPT ![id] = counted[id] \cup {m.from}]
      /\ counter' \in [Candidate -> Nat] /\ counted' \in [Id -> SUBSET Voter]
      /\ Cardinality(counted'[id]) = n + 1
      /\ counter'[c] % r = IF n + 1 = r THEN 0 ELSE n + 1
      /\ EnoughFeedback(c, counter[c] + 1) <=> n + 1 = r
  BY OneMoreCounted
<1>3. n \in Nat /\ r \in Nat \ {0}
  <2>1. counted[id] \subseteq Voter
    BY <1>1, <1>2 DEF TypeOK
  <2> QED
    BY <2>1, ConstantFacts, FS_Subset, FS_CardinalityType
<1>4. m.id = id
  OBVIOUS
<1> HIDE DEF id, m, n, r
<1>5. /\ UNCHANGED <<voterVars, queue, feedback, faults>>
      /\ \/ n + 1 = r /\ StartActivity(c, TRUE)
         \/ /\ n + 1 # r /\ task' = [task EXCEPT ![c] = Idle]
            /\ UNCHANGED <<started, kind, current, unsent, campaignVars, believers>>
  BY <1>2 DEF CountFeedback
<1>6. UNCHANGED <<tellers, level, queue, feedback, faults>>
  BY <1>5 DEF voterVars
<1>7. c \in Node /\ task \in [Node -> Task] /\ Idle \in Task /\ Idle.pc = "idle"
  BY <1>1, IdFacts DEF TypeOK, Idle, Task
<1>8. \A i \in Id : i # id => counted'[i] = counted[i]
  BY <1>1, <1>2 DEF TypeOK
<1>9. counted'[id] = counted[id] \cup {m.from}
  BY <1>1, <1>2 DEF TypeOK
<1>10. \A d \in Candidate : d # c => counter'[d] = counter[d]
  BY <1>1, <1>2 DEF TypeOK
<1>11. m.from \in Heard(id)
  BY <1>1, <1>2, <1>4 DEF FeedbackOK, NotCounted
<1>12. ASSUME task'[c].pc # "count", \A d \in Candidate : d # c => task'[d] = task[d]
       PROVE  FeedbackOK'
  <2>1. /\ \A i \in Id : Heard(i)' = Heard(i)
        /\ \A d \in Node, x \in Message : Queued(d, x)' <=> Queued(d, x)
    BY <1>6 DEF Heard, Queued
  <2>2. ASSUME NEW x \in Message, NotCounted(x), x # m
        PROVE  NotCounted(x)'
    <3>1. x.id # id \/ x.from # m.from
      BY <1>2, <1>4, <2>2, MessageFacts
    <3>2. CASE x.id # id
      BY <1>8, <2>1, <2>2, <3>2, MessageFacts DEF NotCounted
    <3>3. CASE x.id = id /\ x.from # m.from
      BY <1>9, <2>1, <2>2, <3>3, MessageFacts DEF NotCounted
    <3> QED
      BY <3>1, <3>2, <3>3
  <2>3. \A x \in Message : InHandler(x)' => InHandler(x) /\ x # m
    BY <1>2, <1>4, <1>12, MessageFacts DEF InHandler
  <2>4. \A x \in feedback : x \in Message /\ x.id[1] \in Node
    BY <1>1, MessageFacts, IdFacts DEF TypeOK
  <2>5. \A x \in feedback' : NotCounted(x)' /\ ~Queued(x.id[1], x)' /\ ~InHandler(x)'
    BY <1>1, <1>2, <1>6, <2>1, <2>2, <2>3, <2>4 DEF FeedbackOK
  <2>6. \A d \in Candidate, x \in Message :
          Queued(d, x)' => x.id[1] = d /\ NotCounted(x)' /\ ~InHandler(x)'
    BY <1>1, <1>2, <2>1, <2>2, <2>3, IdFacts DEF FeedbackOK
  <2>7. \A x \in Message : InHandler(x)' => NotCounted(x)'
    BY <1>1, <2>2, <2>3 DEF FeedbackOK
  <2>8. \A i \in Id : counted'[i] \subseteq Heard(i)'
    BY <1>1, <1>8, <1>9, <1>11, <2>1 DEF FeedbackOK
  <2> QED
    BY <2>5, <2>6, <2>7, <2>8 DEF FeedbackOK
<1>13. QueueOK' /\ SupporterOK'
  BY <1>1, <1>6 DEF QueueOK, SupporterOK
<1>14. CASE n + 1 = r /\ StartActivity(c, TRUE)
  <2>1. ActivityStarted(c)
    BY <1>1, <1>14, StartActivityEffect
  <2>2. ActivityOK' /\ CurrentOK'
    <3>1. kind[<<c, started[c]>>] # "campaign"
      BY <1>2
    <3> QED
      BY <1>1, <2>1, <3>1, StartKeepsActivity
  <2>3. TypeOK' /\ TaskOK' /\ SpreadOK'
    <3>1. UNCHANGED <<tellers, queue>>
      BY <1>6
    <3> QED
      BY <1>1, <1>2, <1>5, <2>1, <3>1, StartKeepsTypes, StartKeepsTask, StartKeepsSpread
  <2>4. FeedbackOK'
    BY <1>12, <2>1, IdFacts DEF ActivityStarted, StartedTask
  <2>5. CounterOK'
    <3>1. counter'[c] % Receives[c] = 0
      BY <1>2, <1>14 DEF r
    <3>2. \A i \in Id : counted'[i] # {} => kind[i] = "rumor"
      BY <1>1, <1>2, <1>8 DEF CounterOK
    <3>3. \A i \in Id : i[1] # c => counted'[i] = counted[i]
      BY <1>2, <1>8
    <3>4. ASSUME NEW k \in 1..MaxActivities, k <= started[c], kind[<<c, k>>] = "rumor"
          PROVE  Cardinality(counted'[<<c, k>>]) = Receives[c]
      <4>1. CASE k = started[c]
        BY <1>2, <1>14, <4>1 DEF r
      <4>2. CASE k # started[c]
        <5>1. k < started[c] /\ <<c, k>> # id /\ <<c, k>> \in Id
          BY <1>2, <3>4, <4>2, IdFacts
        <5> QED
          BY <1>1, <1>8, <3>4, <5>1 DEF CounterOK
      <4> QED
        BY <4>1, <4>2
    <3> QED
      BY <1>1, <1>10, <2>1, <3>1, <3>2, <3>3, <3>4, StartKeepsCounter
  <2> QED
    BY <1>13, <2>2, <2>3, <2>4, <2>5 DEF Inv
<1>15. CASE /\ n + 1 # r /\ task' = [task EXCEPT ![c] = Idle]
            /\ UNCHANGED <<started, kind, current, unsent, campaignVars, believers>>
  <2>1. UNCHANGED <<started, kind, current, unsent, informed, complete, believers>>
    BY <1>15 DEF campaignVars
  <2>2. task' \in [Node -> Task] /\ task'[c] = Idle /\ \A d \in Node : d # c => task'[d] = task[d]
    BY <1>7, <1>15
  <2>3. TypeOK'
    BY <1>1, <1>2, <1>6, <2>1, <2>2 DEF TypeOK
  <2>4. ActivityOK' /\ CurrentOK'
    BY <1>1, <2>1 DEF ActivityOK, CurrentOK
  <2>5. TaskOK'
    <3> SUFFICES ASSUME NEW d \in Candidate
                 PROVE  /\ task'[d].pc = "count" =>
                             /\ task'[d].id = current'[d] /\ task'[d].id \in Id /\ task'[d].from \in Voter
                        /\ task'[d].pc = "callback" =>
                             started'[d] > 0 /\ task'[d].id = <<d, started'[d]>> /\ complete'[task'[d].id]
      BY DEF TaskOK
    <3>1. CASE d = c
      BY <1>7, <2>2, <3>1
    <3>2. CASE d # c
      BY <1>1, <2>1, <2>2, <3>2, IdFacts DEF TaskOK
    <3> QED
      BY <3>1, <3>2
  <2>6. FeedbackOK'
    BY <1>7, <1>12, <2>2, IdFacts
  <2>7. SpreadOK'
    BY <1>1, <1>6, <2>1, SameSpread
  <2>8. CounterOK'
    <3>1. \A i \in Id : counted'[i] # {} => kind'[i] = "rumor"
      BY <1>1, <1>2, <1>8, <2>1 DEF CounterOK
    <3>2. ASSUME NEW d \in Candidate
          PROVE  /\ current'[d] = NoId => counter'[d] % Receives[d] = 0
                 /\ current'[d] # NoId => counter'[d] % Receives[d] = Cardinality(counted'[current'[d]])
      <4>1. CASE d = c
        <5>1. current'[d] = id /\ id # NoId
          BY <1>2, <2>1, <4>1, ConstantFacts DEF id
        <5> QED
          BY <1>2, <1>15, <4>1, <5>1 DEF r
      <4>2. CASE d # c
        <5>1. current[d] # NoId => current[d] \in Id /\ current[d] # id
          BY <1>1, <1>2, <4>2 DEF TypeOK, CurrentOK
        <5> QED
          BY <1>1, <1>8, <1>10, <2>1, <4>2, <5>1 DEF CounterOK
      <4> QED
        BY <4>1, <4>2
    <3>3. ASSUME NEW d \in Candidate, NEW k \in 1..MaxActivities, k < started'[d], kind'[<<d, k>>] = "rumor"
          PROVE  Cardinality(counted'[<<d, k>>]) = Receives[d]
      <4>1. <<d, k>> # id /\ <<d, k>> \in Id
        BY <1>2, <2>1, <3>3, IdFacts
      <4> QED
        BY <1>1, <1>8, <2>1, <3>3, <4>1 DEF CounterOK
    <3> QED
      BY <3>1, <3>2, <3>3 DEF CounterOK
  <2> QED
    BY <1>13, <2>3, <2>4, <2>5, <2>6, <2>7, <2>8 DEF Inv
<1> QED
  BY <1>5, <1>14, <1>15

-----------------------------------------------------------------------------
(* The steps of the rumors and of the feedback keep the invariant.         *)

LEMMA TakeFromQueue ==
  ASSUME TypeOK, QueueOK, NEW n \in Node, queue[n] # <<>>,
         queue' = [queue EXCEPT ![n] = Tail(queue[n])]
  PROVE  /\ Head(queue[n]) \in Message /\ Queued(n, Head(queue[n]))
         /\ queue' \in [Node -> Seq(Message)] /\ QueueOK'
         /\ \A k \in Node, x \in Message : k # n => (Queued(k, x)' <=> Queued(k, x))
         /\ \A x \in Message : Queued(n, x)' <=> Queued(n, x) /\ x # Head(queue[n])
<1> DEFINE q == queue[n]
<1>1. queue \in [Node -> Seq(Message)] /\ q \in Seq(Message) /\ NoRepetition(q)
  BY DEF TypeOK, QueueOK
<1>2. /\ Head(q) \in Message /\ Tail(q) \in Seq(Message)
      /\ \A x : InSeq(x, q) <=> x = Head(q) \/ InSeq(x, Tail(q))
      /\ NoRepetition(Tail(q)) /\ ~InSeq(Head(q), Tail(q))
  BY <1>1, TailQueue
<1>3. queue'[n] = Tail(q) /\ queue' \in [Node -> Seq(Message)] /\ \A k \in Node : k # n => queue'[k] = queue[k]
  BY <1>1, <1>2
<1>4. QueueOK'
  BY <1>2, <1>3 DEF QueueOK
<1> QED
  BY <1>2, <1>3, <1>4 DEF Queued

LEMMA PutInQueue ==
  ASSUME TypeOK, QueueOK, NEW n \in Node, NEW m \in Message, ~Queued(n, m),
         queue' = [queue EXCEPT ![n] = Append(queue[n], m)]
  PROVE  /\ queue' \in [Node -> Seq(Message)] /\ QueueOK'
         /\ \A k \in Node, x \in Message : k # n => (Queued(k, x)' <=> Queued(k, x))
         /\ \A x \in Message : Queued(n, x)' <=> Queued(n, x) \/ x = m
<1> DEFINE q == queue[n]
<1>1. queue \in [Node -> Seq(Message)] /\ q \in Seq(Message) /\ NoRepetition(q) /\ ~InSeq(m, q)
  BY DEF TypeOK, QueueOK, Queued
<1>2. /\ Append(q, m) \in Seq(Message)
      /\ \A x : InSeq(x, Append(q, m)) <=> InSeq(x, q) \/ x = m
      /\ NoRepetition(Append(q, m))
  BY <1>1, AppendQueue
<1>3. queue'[n] = Append(q, m) /\ queue' \in [Node -> Seq(Message)] /\ \A k \in Node : k # n => queue'[k] = queue[k]
  BY <1>1, <1>2
<1>4. QueueOK'
  BY <1>2, <1>3 DEF QueueOK
<1> QED
  BY <1>2, <1>3, <1>4 DEF Queued

LEMMA DropFinishedKeepsInv ==
  ASSUME Inv, NEW n \in Node, DropFinished(n), limit' = limit
  PROVE  Inv'
<1>1. /\ TypeOK /\ ActivityOK /\ CurrentOK /\ TaskOK /\ QueueOK
      /\ FeedbackOK /\ CounterOK /\ SpreadOK /\ SupporterOK
  BY DEF Inv
<1>2. /\ queue[n] # <<>> /\ queue' = [queue EXCEPT ![n] = Tail(queue[n])]
      /\ faults' = faults + 1
      /\ UNCHANGED <<candidateVars, voterVars, task, unsent, feedback, campaignVars, believers>>
  BY DEF DropFinished, Fault
<1>3. UNCHANGED <<started, kind, current, counter, counted, level, tellers, task, unsent, feedback,
                  informed, complete, believers>>
  BY <1>2 DEF candidateVars, voterVars, campaignVars
<1>4. /\ queue' \in [Node -> Seq(Message)] /\ QueueOK'
      /\ \A k \in Node, x \in Message : Queued(k, x)' => Queued(k, x)
  BY <1>1, <1>2, TakeFromQueue
<1>5. TypeOK'
  BY <1>1, <1>2, <1>3, <1>4 DEF TypeOK
<1>6. /\ \A id \in Id : Heard(id)' = Heard(id)
      /\ \A x \in Message : (NotCounted(x)' <=> NotCounted(x)) /\ (InHandler(x)' <=> InHandler(x))
  BY <1>3 DEF Heard, NotCounted, InHandler
<1>7. FeedbackOK'
  <2>1. \A x \in feedback : x \in Message /\ x.id[1] \in Node
    BY <1>1, MessageFacts, IdFacts DEF TypeOK
  <2> QED
    BY <1>1, <1>3, <1>4, <1>6, <2>1, IdFacts DEF FeedbackOK
<1>8. SpreadOK'
  <2>1. \A k \in Node, id \in Id : \A v \in unsent[k][id] : v \in Voter /\ [id |-> id, from |-> k] \in Message
    BY <1>1 DEF TypeOK, Message
  <2> QED
    BY <1>1, <1>3, <1>4, <1>6, <2>1, IdFacts DEF SpreadOK
<1>9. ActivityOK' /\ CurrentOK' /\ TaskOK' /\ CounterOK' /\ SupporterOK'
  BY <1>1, <1>3 DEF ActivityOK, CurrentOK, TaskOK, CounterOK, SupporterOK
<1> QED
  BY <1>4, <1>5, <1>7, <1>8, <1>9 DEF Inv

LEMMA HearCampaignKeepsInv ==
  ASSUME Inv, NEW n \in Node, NEW id \in Id, HearCampaign(n, id), limit' = limit
  PROVE  Inv'
<1>1. /\ TypeOK /\ ActivityOK /\ CurrentOK /\ TaskOK /\ QueueOK
      /\ FeedbackOK /\ CounterOK /\ SpreadOK /\ SupporterOK
  BY DEF Inv
<1> DEFINE opinion == OnCampaign(level[n], id[1])
<1>2. /\ informed[id] # {} /\ informed' = [informed EXCEPT ![id] = informed[id] \cup {n}]
      /\ complete' = complete
      /\ level' = IF n \in Voter THEN [level EXCEPT ![n] = opinion] ELSE level
      /\ UNCHANGED <<candidateVars, tellers, task, queue, unsent, feedback, faults, believers>>
  BY DEF HearCampaign, Campaigns!Inform
<1> HIDE DEF opinion
<1>3. UNCHANGED <<started, kind, current, counter, counted, tellers, task, queue, unsent, feedback,
                  faults, complete, believers>>
  BY <1>2 DEF candidateVars
<1>4. level \in [Voter -> Opinion] /\ informed \in [Id -> SUBSET Node] /\ id[1] \in Candidate
  BY <1>1, IdFacts DEF TypeOK
<1>5. n \in Voter => opinion \in Opinion /\ \A c \in Candidate : level[n] = SupporterOpinion(c) => opinion = SupporterOpinion(c)
  BY <1>4, CampaignKeepsFavorite, SupportersNeverWaver DEF opinion
<1>6. level' \in [Voter -> Opinion] /\ informed' \in [Id -> SUBSET Node]
  BY <1>2, <1>4, <1>5
<1>7. TypeOK'
  BY <1>1, <1>3, <1>6 DEF TypeOK
<1>8. ActivityOK'
  <2>1. kind[id] = "campaign"
    <3>1. id = <<id[1], id[2]>> /\ id[2] \in 1..MaxActivities
      BY IdFacts
    <3> QED
      BY <1>1, <1>2, <1>4, <3>1 DEF ActivityOK
  <2>2. \A i \in Id : i # id => informed'[i] = informed[i]
    BY <1>2, <1>4
  <2> QED
    BY <1>1, <1>3, <2>1, <2>2, IdFacts DEF ActivityOK
<1>9. SupporterOK'
  BY <1>1, <1>2, <1>4, <1>5 DEF SupporterOK
<1>10. FeedbackOK' /\ SpreadOK'
  BY <1>1, <1>3, TaskKeepsFeedback, SameSpread
<1>11. CurrentOK' /\ TaskOK' /\ QueueOK' /\ CounterOK'
  BY <1>1, <1>3 DEF CurrentOK, TaskOK, QueueOK, CounterOK
<1> QED
  BY <1>7, <1>8, <1>9, <1>10, <1>11 DEF Inv

LEMMA SendFeedbackKeepsInv ==
  ASSUME Inv, NEW m \in feedback, SendFeedback(m), limit' = limit
  PROVE  Inv'
<1>1. /\ TypeOK /\ ActivityOK /\ CurrentOK /\ TaskOK /\ QueueOK
      /\ FeedbackOK /\ CounterOK /\ SpreadOK /\ SupporterOK
  BY DEF Inv
<1> DEFINE c == m.id[1]
<1>2. m \in Message /\ c \in Candidate /\ c \in Node /\ c \notin Voter
  BY <1>1, MessageFacts, IdFacts DEF TypeOK
<1>3. NotCounted(m) /\ ~Queued(c, m) /\ ~InHandler(m)
  BY <1>1 DEF FeedbackOK
<1>4. /\ feedback' = feedback \ {m}
      /\ \/ queue' = [queue EXCEPT ![c] = Append(queue[c], m)] /\ faults' = faults
         \/ queue' = queue /\ faults' = faults + 1
      /\ UNCHANGED <<candidateVars, voterVars, task, unsent, campaignVars, believers>>
  BY DEF SendFeedback, Fault
<1>5. UNCHANGED <<started, kind, current, counter, counted, level, tellers, task, unsent,
                  informed, complete, believers>>
  BY <1>4 DEF candidateVars, voterVars, campaignVars
<1> HIDE DEF c
<1>6. /\ queue' \in [Node -> Seq(Message)] /\ QueueOK'
      /\ \A k \in Node, x \in Message : k # c => (Queued(k, x)' <=> Queued(k, x))
      /\ \A x \in Message : Queued(c, x)' => Queued(c, x) \/ x = m
  <2>1. CASE queue' = [queue EXCEPT ![c] = Append(queue[c], m)]
    BY <1>1, <1>2, <1>3, <2>1, PutInQueue
  <2>2. CASE queue' = queue
    BY <1>1, <2>2 DEF TypeOK, QueueOK, Queued
  <2> QED
    BY <1>4, <2>1, <2>2
<1>7. TypeOK'
  <2>1. faults' \in Nat
    BY <1>1, <1>4 DEF TypeOK
  <2> QED
    BY <1>1, <1>4, <1>5, <1>6, <2>1 DEF TypeOK
<1>8. /\ \A id \in Id : Heard(id)' = Heard(id)
      /\ \A x \in Message : (NotCounted(x)' <=> NotCounted(x)) /\ (InHandler(x)' <=> InHandler(x))
  BY <1>5 DEF Heard, NotCounted, InHandler
<1>9. FeedbackOK'
  <2>1. \A x \in feedback' : NotCounted(x)' /\ ~Queued(x.id[1], x)' /\ ~InHandler(x)'
    <3> SUFFICES ASSUME NEW x \in feedback' PROVE NotCounted(x)' /\ ~Queued(x.id[1], x)' /\ ~InHandler(x)'
      OBVIOUS
    <3>1. x \in feedback /\ x # m /\ x \in Message /\ x.id[1] \in Node
      BY <1>1, <1>4, MessageFacts, IdFacts DEF TypeOK
    <3>2. NotCounted(x) /\ ~Queued(x.id[1], x) /\ ~InHandler(x)
      BY <1>1, <3>1 DEF FeedbackOK
    <3> QED
      BY <1>6, <1>8, <3>1, <3>2
  <2>2. \A d \in Candidate, x \in Message :
          Queued(d, x)' => x.id[1] = d /\ NotCounted(x)' /\ ~InHandler(x)'
    <3> SUFFICES ASSUME NEW d \in Candidate, NEW x \in Message, Queued(d, x)'
                 PROVE  x.id[1] = d /\ NotCounted(x)' /\ ~InHandler(x)'
      OBVIOUS
    <3>1. Queued(d, x) \/ (d = c /\ x = m)
      BY <1>6, IdFacts
    <3>2. CASE Queued(d, x)
      BY <1>1, <1>8, <3>2 DEF FeedbackOK
    <3>3. CASE d = c /\ x = m
      BY <1>2, <1>3, <1>8, <3>3 DEF c
    <3> QED
      BY <3>1, <3>2, <3>3
  <2>3. \A x \in Message : InHandler(x)' => NotCounted(x)'
    BY <1>1, <1>8 DEF FeedbackOK
  <2>4. \A id \in Id : counted'[id] \subseteq Heard(id)'
    BY <1>1, <1>5, <1>8 DEF FeedbackOK
  <2> QED
    BY <2>1, <2>2, <2>3, <2>4 DEF FeedbackOK
<1>10. SpreadOK'
  <2>1. \A v \in Voter : v # c /\ v \in Node
    BY <1>2, IdFacts
  <2>2. \A v \in Voter, x \in Message : Queued(v, x)' <=> Queued(v, x)
    BY <1>6, <2>1
  <2>3. \A k \in Node, id \in Id : \A v \in unsent[k][id] : v \in Voter /\ [id |-> id, from |-> k] \in Message
    BY <1>1 DEF TypeOK, Message
  <2> QED
    BY <1>1, <1>5, <1>8, <2>2, <2>3 DEF SpreadOK
<1>11. ActivityOK' /\ CurrentOK' /\ TaskOK' /\ CounterOK' /\ SupporterOK'
  BY <1>1, <1>5 DEF ActivityOK, CurrentOK, TaskOK, CounterOK, SupporterOK
<1> QED
  BY <1>6, <1>7, <1>9, <1>10, <1>11 DEF Inv

LEMMA TellKeepsInv ==
  ASSUME Inv, NEW n \in Node, NEW id \in Id, NEW v \in Voter, Tell(n, id, v), limit' = limit
  PROVE  Inv'
<1>1. /\ TypeOK /\ ActivityOK /\ CurrentOK /\ TaskOK /\ QueueOK
      /\ FeedbackOK /\ CounterOK /\ SpreadOK /\ SupporterOK
  BY DEF Inv
<1> DEFINE m == [id |-> id, from |-> n]
<1>2. m \in Message /\ m.id = id /\ m.from = n /\ v \in Node /\ v \notin Candidate
  BY IdFacts DEF Message
<1>3. /\ v \in unsent[n][id]
      /\ unsent' = [unsent EXCEPT ![n][id] = unsent[n][id] \ {v}]
      /\ task' = AfterTelling(n, id, v)
      /\ \/ queue' = [queue EXCEPT ![v] = Append(queue[v], m)] /\ faults' = faults
         \/ queue' = queue /\ faults' = faults + 1
      /\ UNCHANGED <<voterVars, candidateVars, feedback, campaignVars, believers>>
  BY DEF Tell, ToTell, Fault
<1>4. n \in believers[id] /\ v \in Friends[n] /\ n \notin tellers[v][id] /\ ~Queued(v, m)
  BY <1>1, <1>3 DEF SpreadOK
<1> HIDE DEF m
<1>5. UNCHANGED <<started, kind, current, counter, counted, level, tellers, feedback, informed, complete, believers>>
  BY <1>3 DEF candidateVars, voterVars, campaignVars
<1>6. /\ unsent' \in [Node -> [Id -> SUBSET Voter]]
      /\ \A k \in Node, i \in Id : unsent'[k][i] \subseteq unsent[k][i]
      /\ unsent'[n][id] = unsent[n][id] \ {v}
  <2>1. unsent \in [Node -> [Id -> SUBSET Voter]]
    BY <1>1 DEF TypeOK
  <2> QED
    BY <1>3, <2>1
<1>7. /\ task' \in [Node -> Task]
      /\ \A k \in Node : task'[k] = task[k] \/ (task[k].pc = "tell" /\ task'[k] = Idle)
  <2>1. task \in [Node -> Task] /\ Idle \in Task
    BY <1>1 DEF TypeOK, Task
  <2> QED
    BY <1>3, <2>1 DEF AfterTelling
<1>8. /\ queue' \in [Node -> Seq(Message)] /\ QueueOK'
      /\ \A k \in Node, x \in Message : k # v => (Queued(k, x)' <=> Queued(k, x))
      /\ \A x \in Message : Queued(v, x)' => Queued(v, x) \/ x = m
  <2>1. CASE queue' = [queue EXCEPT ![v] = Append(queue[v], m)]
    BY <1>1, <1>2, <1>4, <2>1, PutInQueue
  <2>2. CASE queue' = queue
    BY <1>1, <2>2 DEF TypeOK, QueueOK, Queued
  <2> QED
    BY <1>3, <2>1, <2>2
<1>9. TypeOK'
  <2>1. faults' \in Nat
    BY <1>1, <1>3 DEF TypeOK
  <2> QED
    BY <1>1, <1>5, <1>6, <1>7, <1>8, <2>1 DEF TypeOK
<1>10. TaskOK'
  BY <1>1, <1>5, <1>7, IdFacts DEF TaskOK, Idle
<1>11. /\ \A i \in Id : Heard(i)' = Heard(i)
       /\ \A x \in Message : NotCounted(x)' <=> NotCounted(x)
       /\ \A x \in Message : InHandler(x)' => InHandler(x)
  <2>1. \A x \in Message : x.id[1] \in Node
    BY MessageFacts, IdFacts
  <2> QED
    BY <1>5, <1>7, <2>1 DEF Heard, NotCounted, InHandler, Idle
<1>12. FeedbackOK'
  <2>1. \A x \in feedback : x \in Message /\ x.id[1] \in Node /\ x.id[1] # v
    BY <1>1, <1>2, MessageFacts, IdFacts DEF TypeOK
  <2>2. \A c \in Candidate, x \in Message : Queued(c, x)' <=> Queued(c, x)
    BY <1>2, <1>8, IdFacts
  <2> QED
    BY <1>1, <1>5, <1>8, <1>11, <2>1, <2>2 DEF FeedbackOK
<1>13. SpreadOK'
  <2>1. ASSUME NEW w \in Voter, NEW x \in Message, Queued(w, x)'
        PROVE  x.from \in believers[x.id] /\ w \in Friends[x.from] /\ x.from \notin tellers[w][x.id]
    <3>1. CASE Queued(w, x)
      BY <1>1, <3>1 DEF SpreadOK
    <3>2. CASE ~Queued(w, x)
      <4>1. w = v /\ x = m
        BY <1>8, <2>1, <3>2, IdFacts
      <4> QED
        BY <1>2, <1>4, <4>1
    <3> QED
      BY <3>1, <3>2
  <2>2. ASSUME NEW k \in Node, NEW i \in Id, NEW w \in unsent'[k][i]
        PROVE  /\ k \in believers[i] /\ w \in Friends[k]
               /\ k \notin tellers[w][i] /\ ~Queued(w, [id |-> i, from |-> k])'
    <3> DEFINE x == [id |-> i, from |-> k]
    <3>1. x \in Message /\ x.id = i /\ x.from = k
      BY DEF Message
    <3>2. w \in unsent[k][i] /\ w \in Voter
      BY <1>1, <1>6 DEF TypeOK
    <3>3. k \in believers[i] /\ w \in Friends[k] /\ k \notin tellers[w][i] /\ ~Queued(w, x)
      BY <1>1, <3>2 DEF SpreadOK
    <3> HIDE DEF x
    <3>4. w = v => x # m
      BY <1>2, <1>6, <3>1
    <3>5. ~Queued(w, x)'
      BY <1>8, <3>1, <3>2, <3>3, <3>4, IdFacts
    <3> QED
      BY <3>3, <3>5 DEF x
  <2> QED
    BY <1>1, <1>5, <1>11, <2>1, <2>2 DEF SpreadOK
<1>14. ActivityOK' /\ CurrentOK' /\ CounterOK' /\ SupporterOK'
  BY <1>1, <1>5 DEF ActivityOK, CurrentOK, CounterOK, SupporterOK
<1> QED
  BY <1>8, <1>9, <1>10, <1>12, <1>13, <1>14 DEF Inv

\* A rumor that waits at a voter.
LEMMA RumorFacts ==
  ASSUME Inv, NEW v \in Voter, queue[v] # <<>>
  PROVE  LET m == Head(queue[v]) IN
         /\ m \in Message /\ m.id \in Id /\ m.from \in Node /\ m.id[1] \in Candidate
         /\ Queued(v, m) /\ kind[m.id] = "rumor"
         /\ m.from \in believers[m.id] /\ v \in Friends[m.from] /\ m.from \notin tellers[v][m.id]
<1> DEFINE m == Head(queue[v])
<1>1. TypeOK /\ QueueOK /\ SpreadOK /\ v \in Node
  BY IdFacts DEF Inv
<1>2. queue[v] \in Seq(Message)
  BY <1>1 DEF TypeOK
<1>3. m \in Message /\ InSeq(m, queue[v])
  BY <1>2, TailQueue
<1>4. Queued(v, m)
  BY <1>3 DEF Queued
<1>5. m.id \in Id /\ m.from \in Node /\ m.id[1] \in Candidate
  BY <1>3, MessageFacts
<1>6. m.from \in believers[m.id] /\ v \in Friends[m.from] /\ m.from \notin tellers[v][m.id]
  BY <1>1, <1>3, <1>4 DEF SpreadOK
<1>7. kind[m.id] = "rumor"
  BY <1>1, <1>5, <1>6 DEF SpreadOK
<1> QED
  BY <1>3, <1>4, <1>5, <1>6, <1>7

LEMMA HearAgainKeepsInv ==
  ASSUME Inv, NEW v \in Voter, HearAgain(v), limit' = limit
  PROVE  Inv'
<1>1. /\ TypeOK /\ ActivityOK /\ CurrentOK /\ TaskOK /\ QueueOK
      /\ FeedbackOK /\ CounterOK /\ SpreadOK /\ SupporterOK
  BY DEF Inv
<1> DEFINE m == Head(queue[v])
<1>2. /\ queue[v] # <<>> /\ tellers[v][m.id] # {}
      /\ queue' = [queue EXCEPT ![v] = Tail(queue[v])]
      /\ tellers' = [tellers EXCEPT ![v][m.id] = tellers[v][m.id] \cup {m.from}]
      /\ UNCHANGED <<candidateVars, level, task, unsent, feedback, faults, campaignVars, believers>>
  BY DEF HearAgain
<1>3. v \in Node /\ v \notin Candidate
  BY IdFacts
<1>4. /\ m \in Message /\ m.id \in Id /\ m.from \in Node /\ m.id[1] \in Candidate
      /\ Queued(v, m) /\ m.from \in believers[m.id] /\ v \in Friends[m.from]
  BY <1>2, RumorFacts
<1>5. /\ queue' \in [Node -> Seq(Message)] /\ QueueOK'
      /\ \A k \in Node, x \in Message : k # v => (Queued(k, x)' <=> Queued(k, x))
      /\ \A x \in Message : Queued(v, x)' <=> Queued(v, x) /\ x # m
  BY <1>1, <1>2, <1>3, TakeFromQueue
<1> HIDE DEF m
<1>6. UNCHANGED <<started, kind, current, counter, counted, level, task, unsent, feedback, faults,
                  informed, complete, believers>>
  BY <1>2 DEF candidateVars, campaignVars
<1>7. /\ tellers' \in [Voter -> [Id -> SUBSET Node]]
      /\ tellers'[v][m.id] = tellers[v][m.id] \cup {m.from}
      /\ \A w \in Voter, i \in Id : w # v \/ i # m.id => tellers'[w][i] = tellers[w][i]
  <2>1. tellers \in [Voter -> [Id -> SUBSET Node]]
    BY <1>1 DEF TypeOK
  <2> QED
    BY <1>2, <1>4, <2>1
<1>8. TypeOK'
  BY <1>1, <1>5, <1>6, <1>7 DEF TypeOK
<1>9. /\ \A i \in Id : Heard(i)' = Heard(i)
      /\ \A x \in Message : (NotCounted(x)' <=> NotCounted(x)) /\ (InHandler(x)' <=> InHandler(x))
  <2>1. \A i \in Id, w \in Voter : tellers'[w][i] # {} <=> tellers[w][i] # {}
    BY <1>2, <1>4, <1>7
  <2>2. \A i \in Id : Heard(i)' = Heard(i)
    BY <2>1 DEF Heard
  <2> QED
    BY <1>6, <2>2, MessageFacts DEF NotCounted, InHandler
<1>10. FeedbackOK'
  <2>1. \A x \in feedback : x \in Message /\ x.id[1] \in Node /\ x.id[1] # v
    BY <1>1, <1>3, MessageFacts, IdFacts DEF TypeOK
  <2>2. \A c \in Candidate, x \in Message : Queued(c, x)' <=> Queued(c, x)
    BY <1>3, <1>5, IdFacts
  <2> QED
    BY <1>1, <1>5, <1>6, <1>9, <2>1, <2>2 DEF FeedbackOK
<1>11. SpreadOK'
  <2>1. ASSUME NEW i \in Id, NEW w \in Voter
        PROVE  /\ w \in believers'[i] => w \in Heard(i)'
               /\ \A n \in tellers'[w][i] : n \in believers'[i] /\ w \in Friends[n]
    <3>1. \A n \in tellers'[w][i] : n \in tellers[w][i] \/ (n = m.from /\ w = v /\ i = m.id)
      BY <1>7
    <3> QED
      BY <1>1, <1>4, <1>6, <1>9, <3>1 DEF SpreadOK
  <2>2. ASSUME NEW w \in Voter, NEW x \in Message, Queued(w, x)'
        PROVE  x.from \in believers'[x.id] /\ w \in Friends[x.from] /\ x.from \notin tellers'[w][x.id]
    <3>1. Queued(w, x) /\ (w = v => x # m) /\ x.id \in Id
      BY <1>5, <2>2, IdFacts, MessageFacts
    <3>2. x.from \in believers[x.id] /\ w \in Friends[x.from] /\ x.from \notin tellers[w][x.id]
      BY <1>1, <3>1 DEF SpreadOK
    <3>3. w = v /\ x.id = m.id => x.from # m.from
      BY <1>4, <3>1, MessageFacts
    <3> QED
      BY <1>6, <1>7, <3>1, <3>2, <3>3
  <2>3. ASSUME NEW k \in Node, NEW i \in Id, NEW w \in unsent'[k][i]
        PROVE  /\ k \in believers'[i] /\ w \in Friends[k]
               /\ k \notin tellers'[w][i] /\ ~Queued(w, [id |-> i, from |-> k])'
    <3> DEFINE x == [id |-> i, from |-> k]
    <3>1. x \in Message /\ x.id = i /\ x.from = k
      BY DEF Message
    <3>2. w \in unsent[k][i] /\ w \in Voter
      BY <1>1, <1>6 DEF TypeOK
    <3>3. k \in believers[i] /\ w \in Friends[k] /\ k \notin tellers[w][i] /\ ~Queued(w, x)
      BY <1>1, <3>2 DEF SpreadOK
    <3> HIDE DEF x
    <3>4. ~Queued(w, x)'
      BY <1>5, <3>1, <3>2, <3>3, IdFacts
    <3>5. w = v /\ i = m.id => k # m.from
      BY <1>4, <3>1, <3>3, MessageFacts
    <3> QED
      BY <1>6, <1>7, <3>2, <3>3, <3>4, <3>5 DEF x
  <2> QED
    BY <1>1, <1>6, <2>1, <2>2, <2>3 DEF SpreadOK
<1>12. ActivityOK' /\ CurrentOK' /\ TaskOK' /\ CounterOK' /\ SupporterOK'
  BY <1>1, <1>6 DEF ActivityOK, CurrentOK, TaskOK, CounterOK, SupporterOK
<1> QED
  BY <1>5, <1>8, <1>10, <1>11, <1>12 DEF Inv

LEMMA HearFirstKeepsInv ==
  ASSUME Inv, NEW v \in Voter, HearFirst(v), limit' = limit
  PROVE  Inv'
<1>1. /\ TypeOK /\ ActivityOK /\ CurrentOK /\ TaskOK /\ QueueOK
      /\ FeedbackOK /\ CounterOK /\ SpreadOK /\ SupporterOK
  BY DEF Inv
<1>0. queue[v] # <<>>
  BY DEF HearFirst
<1>m. PICK m \in Message : m = Head(queue[v])
  BY <1>0, RumorFacts
<1> DEFINE id      == m.id
           c       == m.id[1]
           opinion == OnChooseMe(level[v], c)
           answer  == [id |-> m.id, from |-> v]
           agrees  == IsFavorite(opinion, c)
           next    == Telling(v, id, Friends[v] \ {m.from})
<1>2. /\ queue[v] # <<>> /\ tellers[v][id] = {}
      /\ queue' = [queue EXCEPT ![v] = Tail(queue[v])]
      /\ tellers' = [tellers EXCEPT ![v][id] = {m.from}]
      /\ level' = [level EXCEPT ![v] = opinion]
      /\ feedback' = feedback \cup {answer}
      /\ \/ /\ agrees
            /\ unsent' = [unsent EXCEPT ![v][id] = Friends[v]]
            /\ task' = [task EXCEPT ![v] = next]
            /\ believers' = [believers EXCEPT ![id] = believers[id] \cup {v}]
         \/ UNCHANGED <<unsent, task, believers>>
      /\ UNCHANGED <<candidateVars, faults, campaignVars>>
  BY <1>m DEF HearFirst, Agrees, FeedbackOf
<1>3. v \in Node /\ v \notin Candidate /\ Friends[v] \in SUBSET Voter
  BY IdFacts, ConstantFacts
<1>4. /\ m \in Message /\ id \in Id /\ m.from \in Node /\ c \in Candidate
      /\ Queued(v, m) /\ m.from \in believers[id] /\ v \in Friends[m.from] /\ kind[id] = "rumor"
  BY <1>m, <1>2, RumorFacts
<1>5. /\ queue' \in [Node -> Seq(Message)] /\ QueueOK'
      /\ \A k \in Node, x \in Message : k # v => (Queued(k, x)' <=> Queued(k, x))
      /\ \A x \in Message : Queued(v, x)' <=> Queued(v, x) /\ x # m
  BY <1>m, <1>1, <1>2, <1>3, TakeFromQueue
<1>6. answer \in Message /\ answer.id = id /\ answer.from = v /\ answer.id[1] = c
  BY <1>3, <1>4 DEF Message
<1>7. next \in Task /\ next.pc \in {"idle", "tell"}
  BY <1>3, <1>4, TellingType
<1>8. m.id = id
  OBVIOUS
<1> HIDE DEF id, c, opinion, answer, agrees, next
<1>9. UNCHANGED <<started, kind, current, counter, counted, faults, informed, complete>>
  BY <1>2 DEF candidateVars, campaignVars
<1>10. /\ tellers \in [Voter -> [Id -> SUBSET Node]] /\ unsent \in [Node -> [Id -> SUBSET Voter]]
       /\ believers \in [Id -> SUBSET Node] /\ level \in [Voter -> Opinion] /\ task \in [Node -> Task]
       /\ feedback \subseteq Message
  BY <1>1 DEF TypeOK
<1>11. /\ tellers' \in [Voter -> [Id -> SUBSET Node]] /\ tellers'[v][id] = {m.from}
       /\ \A w \in Voter, i \in Id : w # v \/ i # id => tellers'[w][i] = tellers[w][i]
  BY <1>2, <1>4, <1>10
<1>12. /\ opinion \in Opinion
       /\ \A d \in Candidate : level[v] = SupporterOpinion(d) => opinion = SupporterOpinion(d)
  BY <1>4, <1>10, ChooseMeKeepsFavorite, SupportersNeverWaver DEF opinion
<1>13. /\ unsent' \in [Node -> [Id -> SUBSET Voter]] /\ task' \in [Node -> Task]
       /\ believers' \in [Id -> SUBSET Node]
       /\ \A n \in Node : n # v => task'[n] = task[n]
       /\ \A i \in Id : believers[i] \subseteq believers'[i] /\ believers'[i] \subseteq believers[i] \cup {v}
       /\ \A i \in Id : i # id => believers'[i] = believers[i]
       /\ \A n \in Node, i \in Id : unsent'[n][i] = unsent[n][i]
                                    \/ (n = v /\ i = id /\ unsent'[n][i] = Friends[v] /\ v \in believers'[id])
  <2>1. CASE UNCHANGED <<unsent, task, believers>>
    BY <1>10, <2>1
  <2>2. CASE /\ unsent' = [unsent EXCEPT ![v][id] = Friends[v]]
             /\ task' = [task EXCEPT ![v] = next]
             /\ believers' = [believers EXCEPT ![id] = believers[id] \cup {v}]
    <3>1. /\ believers' \in [Id -> SUBSET Node] /\ believers'[id] = believers[id] \cup {v}
          /\ \A i \in Id : i # id => believers'[i] = believers[i]
      BY <1>3, <1>4, <1>10, <2>2
    <3>2. /\ unsent' \in [Node -> [Id -> SUBSET Voter]] /\ unsent'[v][id] = Friends[v]
          /\ \A n \in Node, i \in Id : n # v \/ i # id => unsent'[n][i] = unsent[n][i]
      BY <1>3, <1>4, <1>10, <2>2
    <3>3. task' \in [Node -> Task] /\ \A n \in Node : n # v => task'[n] = task[n]
      BY <1>3, <1>7, <1>10, <2>2
    <3> QED
      BY <3>1, <3>2, <3>3
  <2> QED
    BY <1>2, <2>1, <2>2
<1>14. TypeOK'
  <2>1. level' \in [Voter -> Opinion] /\ feedback' \in SUBSET Message
    BY <1>2, <1>6, <1>10, <1>12
  <2> QED
    BY <1>1, <1>5, <1>9, <1>11, <1>13, <2>1 DEF TypeOK
<1>15. /\ Heard(id)' = Heard(id) \cup {v} /\ v \notin Heard(id)
       /\ \A i \in Id : i # id => Heard(i)' = Heard(i)
  <2>1. \A w \in Voter : tellers'[w][id] # {} <=> tellers[w][id] # {} \/ w = v
    BY <1>4, <1>11
  <2>2. \A i \in Id, w \in Voter : i # id => tellers'[w][i] = tellers[w][i]
    BY <1>11
  <2> QED
    BY <1>2, <2>1, <2>2 DEF Heard
<1>16. \A i \in Id : Heard(i) \subseteq Heard(i)'
  <2> TAKE i \in Id
  <2>1. CASE i = id
    BY <1>15, <2>1
  <2>2. CASE i # id
    BY <1>15, <2>2
  <2> QED
    BY <2>1, <2>2
<1>17. \A x \in Message : (NotCounted(x) => NotCounted(x)') /\ (InHandler(x)' <=> InHandler(x))
  <2> SUFFICES ASSUME NEW x \in Message
               PROVE  (NotCounted(x) => NotCounted(x)') /\ (InHandler(x)' <=> InHandler(x))
    OBVIOUS
  <2>1. x.id \in Id /\ x.id[1] \in Node /\ x.id[1] # v
    BY <1>3, MessageFacts, IdFacts
  <2>2. NotCounted(x) => NotCounted(x)'
    BY <1>9, <1>16, <2>1 DEF NotCounted
  <2>3. InHandler(x)' <=> InHandler(x)
    BY <1>13, <2>1 DEF InHandler
  <2> QED
    BY <2>2, <2>3
<1>18. FeedbackOK'
  <2>1. ~NotCounted(answer)
    BY <1>6, <1>15 DEF NotCounted
  <2>2. NotCounted(answer)' /\ ~Queued(c, answer) /\ ~InHandler(answer)
    <3>1. v \notin counted[id]
      BY <1>1, <1>4, <1>15 DEF FeedbackOK
    <3>2. NotCounted(answer)'
      BY <1>6, <1>9, <1>15, <3>1 DEF NotCounted
    <3> QED
      BY <1>1, <1>4, <1>6, <2>1, <3>2 DEF FeedbackOK
  <2>3. \A d \in Candidate, x \in Message : Queued(d, x)' <=> Queued(d, x)
    BY <1>3, <1>5, IdFacts
  <2>4. ASSUME NEW x \in feedback' PROVE NotCounted(x)' /\ ~Queued(x.id[1], x)' /\ ~InHandler(x)'
    <3>1. CASE x = answer
      BY <1>4, <1>6, <1>17, <2>2, <2>3, <3>1
    <3>2. CASE x # answer
      <4>1. x \in feedback /\ x \in Message /\ x.id[1] \in Candidate
        BY <1>2, <1>10, <3>2, MessageFacts
      <4>2. NotCounted(x) /\ ~Queued(x.id[1], x) /\ ~InHandler(x)
        BY <1>1, <4>1 DEF FeedbackOK
      <4> QED
        BY <1>17, <2>3, <4>1, <4>2
    <3> QED
      BY <3>1, <3>2
  <2>5. \A d \in Candidate, x \in Message :
          Queued(d, x)' => x.id[1] = d /\ NotCounted(x)' /\ ~InHandler(x)'
    BY <1>1, <1>17, <2>3 DEF FeedbackOK
  <2>6. \A x \in Message : InHandler(x)' => NotCounted(x)'
    BY <1>1, <1>17 DEF FeedbackOK
  <2>7. \A i \in Id : counted'[i] \subseteq Heard(i)'
    BY <1>1, <1>9, <1>16 DEF FeedbackOK
  <2> QED
    BY <2>4, <2>5, <2>6, <2>7 DEF FeedbackOK
<1>19. SpreadOK'
  <2>1. v \notin believers[id]
    BY <1>1, <1>4, <1>15 DEF SpreadOK
  <2>2. \A i \in Id : believers'[i] # {} => kind'[i] = "rumor"
    BY <1>1, <1>4, <1>9, <1>13 DEF SpreadOK
  <2>3. ASSUME NEW i \in Id, NEW w \in Voter
        PROVE  /\ w \in believers'[i] => w \in Heard(i)'
               /\ \A n \in tellers'[w][i] : n \in believers'[i] /\ w \in Friends[n]
    <3>1. w \in believers'[i] => w \in believers[i] \/ (w = v /\ i = id)
      BY <1>13
    <3>2. w \in believers'[i] => w \in Heard(i)'
      BY <1>1, <1>15, <1>16, <3>1 DEF SpreadOK
    <3>3. \A n \in tellers'[w][i] : n \in tellers[w][i] \/ (n = m.from /\ w = v /\ i = id)
      BY <1>11
    <3> QED
      BY <1>1, <1>4, <1>13, <3>2, <3>3 DEF SpreadOK
  <2>4. ASSUME NEW w \in Voter, NEW x \in Message, Queued(w, x)'
        PROVE  x.from \in believers'[x.id] /\ w \in Friends[x.from] /\ x.from \notin tellers'[w][x.id]
    <3>1. Queued(w, x) /\ (w = v => x # m) /\ x.id \in Id
      BY <1>5, <2>4, IdFacts, MessageFacts
    <3>2. x.from \in believers[x.id] /\ w \in Friends[x.from] /\ x.from \notin tellers[w][x.id]
      BY <1>1, <3>1 DEF SpreadOK
    <3>3. w = v /\ x.id = id => x.from # m.from
      BY <1>4, <1>8, <3>1, MessageFacts
    <3> QED
      BY <1>11, <1>13, <3>1, <3>2, <3>3
  <2>5. ASSUME NEW k \in Node, NEW i \in Id, NEW w \in unsent'[k][i]
        PROVE  /\ k \in believers'[i] /\ w \in Friends[k]
               /\ k \notin tellers'[w][i] /\ ~Queued(w, [id |-> i, from |-> k])'
    <3> DEFINE x == [id |-> i, from |-> k]
    <3>1. x \in Message /\ x.id = i /\ x.from = k
      BY DEF Message
    <3>2. w \in Voter /\ w \in Node
      BY <1>13, IdFacts
    <3>3. \A y \in Message : Queued(w, y)' => Queued(w, y)
      BY <1>5, <3>2
    <3>4. CASE w \in unsent[k][i]
      <4>1. k \in believers[i] /\ w \in Friends[k] /\ k \notin tellers[w][i] /\ ~Queued(w, x)
        BY <1>1, <3>4 DEF SpreadOK
      <4>2. w = v /\ i = id => k # m.from
        <5>1. w = v => x # m
          BY <1>4, <4>1
        <5> HIDE DEF x
        <5> QED
          BY <1>4, <1>8, <3>1, <5>1, MessageFacts
      <4> HIDE DEF x
      <4>3. ~Queued(w, x)'
        BY <3>1, <3>3, <4>1
      <4>4. k \notin tellers'[w][i]
        BY <1>11, <3>2, <4>1, <4>2
      <4> QED
        BY <1>13, <4>1, <4>3, <4>4 DEF x
    <3>5. CASE w \notin unsent[k][i]
      <4>1. k = v /\ i = id /\ w \in Friends[v] /\ v \in believers'[id]
        BY <1>13, <3>5
      <4>2. v \notin tellers[w][id] /\ ~Queued(w, x)
        BY <1>1, <1>4, <2>1, <3>1, <3>2, <4>1 DEF SpreadOK
      <4>3. v # m.from
        BY <1>4, <2>1
      <4>4. v \notin tellers'[w][id]
        BY <1>4, <1>11, <3>2, <4>2, <4>3
      <4> HIDE DEF x
      <4>5. ~Queued(w, x)'
        BY <3>1, <3>3, <4>2
      <4> QED
        BY <4>1, <4>4, <4>5 DEF x
    <3> QED
      BY <3>4, <3>5
  <2> QED
    BY <2>2, <2>3, <2>4, <2>5 DEF SpreadOK
<1>20. SupporterOK'
  BY <1>1, <1>2, <1>10, <1>12 DEF SupporterOK
<1>21. TaskOK'
  BY <1>1, <1>3, <1>9, <1>13, IdFacts DEF TaskOK
<1>22. ActivityOK' /\ CurrentOK' /\ CounterOK'
  BY <1>1, <1>9 DEF ActivityOK, CurrentOK, CounterOK
<1> QED
  BY <1>5, <1>14, <1>18, <1>19, <1>20, <1>21, <1>22 DEF Inv

-----------------------------------------------------------------------------
(* The invariant and what follows from it.                                 *)

\* The steps of the specification, named one by one.
LEMMA Steps ==
  ASSUME Next
  PROVE  /\ limit' = limit
         /\ \/ \E c \in Candidate : HandleInit(c)
            \/ \E c \in Candidate, id \in Id : CompleteCampaign(c, id)
            \/ \E c \in Candidate : Callback(c)
            \/ \E c \in Candidate : HandleFeedback(c)
            \/ \E c \in Candidate : CountFeedback(c)
            \/ \E v \in Voter : HearFirst(v)
            \/ \E v \in Voter : HearAgain(v)
            \/ \E n \in Node, id \in Id, v \in Voter : Tell(n, id, v)
            \/ \E n \in Node : DropFinished(n)
            \/ \E n \in Node, id \in Id : HearCampaign(n, id)
            \/ \E m \in feedback : SendFeedback(m)
BY DEF Next, NodeStep

\* Every step of a candidate, a voter or the network keeps the invariant: what
\* handlers hold over an await, what is queued and what is counted stay in
\* accord (candidate.js:38-71, voter.js:28-52, rumorAlgorithm.js:60-130).
THEOREM Invariance ==
  Spec => []Inv
<1>1. Init => Inv
  BY InvInit
<1>2. Inv /\ [Next]_vars => Inv'
  <2> SUFFICES ASSUME Inv, [Next]_vars PROVE Inv'
    OBVIOUS
  <2>1. CASE Next
    BY <2>1, Steps, HandleInitKeepsInv, CompleteCampaignKeepsInv, CallbackKeepsInv,
       HandleFeedbackKeepsInv, CountFeedbackKeepsInv, HearFirstKeepsInv, HearAgainKeepsInv,
       TellKeepsInv, DropFinishedKeepsInv, HearCampaignKeepsInv, SendFeedbackKeepsInv
  <2>2. CASE UNCHANGED vars
    BY <2>2 DEF vars, candidateVars, voterVars, campaignVars, Inv, TypeOK, ActivityOK, CurrentOK, TaskOK,
                QueueOK, FeedbackOK, CounterOK, SpreadOK, SupporterOK, Heard, NotCounted, Queued, InHandler
  <2> QED
    BY <2>1, <2>2
<1> QED
  BY <1>1, <1>2, PTL DEF Spec

\* A candidate is in one activity at a time, and what a handler counts after
\* its await is still about the current rumor (candidate.js:49-71, 99-127).
THEOREM OneActivityHolds ==
  Spec => []OneActivity
<1>1. Inv => OneActivity
  <2> SUFFICES ASSUME Inv, NEW c \in Candidate
               PROVE  /\ current[c] # NoId => current[c] = <<c, started[c]>> /\ kind[current[c]] = "rumor"
                      /\ \A k \in 1..(started[c] - 1) : kind[<<c, k>>] = "campaign" => complete[<<c, k>>]
                      /\ task[c].pc = "count" => task[c].id = current[c]
    BY DEF OneActivity
  <2>1. current[c] # NoId => current[c] = <<c, started[c]>> /\ kind[current[c]] = "rumor"
    BY DEF Inv, CurrentOK
  <2>2. ASSUME NEW k \in 1..(started[c] - 1), kind[<<c, k>>] = "campaign"
        PROVE  complete[<<c, k>>]
    <3>1. started[c] \in Nat /\ started[c] <= MaxActivities /\ MaxActivities \in Nat
      BY LastActivity, ConstantFacts DEF Inv
    <3>2. k \in 1..MaxActivities /\ k < started[c]
      BY <3>1
    <3> QED
      BY <2>2, <3>2 DEF Inv, ActivityOK
  <2>3. task[c].pc = "count" => task[c].id = current[c]
    BY DEF Inv, TaskOK
  <2> QED
    BY <2>1, <2>2, <2>3
<1> QED
  BY <1>1, Invariance, PTL

\* A rumor is left when exactly Receives[c] different voters have answered it,
\* whatever feedback to older rumors is on its way (candidate.js:49-61).
THEOREM CountedFeedbackHolds ==
  Spec => []CountedFeedback
<1>1. Inv => CountedFeedback
  <2> SUFFICES ASSUME Inv, NEW c \in Candidate, NEW k \in 1..started[c], kind[<<c, k>>] = "rumor"
               PROVE  IF k = started[c] THEN Cardinality(counted[<<c, k>>]) < Receives[c]
                                        ELSE Cardinality(counted[<<c, k>>]) = Receives[c]
    BY DEF CountedFeedback
  <2>1. started[c] \in Nat /\ started[c] <= MaxActivities /\ MaxActivities \in Nat
    BY LastActivity, ConstantFacts DEF Inv
  <2>2. k \in 1..MaxActivities /\ (k = started[c] \/ k < started[c]) /\ <<c, k>> \in Id
    BY <2>1, IdFacts
  <2>3. CASE k = started[c]
    <3>1. current[c] = <<c, k>> /\ current[c] # NoId
      BY <2>2, <2>3, ConstantFacts DEF Inv, ActivityOK
    <3>2. counter[c] % Receives[c] = Cardinality(counted[<<c, k>>])
      BY <3>1 DEF Inv, CounterOK
    <3>3. counter[c] \in Nat /\ Receives[c] \in Nat \ {0}
      BY ConstantFacts DEF Inv, TypeOK
    <3>4. counter[c] % Receives[c] \in 0..(Receives[c] - 1)
      BY <3>3, ModSuccessor
    <3> QED
      BY <2>3, <3>2, <3>3, <3>4
  <2>4. CASE k # started[c]
    BY <2>2, <2>4 DEF Inv, CounterOK
  <2> QED
    BY <2>3, <2>4
<1> QED
  BY <1>1, Invariance, PTL

\* Whatever campaigns and rumors have come when the observer counts, a candidate
\* has the votes of its supporters and of the other voters it has won
\* (observerNode.js:51-77).
THEOREM SupportersCountHolds ==
  Spec => []SupportersCount
<1> DEFINE supporters(c) == {v \in Voter : c \in Supported(v)}
           won(c)        == {v \in Voter : Supported(v) = {} /\ IsFavorite(level[v], c)}
<1>1. ASSUME Inv, NEW c \in Candidate
      PROVE  Pro(Statuses, c) = supporters(c) \cup won(c)
  <2>1. HasLevels(Statuses) \subseteq Voter /\ \A v \in Voter : Statuses[v] = level[v] /\ v \in HasLevels(Statuses)
    <3>1. \A v \in Voter : level[v] # NoLevels /\ v \in Node
      BY <1>1, StatusAssumption, IdFacts DEF Inv, TypeOK
    <3> QED
      BY <3>1 DEF HasLevels, Statuses
  <2>2. \A v \in Voter, d \in Candidate : d \in Supported(v) => level[v] = SupporterOpinion(d)
    BY <1>1 DEF Inv, SupporterOK
  <2>3. ASSUME NEW d \in Candidate
        PROVE  IsFavorite(SupporterOpinion(d), c) <=> d = c
    BY Competitors, LevelAssumption DEF IsFavorite, SupporterOpinion, Candidate
  <2>4. \A v \in Voter : Supported(v) \subseteq Candidate
    BY ConstantFacts
  <2>5. \A v : v \in Pro(Statuses, c) <=> v \in Voter /\ IsFavorite(level[v], c)
    BY <2>1 DEF Pro
  <2>6. \A v \in Voter : IsFavorite(level[v], c) <=>
          c \in Supported(v) \/ (Supported(v) = {} /\ IsFavorite(level[v], c))
    BY <2>2, <2>3, <2>4
  <2> QED
    BY <2>5, <2>6
<1>2. ASSUME NEW S \in SUBSET Voter
      PROVE  IsFiniteSet(S) /\ Cardinality(S) \in Nat
  BY ConstantFacts, FS_Subset, FS_CardinalityType
<1>3. ASSUME Inv, NEW c \in Candidate
      PROVE  /\ Cardinality(Pro(Statuses, c)) = Cardinality(supporters(c)) + Cardinality(won(c))
             /\ Cardinality(supporters(c)) \in Nat /\ Cardinality(won(c)) \in Nat
  <2>1. supporters(c) \in SUBSET Voter /\ won(c) \in SUBSET Voter /\ supporters(c) \cap won(c) = {}
    OBVIOUS
  <2>2. Cardinality(supporters(c) \cap won(c)) = 0
    BY <2>1, FS_EmptySet
  <2>3. Cardinality(supporters(c) \cup won(c))
          = Cardinality(supporters(c)) + Cardinality(won(c)) - Cardinality(supporters(c) \cap won(c))
    BY <1>2, <2>1, FS_Union
  <2>4. Cardinality(supporters(c)) \in Nat /\ Cardinality(won(c)) \in Nat
    BY <1>2, <2>1
  <2>5. Pro(Statuses, c) = supporters(c) \cup won(c)
    BY <1>1, <1>3
  <2> HIDE DEF supporters, won
  <2> QED
    BY <2>2, <2>3, <2>4, <2>5
<1>4. Inv => SupportersCount
  <2> SUFFICES ASSUME Inv, NEW c \in Candidate
               PROVE  LET r == Result(Statuses)
                          d == Competitor(c) IN
                      /\ r.count[c] = Cardinality(supporters(c)) + Cardinality(won(c))
                      /\ Cardinality(supporters(c)) = Cardinality(supporters(d)) =>
                           (r.winner = c <=> Cardinality(won(c)) > Cardinality(won(d)))
    BY DEF SupportersCount
  <2> DEFINE d == Competitor(c)
  <2>1. d \in Candidate /\ d # c
    BY Competitors
  <2>2. Result(Statuses).count[c] = Cardinality(Pro(Statuses, c))
    BY DEF Result
  <2>3. /\ Cardinality(Pro(Statuses, c)) = Cardinality(supporters(c)) + Cardinality(won(c))
        /\ Cardinality(supporters(c)) \in Nat /\ Cardinality(won(c)) \in Nat
    BY <1>3
  <2>4. /\ Cardinality(Pro(Statuses, d)) = Cardinality(supporters(d)) + Cardinality(won(d))
        /\ Cardinality(supporters(d)) \in Nat /\ Cardinality(won(d)) \in Nat
    BY <1>3, <2>1
  <2>5. Cardinality(Pro(Statuses, c)) \in Nat /\ Cardinality(Pro(Statuses, d)) \in Nat
    <3> HIDE DEF d, supporters, won
    <3> QED
      BY <2>3, <2>4
  <2>6. Result(Statuses).winner = c <=> Cardinality(Pro(Statuses, c)) > Cardinality(Pro(Statuses, d))
    BY <2>1, <2>5, Competitors DEF Result, Candidate, Tie
  <2> HIDE DEF d, supporters, won
  <2>7. Cardinality(supporters(c)) = Cardinality(supporters(d)) =>
          (Cardinality(Pro(Statuses, c)) > Cardinality(Pro(Statuses, d))
             <=> Cardinality(won(c)) > Cardinality(won(d)))
    BY <2>3, <2>4
  <2> QED
    BY <2>2, <2>3, <2>6, <2>7 DEF d
<1> QED
  BY <1>4, Invariance, PTL

\* Only a rumor of the other candidate that a voter hears for the first time
\* can turn it, and a level of zero stays (confidenceLevel.js:23-39, 70-80).
THEOREM OpinionsSettleHolds ==
  Spec => OpinionsSettle
<1> DEFINE Settled ==
      \A v \in Voter, c \in Candidate :
        /\ level[v][c] = 0 => level'[v][c] = 0
        /\ IsFavorite(level[v], c) /\ ~IsFavorite(level'[v], c) =>
             \E id \in Id : id[1] = Competitor(c) /\ v \in Heard(id)' \ Heard(id)
<1>1. ASSUME Inv, Next
      PROVE  Settled
  <2> SUFFICES ASSUME NEW v \in Voter, NEW c \in Candidate
               PROVE  /\ level[v][c] = 0 => level'[v][c] = 0
                      /\ IsFavorite(level[v], c) /\ ~IsFavorite(level'[v], c) =>
                           \E id \in Id : id[1] = Competitor(c) /\ v \in Heard(id)' \ Heard(id)
    OBVIOUS
  <2>1. level \in [Voter -> Opinion] /\ tellers \in [Voter -> [Id -> SUBSET Node]]
    BY <1>1 DEF Inv, TypeOK
  <2>2. CASE level'[v] = level[v]
    BY <2>2
  <2>3. ASSUME NEW n \in Node, NEW id \in Id, HearCampaign(n, id), level'[v] # level[v]
        PROVE  level'[v] = OnCampaign(level[v], id[1]) /\ id[1] \in Candidate
    BY <2>1, <2>3, IdFacts DEF HearCampaign
  <2>4. CASE \E n \in Node, id \in Id : HearCampaign(n, id) /\ level'[v] # level[v]
    BY <2>1, <2>3, <2>4, CampaignKeepsFavorite
  <2>5. CASE HearFirst(v) /\ level'[v] # level[v]
    <3>1. queue[v] # <<>>
      BY <2>5 DEF HearFirst
    <3>2. PICK m \in Message : m = Head(queue[v])
      BY <1>1, <3>1, RumorFacts
    <3> DEFINE d == m.id[1]
    <3>3. /\ level'[v] = OnChooseMe(level[v], d) /\ tellers[v][m.id] = {}
          /\ tellers' = [tellers EXCEPT ![v][m.id] = {m.from}]
      BY <2>1, <2>5, <3>2 DEF HearFirst
    <3>4. m.id \in Id /\ d \in Candidate
      BY MessageFacts
    <3>5. v \in Heard(m.id)' \ Heard(m.id)
      BY <2>1, <3>3, <3>4 DEF Heard
    <3>6. d # c => d = Competitor(c)
      BY <3>4, Competitors DEF Candidate
    <3>7. /\ level[v][c] = 0 => level'[v][c] = 0
          /\ d = c /\ IsFavorite(level[v], c) => IsFavorite(level'[v], c)
      BY <2>1, <3>3, <3>4, ChooseMeKeepsFavorite
    <3> QED
      BY <3>4, <3>5, <3>6, <3>7
  <2>6. level'[v] = level[v] \/ HearFirst(v) \/ \E n \in Node, id \in Id : HearCampaign(n, id)
    <3>1. \A w \in Voter : HearFirst(w) => w = v \/ level'[v] = level[v]
      BY <2>1 DEF HearFirst
    <3>2. \/ level' = level
          \/ \E w \in Voter : HearFirst(w)
          \/ \E n \in Node, id \in Id : HearCampaign(n, id)
      BY <1>1, Steps DEF HandleInit, CompleteCampaign, Callback, HandleFeedback, CountFeedback,
         HearAgain, Tell, DropFinished, SendFeedback, voterVars
    <3> QED
      BY <3>1, <3>2
  <2> QED
    BY <2>2, <2>4, <2>5, <2>6
<1>2. Inv /\ [Next]_vars => [Settled]_vars
  BY <1>1
<1> QED
  BY <1>2, Invariance, PTL DEF Spec, OpinionsSettle

-----------------------------------------------------------------------------
(* The rumors implement RumorSpread.                                       *)

Told == [id \in Id |-> {p \in Node \X Voter : p[1] \in tellers[p[2]][id]}]

LEMMA ToldFacts ==
  ASSUME TypeOK, NEW v \in Voter, NEW n \in Node, NEW i \in Id
  PROVE  /\ <<n, v>> \in Told[i] <=> n \in tellers[v][i]
         /\ tellers' = [tellers EXCEPT ![v][i] = tellers[v][i] \cup {n}] =>
              Told' = [Told EXCEPT ![i] = Told[i] \cup {<<n, v>>}]
<1>1. <<n, v>> \in Told[i] <=> n \in tellers[v][i]
  BY DEF Told
<1>2. ASSUME tellers' = [tellers EXCEPT ![v][i] = tellers[v][i] \cup {n}]
      PROVE  Told' = [Told EXCEPT ![i] = Told[i] \cup {<<n, v>>}]
  <2>1. tellers \in [Voter -> [Id -> SUBSET Node]]
    BY DEF TypeOK
  <2>2. /\ tellers'[v][i] = tellers[v][i] \cup {n}
        /\ \A w \in Voter, j \in Id : w # v \/ j # i => tellers'[w][j] = tellers[w][j]
    BY <1>2, <2>1
  <2> DEFINE pairs(j)  == {p \in Node \X Voter : p[1] \in tellers[p[2]][j]}
             pairsN(j) == {p \in Node \X Voter : p[1] \in tellers'[p[2]][j]}
  <2>3. pairsN(i) = pairs(i) \cup {<<n, v>>}
    <3>1. \A p \in Node \X Voter : p[1] \in tellers'[p[2]][i] <=> p[1] \in tellers[p[2]][i] \/ p = <<n, v>>
      <4> TAKE p \in Node \X Voter
      <4>1. p = <<p[1], p[2]>> /\ p[1] \in Node /\ p[2] \in Voter
        OBVIOUS
      <4>2. CASE p[2] = v
        BY <2>2, <4>1, <4>2
      <4>3. CASE p[2] # v
        BY <2>2, <4>1, <4>3
      <4> QED
        BY <4>2, <4>3
    <3>2. <<n, v>> \in Node \X Voter
      OBVIOUS
    <3> QED
      BY <3>1, <3>2
  <2>4. \A j \in Id : j # i => pairsN(j) = pairs(j)
    <3> TAKE j \in Id
    <3>1. j # i => \A p \in Node \X Voter : tellers'[p[2]][j] = tellers[p[2]][j]
      BY <2>2
    <3> QED
      BY <3>1
  <2>5. Told = [j \in Id |-> pairs(j)] /\ Told' = [j \in Id |-> pairsN(j)]
    BY DEF Told
  <2> HIDE DEF pairs, pairsN
  <2> QED
    BY <2>3, <2>4, <2>5
<1> QED
  BY <1>1, <1>2

LEMMA ActivitySpreads ==
  ASSUME Inv, NEW c \in Candidate, ActivityStarted(c), tellers' = tellers
  PROVE  Spread!Next \/ UNCHANGED <<Told, believers>>
<1> DEFINE new == <<c, started[c] + 1>>
<1>1. Told' = Told
  BY DEF Told
<1>2. new \in Id /\ kind[new] = "none" /\ (StartedCampaign(c, new) \/ StartedRumor(c, new)) /\ new[1] = c
  BY DEF ActivityStarted
<1> HIDE DEF new
<1>3. believers[new] = {}
  BY <1>2 DEF Inv, SpreadOK
<1>4. CASE StartedCampaign(c, new)
  BY <1>1, <1>4 DEF StartedCampaign
<1>5. CASE StartedRumor(c, new)
  <2>1. [i \in Id |-> i[1]][new] = c
    BY <1>2
  <2>2. believers' = [believers EXCEPT ![new] = {c}]
    BY <1>5 DEF StartedRumor
  <2>3. Spread!Start(new)
    BY <1>1, <1>3, <2>1, <2>2 DEF Spread!Start, Told
  <2> QED
    BY <1>2, <2>3 DEF Spread!Next
<1> QED
  BY <1>2, <1>4, <1>5

LEMMA HearingSpreads ==
  ASSUME Inv, NEW v \in Voter, HearFirst(v) \/ HearAgain(v)
  PROVE  Spread!Next
<1>1. TypeOK /\ queue[v] # <<>>
  BY DEF Inv, HearFirst, HearAgain
<1>2. PICK m \in Message : m = Head(queue[v])
  BY <1>1, RumorFacts
<1> DEFINE id == m.id
<1>3. /\ id \in Id /\ m.from \in Node /\ m.from \in believers[id]
      /\ v \in Friends[m.from] /\ m.from \notin tellers[v][id]
  BY <1>1, <1>2, RumorFacts
<1>4. tellers' = [tellers EXCEPT ![v][id] = tellers[v][id] \cup {m.from}]
  <2>1. CASE HearAgain(v)
    BY <1>2, <2>1 DEF HearAgain
  <2>2. CASE HearFirst(v)
    <3>1. tellers[v][id] = {} /\ tellers' = [tellers EXCEPT ![v][id] = {m.from}]
      BY <1>2, <2>2 DEF HearFirst
    <3>2. {m.from} = tellers[v][id] \cup {m.from}
      BY <3>1
    <3> QED
      BY <3>1, <3>2
  <2> QED
    BY <2>1, <2>2
<1>5. <<m.from, v>> \notin Told[id] /\ Told' = [Told EXCEPT ![id] = Told[id] \cup {<<m.from, v>>}]
  BY <1>1, <1>3, <1>4, ToldFacts
<1>6. \/ believers' = believers
      \/ tellers[v][id] = {} /\ believers' = [believers EXCEPT ![id] = believers[id] \cup {v}]
  BY <1>2 DEF HearFirst, HearAgain
<1>7. ASSUME tellers[v][id] = {}
      PROVE  ~Spread!Knows(id, v)
  <2>1. \A n \in believers[id] : n \in Node
    BY <1>1, <1>3 DEF TypeOK
  <2>2. \A n \in believers[id] : <<n, v>> \notin Told[id]
    BY <1>1, <1>3, <1>7, <2>1, ToldFacts
  <2> QED
    BY <2>2 DEF Spread!Knows, Told
<1>8. Spread!Tell(id, m.from, v)
  BY <1>3, <1>5, <1>6, <1>7 DEF Spread!Tell, Told
<1> QED
  BY <1>3, <1>8 DEF Spread!Next

\* The rumors of the program, with their queues, their loops of sends and the
\* feedback, do nothing that the abstract rumors do not (rumorAlgorithm.js:60-130).
THEOREM RumorSpreadsHolds ==
  Spec => RumorSpreads
<1>1. Init => Spread!Init
  <2> SUFFICES ASSUME Init PROVE Spread!Init
    OBVIOUS
  <2>1. \A v \in Voter, id \in Id : tellers[v][id] = {}
    BY DEF Init
  <2>2. \A id \in Id : {p \in Node \X Voter : p[1] \in tellers[p[2]][id]} = {}
    BY <2>1
  <2> QED
    BY <2>2 DEF Init, Spread!Init
<1>2. ASSUME Inv, [Next]_vars
      PROVE  Spread!Next \/ UNCHANGED <<Told, believers>>
  <2>1. CASE UNCHANGED vars
    BY <2>1 DEF vars, voterVars, Told
  <2>2. CASE Next
    <3>1. limit' = limit /\ TypeOK /\ ActivityOK
      BY <1>2, <2>2, Steps DEF Inv
    <3>2. ASSUME NEW c \in Candidate, NEW awaited \in BOOLEAN, StartActivity(c, awaited), tellers' = tellers
          PROVE  Spread!Next \/ UNCHANGED <<Told, believers>>
      BY <1>2, <3>1, <3>2, StartActivityEffect, ActivitySpreads
    <3>3. CASE \E c \in Candidate : HandleInit(c) \/ Callback(c) \/ CountFeedback(c)
      <4>1. PICK c \in Candidate : HandleInit(c) \/ Callback(c) \/ CountFeedback(c)
        BY <3>3
      <4>2. \/ StartActivity(c, TRUE) \/ StartActivity(c, FALSE)
            \/ believers' = believers
        BY <4>1 DEF HandleInit, Callback, CountFeedback
      <4>3. tellers' = tellers
        BY <4>1 DEF HandleInit, Callback, CountFeedback, voterVars
      <4> QED
        BY <3>2, <4>2, <4>3 DEF Told
    <3>4. CASE \E v \in Voter : HearFirst(v) \/ HearAgain(v)
      BY <1>2, <3>4, HearingSpreads
    <3>5. CASE \/ \E c \in Candidate : HandleFeedback(c) \/ \E id \in Id : CompleteCampaign(c, id)
               \/ \E n \in Node, id \in Id : HearCampaign(n, id) \/ \E v \in Voter : Tell(n, id, v)
               \/ \E n \in Node : DropFinished(n)
               \/ \E m \in feedback : SendFeedback(m)
      <4>1. UNCHANGED <<tellers, believers>>
        BY <3>5 DEF HandleFeedback, CompleteCampaign, HearCampaign, Tell, DropFinished, SendFeedback, voterVars
      <4> QED
        BY <4>1 DEF Told
    <3> QED
      BY <2>2, <3>3, <3>4, <3>5, Steps
  <2> QED
    BY <1>2, <2>1, <2>2
<1>3. Inv /\ [Next]_vars => [Spread!Next]_Spread!vars
  BY <1>2 DEF Spread!vars, Told
<1> QED
  BY <1>1, <1>3, Invariance, PTL DEF Spec, RumorSpreads, Spread!Spec

=============================================================================
