-------------------------- MODULE ElectionInvariant --------------------------
(***************************************************************************)
(* Why the safety properties of Election hold: an inductive invariant.     *)
(***************************************************************************)
EXTENDS Election

InSeq(x, q)     == \E i \in 1..Len(q) : q[i] = x
NoRepetition(q) == \A i, j \in 1..Len(q) : q[i] = q[j] => i = j

\* Message m waits at node n; a handler is about to count it.
Queued(n, m) == InSeq(m, queue[n])
InHandler(m) ==
  LET t == task[m.id[1]] IN t.pc = "count" /\ t.id = m.id /\ t.from = m.from

\* The activities of a candidate are numbered; only the last one may be open,
\* and if it is a rumor it is the current one.
ActivityOK ==
  \A c \in Candidate, k \in 1..MaxActivities :
    LET id == <<c, k>> IN
    /\ kind[id] # "none" <=> k <= started[c]
    /\ kind[id] = "campaign" /\ k < started[c] => complete[id]
    /\ kind[id] = "rumor" /\ k = started[c] => current[c] = id
    /\ informed[id] # {} \/ complete[id] => kind[id] = "campaign"

CurrentOK ==
  \A c \in Candidate :
    current[c] # NoId => started[c] > 0 /\ current[c] = <<c, started[c]>> /\ kind[current[c]] = "rumor"

\* What a handler of a candidate holds in its local variables is not stale.
TaskOK ==
  \A c \in Candidate :
    /\ task[c].pc = "count" =>
         /\ task[c].id = current[c] /\ task[c].id \in Id /\ task[c].from \in Voter
    /\ task[c].pc = "callback" =>
         started[c] > 0 /\ task[c].id = <<c, started[c]>> /\ complete[task[c].id]

QueueOK == \A n \in Node : NoRepetition(queue[n])

\* A feedback comes from a voter that knows the rumor, and is not counted yet.
NotCounted(m) == m.from \in Heard(m.id) /\ m.from \notin counted[m.id]

\* A voter's feedback to a rumor is in one place at most: on its way, in the
\* candidate's queue, in its handler, or counted.
FeedbackOK ==
  /\ \A m \in feedback : NotCounted(m) /\ ~Queued(m.id[1], m) /\ ~InHandler(m)
  /\ \A c \in Candidate, m \in Message :
       Queued(c, m) => m.id[1] = c /\ NotCounted(m) /\ ~InHandler(m)
  /\ \A m \in Message : InHandler(m) => NotCounted(m)
  /\ \A id \in Id : counted[id] \subseteq Heard(id)

\* The one counter and the feedback to the single rumors.
CounterOK ==
  /\ \A id \in Id : counted[id] # {} => kind[id] = "rumor"
  /\ \A c \in Candidate :
       /\ current[c] = NoId => counter[c] % Receives[c] = 0
       /\ current[c] # NoId => counter[c] % Receives[c] = Cardinality(counted[current[c]])
       /\ \A k \in 1..MaxActivities :
            k < started[c] /\ kind[<<c, k>>] = "rumor" => Cardinality(counted[<<c, k>>]) = Receives[c]

\* What is told, under way or still to be told comes from a believer, goes to
\* a friend, and is in one of the three places only.
SpreadOK ==
  /\ \A id \in Id : believers[id] # {} => kind[id] = "rumor"
  /\ \A id \in Id, v \in Voter :
       /\ v \in believers[id] => v \in Heard(id)
       /\ \A n \in tellers[v][id] : n \in believers[id] /\ v \in Friends[n]
  /\ \A v \in Voter, m \in Message :
       Queued(v, m) => m.from \in believers[m.id] /\ v \in Friends[m.from] /\ m.from \notin tellers[v][m.id]
  /\ \A n \in Node, id \in Id : \A v \in unsent[n][id] :
       /\ n \in believers[id] /\ v \in Friends[n]
       /\ n \notin tellers[v][id] /\ ~Queued(v, [id |-> id, from |-> n])

\* Supporters never waver.
SupporterOK ==
  \A v \in Voter, c \in Candidate : c \in Supported(v) => level[v] = SupporterOpinion(c)

Inv ==
  /\ TypeOK
  /\ ActivityOK /\ CurrentOK /\ TaskOK
  /\ QueueOK /\ FeedbackOK /\ CounterOK
  /\ SpreadOK
  /\ SupporterOK
=============================================================================
