-------------------------- MODULE SnapshotInvariant --------------------------
(***************************************************************************)
(* Why the safety properties of Snapshot hold: an inductive invariant, for *)
(* an observer that is asked for one snapshot.                             *)
(*                                                                         *)
(* The observer asks one question at a time.  A node's part in the round   *)
(* is open while the question waits at the node or its answer waits at the *)
(* observer; the open parts are what obs.expected - obs.responses counts.  *)
(***************************************************************************)
EXTENDS Snapshot

Elements(q) == {q[i] : i \in 1..Len(q)}

Question == {"get-local-vector-timestamp", "take-snapshot-at", "update-vector-clock"}

\* The states in which the answers to each question may be under way.
Calling   == {"idle", "collect-timestamps"}
Proposing == {"calculate-snapshot-timestamp", "distribute-snapshot-timestamp"}
Forcing   == {"timestamp-distributed", "collect-node-state"}

\* Messages of which a process never has two.
SameKind(x, y) ==
  \/ x.type \in Question /\ y.type \in Question
  \/ x.type = "response" /\ y.type = "response" /\ x.from = y.from
  \/ x.type = "take-snapshot" /\ y.type = "take-snapshot"
OneOfEachKind(q) == \A i, j \in 1..Len(q) : SameKind(q[i], q[j]) => i = j

Requested(n) == \E m \in Elements(inbox[n]) : m.type \in Question
Answered(n)  == \E m \in Elements(inbox[Observer]) : m.type = "response" /\ m.from = n
Open         == {n \in Node : Requested(n) \/ Answered(n)}

\* What may wait at a node: the question of the round, as it was asked.
AtNode(n, m) ==
  \/ m.type = "app"
  \/ m.type = "get-local-vector-timestamp" /\ obs.state \in Calling
  \/ m.type = "take-snapshot-at" /\ obs.state \in Proposing /\ m.at = obs.timestamp
  \/ /\ m.type = "update-vector-clock" /\ obs.state \in Forcing
     /\ m.time[n] >= obs.timestamp /\ reported[n] = None

\* What may wait at the observer: the request, or an answer that still says
\* how it is with the node.
AtObserver(m) ==
  \/ m.type = "take-snapshot" /\ obs.state = "idle" /\ sending = None /\ asked > 0
  \/ /\ m.type = "response" /\ m.from \in Node
     /\ \/ obs.state \in Calling
        \/ /\ obs.state \in Proposing
           /\ m.content.is = "valid" => snapshotTimestamp[m.from] = obs.timestamp
        \/ /\ obs.state \in Forcing
           /\ m.content = [is |-> "status", of |-> m.from, value |-> reported[m.from]]
           /\ reported[m.from] # None

InboxOK ==
  /\ \A p \in Proc : OneOfEachKind(inbox[p])
  /\ \A n \in Node : \A m \in Elements(inbox[n]) : AtNode(n, m)
  /\ \A m \in Elements(inbox[Observer]) : AtObserver(m)

\* The observer's control state.
PhaseOK ==
  /\ ~illegal
  /\ obs.killed <=> obs.state = "finished"
  /\ obs.negative => obs.state = "distribute-snapshot-timestamp"
  /\ IF sending = None
     THEN obs.state \in {"idle", "finished"} \cup Collecting
     ELSE \/ sending.type = "get-local-vector-timestamp" /\ obs.state = "idle"
          \/ sending.type = "take-snapshot-at" /\ obs.state = "calculate-snapshot-timestamp"
          \/ sending.type = "update-vector-clock" /\ obs.state = "timestamp-distributed"
  /\ asked = 0 => obs.state = "idle" /\ sending = None

\* No node has two parts in a round, and what the observer counts is the number
\* of open ones; a node without a part is dead or still to be asked.
RoundOK ==
  /\ \A n \in Node : ~(Requested(n) /\ Answered(n))
  /\ sending # None => /\ Open \cap sending.rest = {}
                       /\ sending.contacted = Cardinality(Open)
                       /\ alive \subseteq Open \cup sending.rest
  /\ sending = None /\ obs.state \in Collecting => obs.expected = obs.responses + Cardinality(Open)
  /\ sending = None /\ obs.state \notin Collecting => Open = {}

\* Who was counted without a refusal has accepted the proposal.
AgreementOK ==
  /\ (obs.state = "distribute-snapshot-timestamp" /\ ~obs.negative) =>
       \A n \in alive \ Open : snapshotTimestamp[n] = obs.timestamp
  /\ obs.state \in Forcing \cup {"finished"} =>
       /\ \A n \in alive : snapshotTimestamp[n] = obs.timestamp
       /\ \A n \in Node : clock[Observer][n] >= obs.timestamp

\* A node reports in the last round only, and has reached its snapshot time then.
ReportOK ==
  /\ obs.state \notin Forcing \cup {"finished"} => \A n \in Node : reported[n] = None
  /\ sending # None => \A n \in sending.rest : reported[n] = None
  /\ \A n \in Node : reported[n] # None =>
       /\ vote[n] = reported[n]
       /\ snapshotTimestamp[n] # None /\ clock[n][n] >= snapshotTimestamp[n]

\* The tally has one status of every living node whose part is not open.
TallyOK ==
  /\ obs.state \notin {"collect-node-state", "finished"} => nodeFinishedStates = <<>>
  /\ \A i \in 1..Len(nodeFinishedStates) :
       LET s == nodeFinishedStates[i] IN
       /\ s.is = "status" /\ s.of \notin Open
       /\ s.value = reported[s.of] /\ reported[s.of] # None
       /\ \A j \in 1..Len(nodeFinishedStates) : nodeFinishedStates[j].of = s.of => j = i
  /\ obs.state \in {"collect-node-state", "finished"} =>
       \A n \in alive \ Open : \E i \in 1..Len(nodeFinishedStates) : nodeFinishedStates[i].of = n

Inv == TypeOK /\ InboxOK /\ PhaseOK /\ RoundOK /\ AgreementOK /\ ReportOK /\ TallyOK
=============================================================================
