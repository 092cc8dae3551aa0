------------------------ MODULE ServerLogicInvariant ------------------------
(***************************************************************************)
(* Why the messages of one process are handled in the order in which they  *)
(* were sent (InOrder in ServerLogic), and why a send may be taken for one *)
(* step (AtomicSends): an inductive invariant.                             *)
(***************************************************************************)
EXTENDS ServerLogic

\* Connection c carries an algorithm message of process m.
Algorithm(c, m) == conn[c].type = "algorithm" /\ conn[c].from = m

\* c and d do not carry two messages of one process, or c was opened first.
Earlier(c, d) == \A m \in Node : Algorithm(c, m) /\ Algorithm(d, m) => c < d

\* A process sends one message after the other: the only send that may not be
\* settled is the last one, and it is waited for.
SendOK ==
  \A m \in Node : \A c \in Index : Algorithm(c, m) =>
    /\ Settled(c) \/ awaited[m] = c
    /\ awaited[m] # 0 => c <= awaited[m]

\* Only a handler of the algorithm has somebody left to send to or waits for
\* a send, which is to nobody it has still to send to.
LoopOK ==
  \A n \in Node :
    /\ ~Busy(n) => rest[n] = {} /\ awaited[n] = 0
    /\ awaited[n] # 0 => Algorithm(awaited[n], n) /\ conn[awaited[n]].to \notin rest[n]

\* What else a process sends is STOP ALL, once to each neighbour, by the
\* handler that it never leaves.
FloodOK ==
  \A c \in Index, n \in Node : conn[c].from = n /\ conn[c].type # "algorithm" =>
    /\ conn[c].type = "STOP ALL"
    /\ holder[n] # 0 /\ conn[holder[n]].type = "STOP ALL"
    /\ \A d \in Index : (/\ conn[d].from = n /\ conn[d].to = conn[c].to
                          /\ conn[d].type = "STOP ALL") => d = c

\* What is in a queue was answered.
Acked(q) == \A i \in 1..Len(q) : conn[q[i]].phase = "acked"

QueueOK == \A n \in Node : Acked(handled[n]) /\ Acked(waiting[n])

\* The messages of one process are in order in q, and those in q come before
\* those in r.
Ascending(q) == \A i, j \in 1..Len(q) : i < j => Earlier(q[i], q[j])
Before(q, r) == \A i \in 1..Len(q), j \in 1..Len(r) : Earlier(q[i], r[j])

OrderOK ==
  \A n \in Node :
    Ascending(handled[n]) /\ Ascending(waiting[n]) /\ Before(handled[n], waiting[n])

Inv == TypeOK /\ SendOK /\ LoopOK /\ FloodOK /\ QueueOK /\ OrderOK
=============================================================================
