----------------------------- MODULE AtomicSend -----------------------------
(***************************************************************************)
(* What the message handler promises the algorithms, and nothing about     *)
(* connections and answers: a process has a mailbox and handles one        *)
(* message after the other, a send is one step from the loop of a handler  *)
(* into the mailbox of another process, or it is lost, and a handler is    *)
(* not through before its sends are.  The sends of handlers in Echo,       *)
(* Election and Snapshot are of this kind; ServerLogic implements them.    *)
(***************************************************************************)
EXTENDS Sequences

CONSTANTS Node,
          Neighbors,  \* [Node -> SUBSET Node]
          Observer,   \* the process that may stop itself
          User        \* from whom messages come at any time

VARIABLES mailbox,    \* [Node -> Seq of [from, type]] messages that wait
          handling,   \* [Node -> the type of the message it handles, or "nothing"]
          unsent,     \* [Node -> SUBSET Node] to whom its handler has still to send
          stopped     \* [Node -> BOOLEAN]

vars == <<mailbox, handling, unsent, stopped>>

Init ==
  /\ mailbox = [n \in Node |-> <<>>]
  /\ handling = [n \in Node |-> "nothing"]
  /\ unsent = [n \in Node |-> {}]
  /\ stopped = [n \in Node |-> FALSE]

Put(n, from, type) ==
  mailbox' = [mailbox EXCEPT ![n] = Append(@, [from |-> from, type |-> type])]

Request(n) ==
  /\ \E type \in {"algorithm", "STOP", "STOP ALL"} : Put(n, User, type)
  /\ UNCHANGED <<handling, unsent, stopped>>

\* A handler sends what it handles: STOP ALL, or messages of the algorithm.
Send(n, m) ==
  /\ m \in unsent[n]
  /\ unsent' = [unsent EXCEPT ![n] = @ \ {m}]
  /\ Put(m, n, handling[n])
  /\ UNCHANGED <<handling, stopped>>

\* Sends that fail; a process that dies may lose several at once.
Lose ==
  /\ unsent' \in [Node -> SUBSET Node]
  /\ \A n \in Node : unsent'[n] \subseteq unsent[n]
  /\ UNCHANGED <<mailbox, handling, stopped>>

\* The next message of the mailbox, when the last handler is through.
Take(n) ==
  /\ handling[n] = "nothing"
  /\ mailbox[n] # <<>>
  /\ mailbox' = [mailbox EXCEPT ![n] = Tail(@)]

Drop(n) == Take(n) /\ stopped[n] /\ UNCHANGED <<handling, unsent, stopped>>

\* A process that is stopped never leaves the handler that stopped it.
Handle(n, type, S) ==
  /\ Take(n) /\ ~stopped[n]
  /\ type = Head(mailbox[n]).type
  /\ handling' = [handling EXCEPT ![n] = type]
  /\ unsent' = [unsent EXCEPT ![n] = S]
  /\ \/ type = "algorithm" /\ S \subseteq Neighbors[n] /\ UNCHANGED stopped
     \/ /\ \/ type = "STOP" /\ S = {}
           \/ type = "STOP ALL" /\ S = Neighbors[n]
        /\ stopped' = [stopped EXCEPT ![n] = TRUE]

Finish(n) ==
  /\ handling[n] = "algorithm" /\ unsent[n] = {}
  /\ handling' = [handling EXCEPT ![n] = "nothing"]
  /\ \/ UNCHANGED stopped
     \/ n = Observer /\ stopped' = [stopped EXCEPT ![n] = TRUE]
  /\ UNCHANGED <<mailbox, unsent>>

Next ==
  \/ Lose
  \/ \E n \in Node : \/ Request(n) \/ Drop(n) \/ Finish(n)
                     \/ \E m \in Node : Send(n, m)
                     \/ \E type \in {"algorithm", "STOP", "STOP ALL"}, S \in SUBSET Node :
                          Handle(n, type, S)

Spec == Init /\ [][Next]_vars
=============================================================================
