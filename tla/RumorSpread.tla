---------------------------- MODULE RumorSpread ----------------------------
(***************************************************************************)
(* What the choose-me rumors promise, and nothing about how: a rumor goes  *)
(* from believers to their friends, a voter makes up its mind about it     *)
(* once, when it first hears it, and who does not believe tells nobody.    *)
(* Election.tla implements it.                                             *)
(***************************************************************************)
CONSTANTS Voter,
          Friends,    \* [nodes -> SUBSET Voter] whom a node would tell
          Id,         \* the rumors
          Initiator   \* [Id -> nodes], the candidate that starts it

VARIABLES told,       \* [Id -> SUBSET (nodes \X Voter)] who told whom
          believers   \* [Id -> SUBSET nodes] the initiator, and who agrees

vars == <<told, believers>>

Init ==
  /\ told = [id \in Id |-> {}]
  /\ believers = [id \in Id |-> {}]

Start(id) ==
  /\ believers[id] = {}
  /\ believers' = [believers EXCEPT ![id] = {Initiator[id]}]
  /\ UNCHANGED told

Knows(id, v) == \E n \in believers[id] : <<n, v>> \in told[id]

\* Every friend is told once; who hears it for the first time may come to
\* believe it, who knows it does not change its mind.
Tell(id, n, v) ==
  /\ n \in believers[id] /\ v \in Friends[n]
  /\ <<n, v>> \notin told[id]
  /\ told' = [told EXCEPT ![id] = @ \cup {<<n, v>>}]
  /\ \/ UNCHANGED believers
     \/ ~Knows(id, v) /\ believers' = [believers EXCEPT ![id] = @ \cup {v}]

Next == \E id \in Id : Start(id) \/ \E n \in believers[id], v \in Voter : Tell(id, n, v)

Spec == Init /\ [][Next]_vars
=============================================================================
