---------------------------- MODULE EchoFeedback ----------------------------
(***************************************************************************)
(* What the campaigns promise their initiators, and nothing about how: the *)
(* content of a campaign spreads along the edges of the network, and its   *)
(* initiator hears of the completion only once every node is informed      *)
(* ("propagation of information with feedback").  Echo.tla is the protocol *)
(* that implements it; Echo!Feedback!Spec is the refinement.               *)
(***************************************************************************)
CONSTANTS Node,       \* the nodes of the network, candidates included
          Neighbors,  \* [Node -> SUBSET Node]
          Id,         \* the campaigns
          Initiator   \* [Id -> Node], the candidate that starts a campaign

VARIABLES informed,   \* [Id -> SUBSET Node] nodes that know the content
          complete    \* [Id -> BOOLEAN] the initiator was told so

vars == <<informed, complete>>

Init ==
  /\ informed = [id \in Id |-> {}]
  /\ complete = [id \in Id |-> FALSE]

\* The initiator writes the content into its own state.
Begin(id) ==
  /\ informed[id] = {}
  /\ informed' = [informed EXCEPT ![id] = {Initiator[id]}]
  /\ UNCHANGED complete

\* A node hears the content from a neighbour that knows it.
Inform(id, n) ==
  /\ n \notin informed[id]
  /\ Neighbors[n] \cap informed[id] # {}
  /\ informed' = [informed EXCEPT ![id] = @ \cup {n}]
  /\ UNCHANGED complete

\* The feedback: nobody is left out when it arrives, and it arrives once.
Finish(id) ==
  /\ ~complete[id]
  /\ informed[id] = Node
  /\ complete' = [complete EXCEPT ![id] = TRUE]
  /\ UNCHANGED informed

Next == \E id \in Id : Begin(id) \/ Finish(id) \/ \E n \in Node : Inform(id, n)

Spec == Init /\ [][Next]_vars
=============================================================================
