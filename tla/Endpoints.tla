----------------------------- MODULE Endpoints -----------------------------
(***************************************************************************)
(* What a node makes of the graph file at its start                        *)
(* (parser/graphvizParser.js, parser/endpointParser.js and                 *)
(* network-core/endpointManager.js): its address and those of its          *)
(* neighbours.  file[m][n] is the number of lines that connect m and n.    *)
(***************************************************************************)
EXTENDS Integers, FiniteSets, FiniteSetsExt

MIN_PORT == 4001
OBSERVER_ENDPOINT == [id |-> 0, port |-> 4000]

\* Only ids that are in some edge become nodes.
ParsedNodes(file) == {n \in DOMAIN file : \E m \in DOMAIN file : file[m][n] > 0}

ParsedNeighbors(file, n) == {m \in ParsedNodes(file) : file[n][m] > 0}

\* Plausible mistake: ports begin at the smallest voter.
SmallestVoterId(file) == Min(ParsedNodes(file) \ {1, 2})

NodeWithSmallestId(file) == Min(ParsedNodes(file))
NodeWithBiggestId(file)  == Max(ParsedNodes(file))

\* Ids up to the largest have an address, with or without a node.
LocalEndpoints(file) ==
  LET min == NodeWithSmallestId(file) IN
  {OBSERVER_ENDPOINT} \cup
    {[id |-> id, port |-> MIN_PORT + id - min] : id \in min..NodeWithBiggestId(file)}

\* The endpoints a node sends to; setMyId() throws for an id that is no node.
MyNeighbors(file, n) ==
  IF n = OBSERVER_ENDPOINT.id
  THEN LocalEndpoints(file) \ {OBSERVER_ENDPOINT}
  ELSE {e \in LocalEndpoints(file) : e.id \in ParsedNeighbors(file, n)}

CanStart(file, n) == n = OBSERVER_ENDPOINT.id \/ n \in ParsedNodes(file)
=============================================================================
