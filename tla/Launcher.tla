------------------------------ MODULE Launcher ------------------------------
(***************************************************************************)
(* The launching of an election (run-election.js, process-helpers/         *)
(* spawn-election-nodes.js, run-node.js, tools/init.js): main() starts a   *)
(* process for each node, learns from the lines they print that they are   *)
(* ready, starts the observer, has the candidates initialised, waits, has  *)
(* a snapshot taken, learns from a line of the observer that it is over,   *)
(* and stops all.                                                          *)
(*                                                                         *)
(* A process writes its lines one after the other into a pipe; the         *)
(* launcher gets them in chunks: all that is in the pipe when it reads, or *)
(* a part of it that ends inside a line.                                   *)
(* What the awaiting main() does next is part of the event that resolves   *)
(* its promise.                                                            *)
(***************************************************************************)
EXTENDS Integers, Sequences, FiniteSets

CONSTANTS Nodes,      \* number of nodes, without the observer
          Neighbors,  \* [1..Nodes -> SUBSET 1..Nodes]
          MaxFaults,  \* bound: failing processes and lines on stderr
          MaxCuts,    \* bound: chunks that end inside a line
          MaxLog      \* bound: log lines during the election

ASSUME LauncherAssumption ==
  /\ Nodes \in Nat /\ Nodes >= 2
  /\ Neighbors \in [1..Nodes -> SUBSET (1..Nodes)]
  /\ MaxFaults \in Nat /\ MaxCuts \in Nat /\ MaxLog \in Nat

Observer  == 0
Child     == 0..Nodes
Candidate == {1, 2}

VARIABLES
  phase,         \* what main() awaits, or how it ended
  lineCount,     \* childStdOutLineCount
  startedNodes,  \* numberOfStartedNodes
  process,       \* [Child -> Stage]
  pipe,          \* [Child -> Seq(Line)] standard output not yet read
  cuts,          \* history: chunks that ended inside a line
  stderr,        \* SUBSET Child with output on standard error, not yet read
  tool,          \* the addresses tools/init.js has still to contact
  initialised,   \* SUBSET Candidate
  observer,      \* how far it is with the snapshot
  faults, logged

launcherVars == <<phase, lineCount, startedNodes, tool, cuts>>
vars == <<launcherVars, process, pipe, stderr, initialised, observer, faults, logged>>

Spawning == {"spawn", "spawnObserver"}
Phase    == Spawning \cup {"init", "sleep", "snapshot", "stop", "done", "aborted"}
Starting == {"spawned", "npm", "constructed", "hello"}
\* failed: ended by an error before its Hello; crashed: after it.
Stage    == Starting \cup {"none", "listening", "failed", "crashed", "stopped"}
\* rest: what is left of a line that was cut; newline: only its end is left.
Line     == {"FINISH", "other", "rest", "newline"}

TypeOK ==
  /\ phase \in Phase
  /\ lineCount \in 0..(4 * startedNodes - 1)
  /\ startedNodes \in {1, Nodes}
  /\ process \in [Child -> Stage]
  /\ pipe \in [Child -> Seq(Line)]
  /\ cuts \in 0..MaxCuts
  /\ stderr \in SUBSET Child
  /\ tool \in Seq(Child)
  /\ initialised \in SUBSET Candidate
  /\ observer \in {"idle", "counting", "answered", "reported"}
  /\ faults \in 0..MaxFaults /\ logged \in 0..MaxLog

\* generateGraph() is over, spawn() has started the nodes.
Init ==
  /\ phase = "spawn"
  /\ lineCount = 0 /\ startedNodes = Nodes
  /\ process = [c \in Child |-> IF c = Observer THEN "none" ELSE "spawned"]
  /\ pipe = [c \in Child |-> <<>>]
  /\ cuts = 0
  /\ stderr = {}
  /\ tool = <<>>
  /\ initialised = {}
  /\ observer = "idle"
  /\ faults = 0 /\ logged = 0

Written(c, lines) == pipe' = [pipe EXCEPT ![c] = @ \o lines]

\* stop() logs a SHUTDOWN.
Stopped(c) ==
  /\ process' = [process EXCEPT ![c] = "stopped"]
  /\ Written(c, <<"other">>)

-----------------------------------------------------------------------------
(* The processes.                                                          *)

\* npm says what it runs, the constructor and getMessageProcessor() log a
\* line each; the last one is the Hello.
StartUp(c) ==
  /\ \/ /\ process[c] = "spawned"
        /\ process' = [process EXCEPT ![c] = "npm"]
        /\ Written(c, <<"other", "other">>)
     \/ /\ process[c] = "npm"
        /\ process' = [process EXCEPT ![c] = "constructed"]
        /\ Written(c, <<"other">>)
     \/ /\ process[c] = "constructed"
        /\ process' = [process EXCEPT ![c] = "hello"]
        /\ Written(c, <<"other">>)
  /\ UNCHANGED <<launcherVars, stderr, initialised, observer, faults, logged>>

\* Only after its Hello does the process begin to listen.
Listen(c) ==
  /\ process[c] = "hello"
  /\ process' = [process EXCEPT ![c] = "listening"]
  /\ UNCHANGED <<launcherVars, pipe, stderr, initialised, observer, faults, logged>>

Fault == faults < MaxFaults /\ faults' = faults + 1

\* An id that is not in the graph, a port that is in use, ...
Fail(c) ==
  /\ process[c] \in Starting
  /\ Fault
  /\ process' = [process EXCEPT ![c] = IF @ = "hello" THEN "crashed" ELSE "failed"]
  /\ stderr' = stderr \cup {c}
  /\ UNCHANGED <<launcherVars, pipe, initialised, observer, logged>>

\* A warning of npm or node, or an error in a handler.
Complain(c) ==
  /\ process[c] \in Starting \cup {"listening"}
  /\ Fault
  /\ stderr' = stderr \cup {c}
  /\ UNCHANGED <<launcherVars, process, pipe, initialised, observer, logged>>

\* The election goes on.
Log(c) ==
  /\ process[c] = "listening"
  /\ initialised # {} \/ observer # "idle"
  /\ c = Observer => observer \in {"idle", "counting"}
  /\ logged < MaxLog /\ logged' = logged + 1
  /\ Written(c, <<"other">>)
  /\ UNCHANGED <<launcherVars, process, stderr, initialised, observer, faults>>

\* The last message of the snapshot, the result and the shutdown: three lines
\* of one handler (serverLogic.js:70, observerNode.js:88-89).
Report ==
  /\ process[Observer] = "listening"
  /\ \/ /\ observer = "counting" /\ observer' = "answered"
        /\ Written(Observer, <<"other">>)
        /\ UNCHANGED process
     \/ /\ observer = "answered" /\ observer' = "reported"
        /\ Written(Observer, <<"FINISH">>)
        /\ UNCHANGED process
     \/ /\ observer = "reported" /\ UNCHANGED observer
        /\ Stopped(Observer)
  /\ UNCHANGED <<launcherVars, stderr, initialised, faults, logged>>

-----------------------------------------------------------------------------
(* The launcher.                                                           *)

\* Plausible mistake: one line fewer.
ThreeLines == 3

NUMBER_OUTPUT_LINES_PER_PROCESS == 4

\* Plausible mistake: a chunk counts as a line.
OneLine(chunk) == 1

\* The parts of a line that was cut count as a line each.
countNonEmptyLines(chunk) == Cardinality({i \in 1..Len(chunk) : chunk[i] # "newline"})

AllChildsStarted(count) == count >= NUMBER_OUTPUT_LINES_PER_PROCESS * startedNodes

\* Plausible mistake: what was counted for the nodes stays.
KeptCount(count) == count

\* The new line count.
Counted(count) == IF AllChildsStarted(count) THEN 0 ELSE count

\* spawnObserver() follows spawn(), initElectionProcess() spawnObserver().
Resolve ==
  \/ /\ phase = "spawn" /\ phase' = "spawnObserver"
     /\ startedNodes' = 1
     /\ process' = [process EXCEPT ![Observer] = "spawned"]
     /\ UNCHANGED tool
  \/ /\ phase = "spawnObserver" /\ phase' = "init"
     /\ tool' = <<1, 2>>
     /\ UNCHANGED <<startedNodes, process>>

\* A promise that is settled already stays as it is.
ResolveSpawn(count) ==
  IF phase \in Spawning /\ AllChildsStarted(count) THEN Resolve
  ELSE UNCHANGED <<phase, startedNodes, process, tool>>

\* onElectionFinished() lets main() go on to stopAll().
ResolveElection ==
  /\ phase' = "stop"
  /\ tool' = <<1, 2>>
  /\ UNCHANGED <<startedNodes, process>>

\* The test for FINISH looks at the begin of the chunk, and the parse of the
\* result throws when the line is not complete.
_readProcessStdOut(chunk, complete) ==
  LET count == lineCount + countNonEmptyLines(chunk) IN
  /\ lineCount' = Counted(count)
  /\ IF Head(chunk) = "FINISH" /\ complete /\ phase = "snapshot"
       THEN ResolveElection
       ELSE ResolveSpawn(count)
  /\ UNCHANGED <<stderr, initialised, observer, faults, logged>>

\* A chunk of k lines of c, of which rest remains to be read.
Chunk(c, k, rest) ==
  /\ _readProcessStdOut(SubSeq(pipe[c], 1, k), k > 1 \/ rest # <<"rest">>)
  /\ pipe' = [pipe EXCEPT ![c] = rest \o SubSeq(@, k + 1, Len(@))]

\* The chunk is all that is in the pipe.
Read(c) ==
  /\ pipe[c] # <<>>
  /\ Chunk(c, Len(pipe[c]), <<>>)
  /\ UNCHANGED cuts

\* The chunk ends inside a line, or before its newline.
ReadCut(c) ==
  /\ cuts < MaxCuts /\ cuts' = cuts + 1
  /\ \E k \in 1..Len(pipe[c]), rest \in {<<"rest">>, <<"newline">>} :
       pipe[c][k] # "newline" /\ Chunk(c, k, rest)

\* _readProcessStdErr() rejects the promise of spawn() or spawnObserver(), and
\* main() ends; the processes go on.
ReadErr(c) ==
  /\ c \in stderr
  /\ stderr' = stderr \ {c}
  /\ phase' = IF phase \in Spawning THEN "aborted" ELSE phase
  /\ UNCHANGED <<lineCount, startedNodes, tool, cuts, process, pipe, initialised, observer, faults, logged>>

\* Plausible mistake: STOP instead of STOP ALL.
NoNeighbors(c) == {}

\* Whom sendStopSignalToNeighbors() tells.
StopsToo(c) == Neighbors[c]

\* tools/init.js contacts the next address; that nobody listens there is
\* logged and forgotten.  STOP ALL gets from a node to its neighbours; see
\* StopNode.
Contact ==
  /\ tool # <<>>
  /\ tool' = Tail(tool)
  /\ \/ /\ process[Head(tool)] # "listening"
        /\ UNCHANGED <<process, pipe, initialised, observer>>
     \/ /\ process[Head(tool)] = "listening" /\ phase = "init"
        /\ initialised' = initialised \cup {Head(tool)}
        /\ UNCHANGED <<process, pipe, observer>>
     \/ /\ process[Head(tool)] = "listening" /\ phase = "snapshot"
        /\ observer' = "counting"
        /\ UNCHANGED <<process, pipe, initialised>>
     \/ /\ process[Head(tool)] = "listening" /\ phase = "stop"
        /\ Stopped(Head(tool))
        /\ UNCHANGED <<initialised, observer>>
  /\ UNCHANGED <<phase, lineCount, startedNodes, cuts, stderr, faults, logged>>

\* A neighbour that stops sends STOP ALL before it closes its server.
StopNode(c) ==
  /\ phase \in {"stop", "done"}
  /\ process[c] = "listening"
  /\ \E n \in 1..Nodes : process[n] = "stopped" /\ c \in StopsToo(n)
  /\ Stopped(c)
  /\ UNCHANGED <<launcherVars, stderr, initialised, observer, faults, logged>>

\* The tool has ended, or the delay is over.
GoOn ==
  /\ tool = <<>>
  /\ \/ phase = "init" /\ phase' = "sleep" /\ UNCHANGED tool
     \/ phase = "sleep" /\ phase' = "snapshot" /\ tool' = <<Observer>>
     \/ phase = "stop" /\ phase' = "done" /\ UNCHANGED tool
  /\ UNCHANGED <<lineCount, startedNodes, cuts, process, pipe, stderr, initialised, observer, faults, logged>>

-----------------------------------------------------------------------------
Next ==
  \/ \E c \in Child : \/ StartUp(c) \/ Listen(c) \/ Fail(c) \/ Complain(c)
                      \/ Log(c) \/ Read(c) \/ ReadCut(c) \/ ReadErr(c)
  \/ \E c \in 1..Nodes : StopNode(c)
  \/ Report \/ Contact \/ GoOn

\* The processes run, and the launcher's event loop serves each pipe.
Fairness ==
  /\ \A c \in Child : WF_vars(StartUp(c) \/ Listen(c)) /\ WF_vars(Read(c) \/ ReadErr(c))
  /\ \A c \in 1..Nodes : WF_vars(StopNode(c))
  /\ WF_vars(Report) /\ WF_vars(Contact) /\ WF_vars(GoOn)

Spec == Init /\ [][Next]_vars /\ Fairness

-----------------------------------------------------------------------------
(* Properties.                                                             *)

Ready(c) == process[c] \in {"hello", "listening", "crashed", "stopped"}

Missing(S) == {c \in S : ~Ready(c)}

\* The observer starts after the Hello of each node, and INIT is sent after
\* that of the observer (README.md:175-177): so it is when no line is cut.
ReadyBeforeInit ==
  /\ process[Observer] # "none" => Missing(1..Nodes) = {}
  /\ phase \notin Spawning \cup {"aborted"} => Missing(Child) = {}

\* Nothing but a number of lines tells the launcher that the processes are
\* ready, the lines of several come in chunks of any size, and both parts of
\* a line that is cut are counted (spawn-election-nodes.js:68-73, 84-86).
\* Still each cut hides one process at most: no more of them than lines were
\* cut have not said Hello when the observer starts, and when INIT is sent,
\* although what is left of the nodes' output is counted for the observer.
\* The launcher does not wait for any of them to listen.
ReadyUnlessCut ==
  /\ process[Observer] # "none" => Cardinality(Missing(1..Nodes)) <= cuts
  /\ phase \notin Spawning \cup {"aborted"} => Cardinality(Missing(Child)) <= cuts

\* However the output is cut into chunks, no line is counted too few: main()
\* gets to the snapshot, or a line on standard error ends it, as it does when
\* a process fails before its Hello (spawn-election-nodes.js:66-95).
LaunchCompletes == <>(phase \in {"snapshot", "aborted"})

\* When all listen as stopAll() begins, no process is left running, although
\* only the candidates are told by the launcher (run-election.js:72-74).
NobodyLeftRunning ==
  (phase = "stop" /\ tool = <<1, 2>> /\ \A c \in 1..Nodes : process[c] = "listening")
    ~> \A c \in Child : process[c] = "stopped"

\* As soon as a result is available all processes are ended and the election
\* is over (README.md:178-179).
ResultEndsElection == observer = "reported" ~> phase = "done"
=============================================================================
