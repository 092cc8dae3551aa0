--------------------------- MODULE LauncherProofs ---------------------------
(***************************************************************************)
(* Proofs about the launching of an election (Launcher), for any number of *)
(* nodes, any network, any number of failing processes and of log lines.   *)
(***************************************************************************)
EXTENDS LauncherInvariant, FiniteSetTheorems, SequenceTheorems, TLAPS

-----------------------------------------------------------------------------
(* Processes and their output.                                             *)

\* The constants, as the proofs use them.
LEMMA ChildFacts ==
  /\ Observer \in Child /\ 1 \in Child /\ 2 \in Child /\ 1..Nodes \subseteq Child
  /\ Observer \notin 1..Nodes
  /\ \A c \in Child : c = Observer \/ c \in 1..Nodes
  /\ Nodes \in Nat /\ Nodes >= 2
BY LauncherAssumption DEF Child, Observer

\* What a process writes goes behind what is in its pipe.
LEMMA WrittenFacts ==
  ASSUME pipe \in [Child -> Seq(Line)], NEW c \in Child, NEW lines \in Seq(Line), Written(c, lines)
  PROVE  /\ pipe' \in [Child -> Seq(Line)]
         /\ Len(pipe'[c]) = Len(pipe[c]) + Len(lines)
         /\ \A d \in Child : d # c => pipe'[d] = pipe[d]
<1>1. pipe' = [pipe EXCEPT ![c] = pipe[c] \o lines]
  BY DEF Written
<1>2. PICK q \in Seq(Line) : q = pipe[c]
  OBVIOUS
<1>3. q \o lines \in Seq(Line) /\ Len(q \o lines) = Len(q) + Len(lines)
  OBVIOUS
<1>4. pipe'[c] = q \o lines /\ \A d \in Child : d # c => pipe'[d] = pipe[d]
  BY <1>1, <1>2
<1>5. pipe' \in [Child -> Seq(Line)]
  BY <1>1, <1>2, <1>3
<1> QED
  BY <1>2, <1>3, <1>4, <1>5

\* The pieces of output the processes write.
LEMMA OutputFacts ==
  /\ <<"other", "other">> \in Seq(Line) /\ Len(<<"other", "other">>) = 2
  /\ <<"other">> \in Seq(Line) /\ Len(<<"other">>) = 1
  /\ <<"FINISH">> \in Seq(Line) /\ Len(<<"FINISH">>) = 1
  /\ <<"rest">> \in Seq(Line) /\ Len(<<"rest">>) = 1
  /\ <<"newline">> \in Seq(Line) /\ Len(<<"newline">>) = 1
<1>1. "other" \in Line /\ "FINISH" \in Line /\ "rest" \in Line /\ "newline" \in Line
  BY DEF Line
<1>2. \A a, b \in Line : /\ <<a, b>> \in Seq(Line) /\ Len(<<a, b>>) = 2
                         /\ <<a>> \in Seq(Line) /\ Len(<<a>>) = 1
  OBVIOUS
<1> QED
  BY <1>1, <1>2

\* What was unread and is read cancels out.
LEMMA Cancels == \A a, l, m \in Int : (a + l) - (l - m) = a + m
OBVIOUS

\* Arithmetic of chunks: each line that is cut is counted once more than it
\* is read.
LEMMA Arithmetic ==
  /\ \A k, l, j, n, d \in Int :
       j = d /\ 0 <= j /\ j <= 1 /\ 1 <= k /\ k <= l /\ n <= k =>
         /\ 0 <= k - j /\ k - j <= l /\ n <= (k - j) + d
         /\ j + (l - k) = l - (k - j)
  /\ \A count, n, base, lines, m, old, new \in Int :
       count + base <= lines + old /\ n <= m + (new - old) =>
         (count + n) + base <= (lines + m) + new
OBVIOUS

\* The addresses of the tool.
LEMMA ToolFacts ==
  /\ <<1, 2>> \in Seq(Child) /\ <<2>> \in Seq(Child) /\ <<Observer>> \in Seq(Child)
  /\ <<>> \in Seq(Child)
  /\ <<1, 2>> # <<>> /\ Tail(<<1, 2>>) = <<2>> /\ Head(<<1, 2>>) = 1
  /\ <<2>> # <<>> /\ Tail(<<2>>) = <<>> /\ Head(<<2>>) = 2
  /\ <<Observer>> # <<>> /\ Tail(<<Observer>>) = <<>> /\ Head(<<Observer>>) = Observer
<1>1. \A a, b \in Child : /\ <<a, b>> \in Seq(Child) /\ <<a>> \in Seq(Child)
                          /\ <<a, b>> # <<>> /\ Tail(<<a, b>>) = <<b>> /\ Head(<<a, b>>) = a
                          /\ <<a>> # <<>> /\ Tail(<<a>>) = <<>> /\ Head(<<a>>) = a
  OBVIOUS
<1>2. <<>> \in Seq(Child)
  OBVIOUS
<1> QED
  BY <1>1, <1>2, ChildFacts, Zenon

\* ToolOK determines the addresses, so it gives their type.
LEMMA ToolTyped ==
  ASSUME phase \in Phase, ToolOK
  PROVE  /\ tool \in Seq(Child)
         /\ tool # <<>> => /\ phase \in {"init", "snapshot", "stop"}
                           /\ Head(tool) \in Child
                           /\ phase = "init" => Head(tool) \in Candidate
<1>1. tool \in {<<1, 2>>, <<2>>, <<Observer>>, <<>>}
  BY DEF ToolOK
<1>2. tool \in Seq(Child)
  BY <1>1, ToolFacts, Zenon
<1>3. ASSUME tool # <<>>
      PROVE  /\ phase \in {"init", "snapshot", "stop"}
             /\ Head(tool) \in Child
             /\ phase = "init" => Head(tool) \in Candidate
  <2>1. phase \in {"init", "snapshot", "stop"}
    BY <1>3 DEF ToolOK
  <2>2. Head(tool) \in {1, 2, Observer}
    BY <1>1, <1>3, ToolFacts, Zenon
  <2>3. phase = "init" => Head(tool) \in {1, 2}
    BY <1>3, ToolFacts, Zenon DEF ToolOK
  <2> QED
    BY <2>1, <2>2, <2>3, ChildFacts DEF Candidate
<1> QED
  BY <1>2, <1>3

-----------------------------------------------------------------------------
(* The processes.                                                          *)

\* What a step of the processes does to process c: it is ready for good, a
\* process that is not started does nothing, and as long as main() starts
\* processes, what c writes are the lines of its start.
Grows(c) ==
  /\ Ready(c) => Ready(c)'
  /\ process'[c] = "none" <=> process[c] = "none"
  /\ phase \in Spawning /\ process[c] # "stopped" =>
       /\ process'[c] # "stopped"
       /\ Lines(c)' - Len(pipe'[c]) >= Lines(c) - Len(pipe[c])

\* Lines is a number of lines.
LEMMA LinesFacts ==
  ASSUME NEW c
  PROVE  /\ Lines(c) \in 0..4 /\ Lines(c)' \in 0..4
         /\ process[c] = "none" => Lines(c) = 0
         /\ process[c] \in Stage /\ Lines(c) = 4 => Ready(c)
BY DEF Lines, Ready, Stage, Starting, NUMBER_OUTPUT_LINES_PER_PROCESS

\* All lines that can be read before the election begins.
Grid == Child \X (1..4)

LEMMA GridFacts ==
  /\ IsFiniteSet(1..Nodes) /\ Cardinality(1..Nodes) = Nodes
  /\ IsFiniteSet(Child) /\ Cardinality(Child) = Nodes + 1
  /\ IsFiniteSet(1..4) /\ Cardinality(1..4) = 4
  /\ IsFiniteSet(Grid)
  /\ ReadLines \in SUBSET Grid /\ IsFiniteSet(ReadLines) /\ Cardinality(ReadLines) \in Nat
<1>1. 0 \in Int /\ 1 \in Int /\ 4 \in Int /\ Nodes \in Int /\ ~(0 > Nodes) /\ ~(1 > Nodes) /\ ~(1 > 4)
  BY ChildFacts
<1>2. IsFiniteSet(1..Nodes) /\ Cardinality(1..Nodes) = Nodes - 1 + 1
  BY <1>1, FS_Interval
<1>3. IsFiniteSet(0..Nodes) /\ Cardinality(0..Nodes) = Nodes - 0 + 1
  BY <1>1, FS_Interval
<1>4. IsFiniteSet(1..4) /\ Cardinality(1..4) = 4 - 1 + 1
  BY <1>1, FS_Interval
<1>5. IsFiniteSet(Child) /\ Cardinality(Child) = Nodes + 1
  BY <1>1, <1>3 DEF Child
<1>6. IsFiniteSet(Grid)
  BY <1>4, <1>5, FS_Product DEF Grid
<1>7. ReadLines \in SUBSET Grid
  BY DEF ReadLines, Grid, NUMBER_OUTPUT_LINES_PER_PROCESS
<1>8. IsFiniteSet(ReadLines) /\ Cardinality(ReadLines) \in Nat
  BY <1>6, <1>7, FS_Subset, FS_CardinalityType
<1> QED
  BY <1>1, <1>2, <1>4, <1>5, <1>6, <1>7, <1>8

\* When no process loses lines, no line that was read is forgotten.
LEMMA ReadLinesGrow ==
  ASSUME \A c \in Child : Lines(c)' - Len(pipe'[c]) >= Lines(c) - Len(pipe[c]),
         \A c \in Child : Len(pipe[c]) \in Nat /\ Len(pipe'[c]) \in Nat
  PROVE  Cardinality(ReadLines) <= Cardinality(ReadLines')
<1>1. ReadLines \subseteq ReadLines'
  <2> SUFFICES ASSUME NEW l \in ReadLines PROVE l \in ReadLines'
    OBVIOUS
  <2>1. PICK c \in Child, i \in 1..4 : l = <<c, i>> /\ i <= Lines(c) - Len(pipe[c])
    BY DEF ReadLines, NUMBER_OUTPUT_LINES_PER_PROCESS
  <2>2. Lines(c) \in Int /\ Lines(c)' \in Int
    BY LinesFacts
  <2>3. i <= Lines(c)' - Len(pipe'[c])
    BY <2>1, <2>2
  <2> QED
    BY <2>1, <2>3 DEF ReadLines, NUMBER_OUTPUT_LINES_PER_PROCESS
<1>2. ReadLines' \subseteq Grid
  BY DEF ReadLines, Grid, NUMBER_OUTPUT_LINES_PER_PROCESS
<1>3. IsFiniteSet(ReadLines')
  BY <1>2, GridFacts, FS_Subset
<1> QED
  BY <1>1, <1>3, FS_Subset

\* Who is ready stays ready, so the missing ones become fewer.
LEMMA MissingShrinks ==
  ASSUME \A c \in Child : Ready(c) => Ready(c)', NEW S \in SUBSET Child
  PROVE  /\ Cardinality(Missing(S)') <= Cardinality(Missing(S))
         /\ Cardinality(Missing(S)) \in Nat /\ Cardinality(Missing(S)') \in Nat
<1>1. Missing(S)' \in SUBSET Missing(S) /\ Missing(S) \in SUBSET Child
  BY DEF Missing
<1>2. IsFiniteSet(Missing(S)) /\ IsFiniteSet(Missing(S)')
  BY <1>1, GridFacts, FS_Subset
<1> QED
  BY <1>1, <1>2, FS_Subset, FS_CardinalityType

\* ReadyUnlessCut is kept by a step that starts nothing and says nothing of
\* who is ready.
LEMMA ReadyKept ==
  ASSUME TypeOK, ReadyUnlessCut, \A c \in Child : Ready(c) => Ready(c)',
         cuts' \in Nat, cuts' >= cuts,
         process'[Observer] # "none" => process[Observer] # "none",
         phase' \notin Spawning \cup {"aborted"} => phase \notin Spawning \cup {"aborted"}
  PROVE  ReadyUnlessCut'
<1>1. /\ Cardinality(Missing(1..Nodes)') <= Cardinality(Missing(1..Nodes))
      /\ Cardinality(Missing(1..Nodes)) \in Nat /\ Cardinality(Missing(1..Nodes)') \in Nat
      /\ Cardinality(Missing(Child)') <= Cardinality(Missing(Child))
      /\ Cardinality(Missing(Child)) \in Nat /\ Cardinality(Missing(Child)') \in Nat
  BY ChildFacts, MissingShrinks
<1>2. cuts \in Nat
  BY LauncherAssumption DEF TypeOK
<1>3. process'[Observer] # "none" => Cardinality(Missing(1..Nodes)') <= cuts'
  BY <1>1, <1>2 DEF ReadyUnlessCut
<1>4. phase' \notin Spawning \cup {"aborted"} => Cardinality(Missing(Child)') <= cuts'
  BY <1>1, <1>2 DEF ReadyUnlessCut
<1> QED
  BY <1>3, <1>4 DEF ReadyUnlessCut

\* Steps of the processes keep the invariant.
LEMMA Growing ==
  ASSUME Inv, TypeOK', UNCHANGED launcherVars, \A c \in Child : Grows(c),
         phase \in Spawning \cup {"aborted"} => UNCHANGED <<initialised, observer>>
  PROVE  Inv'
<1>1. UNCHANGED <<phase, lineCount, startedNodes, tool, cuts>>
  BY DEF launcherVars
<1>2. TypeOK /\ QuietOK /\ ToolOK /\ StartedOK /\ CountOK /\ ReadyUnlessCut
  BY DEF Inv
<1>3. QuietOK' /\ ToolOK'
  BY <1>1, <1>2 DEF QuietOK, ToolOK
<1>4. /\ \A c \in Child : Len(pipe[c]) \in Nat /\ Len(pipe'[c]) \in Nat
      /\ lineCount \in Int /\ cuts \in Nat
  BY <1>2, ChildFacts, LauncherAssumption DEF TypeOK
<1>5. ASSUME phase \in Spawning, NEW c \in Child
      PROVE  /\ process'[c] # "stopped"
             /\ Lines(c)' - Len(pipe'[c]) >= Lines(c) - Len(pipe[c])
             /\ Len(pipe'[c]) <= Lines(c)'
  <2>1. process[c] # "stopped" /\ Len(pipe[c]) <= Lines(c)
    BY <1>2, <1>5 DEF StartedOK
  <2>2. process'[c] # "stopped" /\ Lines(c)' - Len(pipe'[c]) >= Lines(c) - Len(pipe[c])
    BY <2>1, <1>5 DEF Grows
  <2>3. /\ Len(pipe[c]) \in Int /\ Len(pipe'[c]) \in Int
        /\ Lines(c) \in Int /\ Lines(c)' \in Int
    BY <1>4, LinesFacts
  <2>4. Len(pipe'[c]) <= Lines(c)'
    BY <2>1, <2>2, <2>3
  <2> QED
    BY <2>2, <2>4
<1>6. StartedOK'
  BY <1>1, <1>2, <1>5, ChildFacts DEF StartedOK, Grows
<1>7. CountOK'
  <2> SUFFICES ASSUME phase \in Spawning
               PROVE  lineCount + (IF phase = "spawn" THEN 0 ELSE 4 * Nodes)
                        <= Cardinality(ReadLines') + cuts
    BY <1>1 DEF CountOK, NUMBER_OUTPUT_LINES_PER_PROCESS
  <2>1. Cardinality(ReadLines) <= Cardinality(ReadLines')
    BY <1>4, <1>5, ReadLinesGrow
  <2>2. Cardinality(ReadLines) \in Nat /\ Cardinality(ReadLines') \in Nat
    <3>1. ReadLines' \in SUBSET Grid
      BY DEF ReadLines, Grid, NUMBER_OUTPUT_LINES_PER_PROCESS
    <3> QED
      BY <3>1, GridFacts, FS_Subset, FS_CardinalityType
  <2>3. lineCount + (IF phase = "spawn" THEN 0 ELSE 4 * Nodes) <= Cardinality(ReadLines) + cuts
    BY <1>2 DEF CountOK, NUMBER_OUTPUT_LINES_PER_PROCESS
  <2> QED
    BY <2>1, <2>2, <2>3, <1>4, ChildFacts
<1>8. ReadyUnlessCut'
  <2>1. \A c \in Child : Ready(c) => Ready(c)'
    BY DEF Grows
  <2>2. process'[Observer] # "none" => process[Observer] # "none"
    BY ChildFacts DEF Grows
  <2> QED
    BY <2>1, <2>2, <1>1, <1>2, <1>4, ReadyKept
<1> QED
  BY <1>3, <1>6, <1>7, <1>8 DEF Inv

\* TypeOK, part by part, for the steps of processes.
LEMMA ProcessTyped ==
  ASSUME TypeOK, UNCHANGED launcherVars,
         process' \in [Child -> Stage], pipe' \in [Child -> Seq(Line)],
         stderr' \in SUBSET Child, UNCHANGED initialised,
         observer' \in {"idle", "counting", "answered", "reported"},
         faults' \in 0..MaxFaults, logged' \in 0..MaxLog
  PROVE  TypeOK'
BY DEF TypeOK, launcherVars

\* A process that the step is not about.
LEMMA Idle ==
  ASSUME NEW c, process'[c] = process[c], pipe'[c] = pipe[c], Len(pipe[c]) \in Nat
  PROVE  Grows(c)
<1>1. Lines(c)' = Lines(c) /\ Lines(c) \in Int
  BY DEF Lines, NUMBER_OUTPUT_LINES_PER_PROCESS
<1>2. Ready(c)' <=> Ready(c)
  BY DEF Ready
<1> QED
  BY <1>1, <1>2 DEF Grows

\* The lines of the start.
LEMMA StartUpStep ==
  ASSUME Inv, NEW c \in Child, StartUp(c)
  PROVE  Inv'
<1>1. TypeOK /\ process \in [Child -> Stage] /\ pipe \in [Child -> Seq(Line)]
  BY DEF Inv, TypeOK
<1>2. UNCHANGED <<launcherVars, stderr, initialised, observer, faults, logged>>
  BY DEF StartUp
<1>3. PICK s \in Stage, lines \in Seq(Line) :
        /\ process' = [process EXCEPT ![c] = s] /\ Written(c, lines)
        /\ \/ process[c] = "spawned" /\ s = "npm" /\ Len(lines) = 2
           \/ process[c] = "npm" /\ s = "constructed" /\ Len(lines) = 1
           \/ process[c] = "constructed" /\ s = "hello" /\ Len(lines) = 1
  <2>1. {"npm", "constructed", "hello"} \subseteq Stage
    BY DEF Stage, Starting
  <2>2. PICK one \in Seq(Line) : one = <<"other">> /\ Len(one) = 1
    BY OutputFacts
  <2>3. PICK two \in Seq(Line) : two = <<"other", "other">> /\ Len(two) = 2
    BY OutputFacts
  <2>4. \/ process[c] = "spawned" /\ process' = [process EXCEPT ![c] = "npm"] /\ Written(c, two)
        \/ process[c] = "npm" /\ process' = [process EXCEPT ![c] = "constructed"] /\ Written(c, one)
        \/ process[c] = "constructed" /\ process' = [process EXCEPT ![c] = "hello"] /\ Written(c, one)
    BY <2>2, <2>3, Zenon DEF StartUp
  <2> QED
    BY <2>1, <2>2, <2>3, <2>4
<1>4. /\ pipe' \in [Child -> Seq(Line)]
      /\ Len(pipe'[c]) = Len(pipe[c]) + Len(lines)
      /\ \A d \in Child : d # c => pipe'[d] = pipe[d]
  BY <1>1, <1>3, WrittenFacts
<1>5. /\ process' \in [Child -> Stage] /\ process'[c] = s
      /\ \A d \in Child : d # c => process'[d] = process[d]
  BY <1>1, <1>3
<1>6. \A d \in Child : Len(pipe[d]) \in Nat
  BY <1>1
<1>7. Grows(c)
  <2>1. Lines(c)' = Lines(c) + Len(lines) /\ Lines(c) \in Int
    <3>1. CASE process[c] = "spawned" /\ s = "npm" /\ Len(lines) = 2
      <4>1. Lines(c) = 0 /\ Lines(c)' = 2
        BY <3>1, <1>5 DEF Lines
      <4> QED
        BY <3>1, <4>1
    <3>2. CASE process[c] = "npm" /\ s = "constructed" /\ Len(lines) = 1
      <4>1. Lines(c) = 2 /\ Lines(c)' = 3
        BY <3>2, <1>5 DEF Lines
      <4> QED
        BY <3>2, <4>1
    <3>3. CASE process[c] = "constructed" /\ s = "hello" /\ Len(lines) = 1
      <4>1. Lines(c) = 3 /\ Lines(c)' = 4
        BY <3>3, <1>5 DEF Lines, NUMBER_OUTPUT_LINES_PER_PROCESS
      <4> QED
        BY <3>3, <4>1
    <3> QED
      BY <3>1, <3>2, <3>3, <1>3
  <2>2. Len(pipe[c]) \in Int /\ Len(lines) \in Int
    BY <1>3, <1>6
  <2>3. Lines(c)' - Len(pipe'[c]) >= Lines(c) - Len(pipe[c])
    BY <2>1, <2>2, <1>4
  <2>4. ~Ready(c) /\ process[c] # "none" /\ process'[c] \notin {"none", "stopped"}
    BY <1>3, <1>5 DEF Ready
  <2> QED
    BY <2>3, <2>4 DEF Grows
<1>8. \A d \in Child : Grows(d)
  BY <1>4, <1>5, <1>6, <1>7, Idle
<1>9. TypeOK'
  BY <1>1, <1>2, <1>4, <1>5, ProcessTyped DEF TypeOK
<1> QED
  BY <1>2, <1>8, <1>9, Growing

\* Steps that write nothing: Listen, Fail and Complain.
LEMMA SilentStep ==
  ASSUME Inv, NEW c \in Child, Listen(c) \/ Fail(c) \/ Complain(c)
  PROVE  Inv'
<1>1. /\ TypeOK /\ process \in [Child -> Stage] /\ pipe \in [Child -> Seq(Line)]
      /\ faults \in 0..MaxFaults /\ MaxFaults \in Nat /\ stderr \in SUBSET Child
  BY LauncherAssumption DEF Inv, TypeOK
<1>2. /\ UNCHANGED <<launcherVars, pipe, initialised, observer, logged>>
      /\ stderr' \in SUBSET Child
  BY <1>1 DEF Listen, Fail, Complain
<1>3. faults' \in 0..MaxFaults
  BY <1>1 DEF Listen, Fail, Complain, Fault
<1>4. PICK s \in Stage :
        /\ process' = [process EXCEPT ![c] = s]
        /\ \/ process[c] = "hello" /\ s \in {"listening", "crashed"}
           \/ process[c] \in {"spawned", "npm", "constructed"} /\ s = "failed"
           \/ process[c] = s
  <2>1. {"listening", "crashed", "failed"} \subseteq Stage
    BY DEF Stage, Starting
  <2>2. CASE Listen(c)
    <3>1. process[c] = "hello" /\ process' = [process EXCEPT ![c] = "listening"]
      BY <2>2 DEF Listen
    <3> QED
      BY <3>1, <2>1
  <2>3. CASE Fail(c)
    <3>1. /\ process[c] \in {"spawned", "npm", "constructed", "hello"}
          /\ process' = [process EXCEPT ![c] = IF process[c] = "hello" THEN "crashed" ELSE "failed"]
      BY <2>3 DEF Fail, Starting
    <3> QED
      BY <3>1, <2>1
  <2>4. CASE Complain(c)
    <3>1. process' = process
      BY <2>4 DEF Complain
    <3>2. process' = [process EXCEPT ![c] = process[c]]
      BY <3>1, <1>1
    <3> QED
      BY <3>2, <1>1
  <2> QED
    BY <2>2, <2>3, <2>4
<1>5. /\ process' \in [Child -> Stage] /\ process'[c] = s
      /\ \A d \in Child : d # c => process'[d] = process[d]
  BY <1>1, <1>4
<1>6. \A d \in Child : Len(pipe[d]) \in Nat /\ pipe'[d] = pipe[d]
  BY <1>1, <1>2
<1>7. Grows(c)
  <2>1. Lines(c)' >= Lines(c) /\ Lines(c)' \in Int /\ Lines(c) \in Int
    BY <1>4, <1>5 DEF Lines, NUMBER_OUTPUT_LINES_PER_PROCESS
  <2>2. Lines(c)' - Len(pipe'[c]) >= Lines(c) - Len(pipe[c])
    BY <2>1, <1>6
  <2>3. /\ process'[c] = "none" <=> process[c] = "none"
        /\ process[c] # "stopped" => process'[c] # "stopped"
        /\ Ready(c) => Ready(c)'
    BY <1>4, <1>5 DEF Ready
  <2> QED
    BY <2>2, <2>3, <1>6 DEF Grows
<1>8. \A d \in Child : Grows(d)
  BY <1>5, <1>6, <1>7, Idle
<1>9. TypeOK'
  BY <1>1, <1>2, <1>3, <1>5, ProcessTyped DEF TypeOK
<1> QED
  BY <1>2, <1>8, <1>9, Growing

\* Output of the election, of its end and of a node that stops: only when
\* everything has been started.
LEMMA LateStep ==
  ASSUME Inv, Report \/ (\E c \in Child : Log(c)) \/ \E c \in 1..Nodes : StopNode(c)
  PROVE  Inv'
<1>1. /\ TypeOK /\ process \in [Child -> Stage] /\ pipe \in [Child -> Seq(Line)]
      /\ logged \in 0..MaxLog /\ MaxLog \in Nat
      /\ observer \in {"idle", "counting", "answered", "reported"}
  BY LauncherAssumption DEF Inv, TypeOK
<1>2. phase \notin Spawning \cup {"aborted"}
  BY DEF Inv, QuietOK, Report, Log, StopNode, Spawning
<1>3. /\ UNCHANGED <<launcherVars, stderr, initialised, faults>>
      /\ logged' \in 0..MaxLog
      /\ observer' \in {"idle", "counting", "answered", "reported"}
  BY <1>1 DEF Report, Log, StopNode
<1>4. PICK c \in Child, s \in Stage, lines \in Seq(Line) :
        /\ process' = [process EXCEPT ![c] = s] /\ Written(c, lines)
        /\ process[c] = "listening" /\ s \in {"listening", "stopped"}
  <2>1. "stopped" \in Stage /\ "listening" \in Stage
    BY DEF Stage, Starting
  <2>2. PICK one \in Seq(Line) : one = <<"other">>
    BY OutputFacts
  <2>3. PICK finish \in Seq(Line) : finish = <<"FINISH">>
    BY OutputFacts
  <2>4. \A c \in Child : process = [process EXCEPT ![c] = process[c]]
    BY <1>1
  <2>5. CASE Report
    <3>1. process[Observer] = "listening"
      BY <2>5 DEF Report
    <3>2. \/ process' = process /\ Written(Observer, one)
          \/ process' = process /\ Written(Observer, finish)
          \/ process' = [process EXCEPT ![Observer] = "stopped"] /\ Written(Observer, one)
      BY <2>2, <2>3, <2>5, Zenon DEF Report, Stopped
    <3> QED
      BY <3>1, <3>2, <2>1, <2>4, ChildFacts
  <2>6. CASE \E c \in Child : Log(c)
    <3>1. PICK c \in Child : Log(c)
      BY <2>6
    <3>2. process[c] = "listening" /\ process' = process /\ Written(c, one)
      BY <3>1, <2>2, Zenon DEF Log
    <3> QED
      BY <3>2, <2>1, <2>4
  <2>7. CASE \E c \in 1..Nodes : StopNode(c)
    <3>1. PICK c \in 1..Nodes : StopNode(c)
      BY <2>7
    <3>2. process[c] = "listening" /\ process' = [process EXCEPT ![c] = "stopped"] /\ Written(c, one)
      BY <3>1, <2>2, Zenon DEF StopNode, Stopped
    <3> QED
      BY <3>2, <2>1, ChildFacts
  <2> QED
    BY <2>5, <2>6, <2>7
<1>5. /\ pipe' \in [Child -> Seq(Line)]
      /\ \A d \in Child : d # c => pipe'[d] = pipe[d]
  BY <1>1, <1>4, WrittenFacts
<1>6. /\ process' \in [Child -> Stage] /\ process'[c] = s
      /\ \A d \in Child : d # c => process'[d] = process[d]
  BY <1>1, <1>4
<1>7. Grows(c)
  BY <1>2, <1>4, <1>6 DEF Grows, Ready
<1>8. \A d \in Child : Grows(d)
  <2>1. \A d \in Child : Len(pipe[d]) \in Nat
    BY <1>1
  <2> QED
    BY <2>1, <1>5, <1>6, <1>7, Idle
<1>9. TypeOK'
  BY <1>1, <1>3, <1>5, <1>6, ProcessTyped DEF TypeOK
<1> QED
  BY <1>2, <1>3, <1>8, <1>9, Growing

-----------------------------------------------------------------------------
(* The launcher.                                                           *)

\* What a chunk of c takes from its pipe and adds to the count: m lines are
\* read to their end, n are counted, one more than m only if one was cut.
Taken(c, m, n) ==
  /\ m \in 0..Len(pipe[c])
  /\ n \in Nat /\ cuts' \in cuts..MaxCuts /\ n <= m + (cuts' - cuts)
  /\ pipe' \in [Child -> Seq(Line)]
  /\ Len(pipe'[c]) = Len(pipe[c]) - m
  /\ \A d \in Child : d # c => pipe'[d] = pipe[d]
  /\ lineCount' = Counted(lineCount + n)
  /\ \/ phase = "snapshot" /\ ResolveElection
     \/ ResolveSpawn(lineCount + n)
  /\ UNCHANGED <<stderr, initialised, observer, faults, logged>>

\* A chunk has no more lines that are not empty than it has lines.
LEMMA CountFacts ==
  ASSUME NEW chunk \in Seq(Line)
  PROVE  countNonEmptyLines(chunk) \in 0..Len(chunk)
<1>1. {i \in 1..Len(chunk) : chunk[i] # "newline"} \in SUBSET (1..Len(chunk)) /\ Len(chunk) \in Nat
  OBVIOUS
<1>2. IsFiniteSet(1..Len(chunk)) /\ Cardinality(1..Len(chunk)) = Len(chunk)
  <2>1. PICK k \in Nat : k = Len(chunk)
    BY <1>1
  <2>2. IsFiniteSet(1..k) /\ Cardinality(1..k) = IF 1 > k THEN 0 ELSE k - 1 + 1
    BY FS_Interval
  <2> QED
    BY <2>1, <2>2
<1>3. /\ Cardinality({i \in 1..Len(chunk) : chunk[i] # "newline"}) <= Len(chunk)
      /\ Cardinality({i \in 1..Len(chunk) : chunk[i] # "newline"}) \in Nat
  BY <1>1, <1>2, FS_Subset, FS_CardinalityType
<1> QED
  BY <1>1, <1>3 DEF countNonEmptyLines

\* A chunk of k lines, of which at most one is not read to its end.
LEMMA ChunkTaken ==
  ASSUME TypeOK, NEW c \in Child, NEW k \in 1..Len(pipe[c]), NEW rest \in Seq(Line),
         Chunk(c, k, rest), cuts' \in cuts..MaxCuts, Len(rest) = cuts' - cuts, Len(rest) <= 1
  PROVE  \E m, n \in Nat : Taken(c, m, n)
<1>1. PICK q \in Seq(Line) : q = pipe[c]
  BY DEF TypeOK
<1>2. PICK chunk \in Seq(Line) : chunk = SubSeq(q, 1, k) /\ Len(chunk) = k
  <2>1. \A i \in 1..k : q[i] \in Line
    BY <1>1
  <2>2. SubSeq(q, 1, k) \in Seq(Line) /\ Len(SubSeq(q, 1, k)) = k
    BY <2>1, <1>1, SubSeqProperties
  <2> QED
    BY <2>2
<1>3. PICK left \in Seq(Line) : left = SubSeq(q, k + 1, Len(q)) /\ Len(left) = Len(q) - k
  <2>1. \A i \in (k + 1)..Len(q) : q[i] \in Line
    BY <1>1
  <2>2. Len(q) \in Int /\ k + 1 \in Int /\ k <= Len(q)
    BY <1>1
  <2>3. /\ SubSeq(q, k + 1, Len(q)) \in Seq(Line)
        /\ Len(SubSeq(q, k + 1, Len(q))) = IF k + 1 <= Len(q) THEN Len(q) - (k + 1) + 1 ELSE 0
    BY <2>1, <2>2, SubSeqProperties
  <2>4. (IF k + 1 <= Len(q) THEN Len(q) - (k + 1) + 1 ELSE 0) = Len(q) - k
    <3>1. PICK l \in Int : l = Len(q)
      BY <2>2
    <3>2. k \in Int /\ k <= l
      BY <2>2, <3>1
    <3> QED
      BY <3>1, <3>2
  <2> QED
    BY <2>3, <2>4, Zenon
<1>4. PICK complete \in BOOLEAN :
        /\ _readProcessStdOut(chunk, complete)
        /\ pipe' = [pipe EXCEPT ![c] = rest \o left]
  <2>1. /\ _readProcessStdOut(chunk, k > 1 \/ rest # <<"rest">>)
        /\ pipe' = [pipe EXCEPT ![c] = rest \o left]
    BY <1>1, <1>2, <1>3 DEF Chunk
  <2>2. (k > 1 \/ rest # <<"rest">>) \in BOOLEAN
    OBVIOUS
  <2> QED
    BY <2>1, <2>2, Zenon
<1> DEFINE n == countNonEmptyLines(chunk)
           m == k - Len(rest)
<1>5. n \in 0..k
  BY <1>2, CountFacts
<1>6. /\ lineCount' = Counted(lineCount + n)
      /\ \/ phase = "snapshot" /\ ResolveElection
         \/ ResolveSpawn(lineCount + n)
      /\ UNCHANGED <<stderr, initialised, observer, faults, logged>>
  BY <1>4 DEF _readProcessStdOut
<1>7. rest \o left \in Seq(Line) /\ Len(rest \o left) = Len(rest) + (Len(q) - k)
  BY <1>3
<1>8. /\ pipe' \in [Child -> Seq(Line)]
      /\ pipe'[c] = rest \o left
      /\ \A d \in Child : d # c => pipe'[d] = pipe[d]
  BY <1>4, <1>7 DEF TypeOK
<1>9. cuts \in Int /\ cuts' \in Int
  BY LauncherAssumption DEF TypeOK
<1>10. /\ m \in 0..Len(pipe[c]) /\ n \in Nat /\ n <= m + (cuts' - cuts)
       /\ Len(pipe'[c]) = Len(pipe[c]) - m
       /\ m \in Nat
  <2>1. PICK l, j \in Nat : l = Len(q) /\ j = Len(rest)
    BY <1>1
  <2>2. j <= 1 /\ j = cuts' - cuts /\ k \in 1..l /\ m = k - j /\ n \in 0..k
    BY <2>1, <1>1, <1>5
  <2>3. Len(pipe[c]) = l /\ Len(pipe'[c]) = j + (l - k)
    BY <2>1, <1>1, <1>7, <1>8
  <2> HIDE DEF n, m
  <2>4. PICK d \in Int : d = cuts' - cuts
    <3>1. cuts' - cuts \in Int
      BY <1>9
    <3> QED
      BY <3>1, Zenon
  <2>5. /\ k \in Int /\ l \in Int /\ j \in Int /\ n \in Int /\ k - j \in Int
        /\ j = d /\ 0 <= j /\ j <= 1 /\ 1 <= k /\ k <= l /\ n <= k /\ n \in Nat
    BY <2>1, <2>2, <2>4
  <2>6. /\ 0 <= k - j /\ k - j <= l /\ n <= (k - j) + d
        /\ j + (l - k) = l - (k - j)
    BY <2>5, Arithmetic
  <2>7. k - j \in 0..l /\ k - j \in Nat
    BY <2>5, <2>6
  <2> QED
    BY <2>2, <2>3, <2>4, <2>5, <2>6, <2>7, Zenon
<1>12. Taken(c, m, n)
  <2> HIDE DEF n, m
  <2> QED
    BY <1>6, <1>8, <1>10 DEF Taken
<1> QED
  <2> HIDE DEF n, m
  <2> QED
    BY <1>10, <1>12

\* What the launcher reads, whole lines or not.
LEMMA ReadTaken ==
  ASSUME TypeOK, NEW c \in Child, Read(c) \/ ReadCut(c)
  PROVE  \E m, n \in Nat : Taken(c, m, n)
<1>1. pipe[c] \in Seq(Line) /\ cuts \in Nat /\ MaxCuts \in Nat /\ cuts <= MaxCuts
  BY LauncherAssumption DEF TypeOK
<1>2. CASE Read(c)
  <2>1. pipe[c] # <<>> /\ Chunk(c, Len(pipe[c]), <<>>) /\ cuts' = cuts
    BY <1>2 DEF Read
  <2>2. PICK none \in Seq(Line) : none = <<>> /\ Len(none) = 0
    <3>1. <<>> \in Seq(Line) /\ Len(<<>>) = 0
      OBVIOUS
    <3> QED
      BY <3>1, Zenon
  <2>3. Len(pipe[c]) \in 1..Len(pipe[c])
    BY <1>1, <2>1
  <2>4. cuts' \in cuts..MaxCuts /\ Len(none) = cuts' - cuts /\ Len(none) <= 1
    BY <1>1, <2>1, <2>2
  <2>5. Chunk(c, Len(pipe[c]), none)
    BY <2>1, <2>2
  <2> QED
    BY <2>3, <2>4, <2>5, ChunkTaken
<1>3. CASE ReadCut(c)
  <2>1. PICK k \in 1..Len(pipe[c]), rest \in {<<"rest">>, <<"newline">>} : Chunk(c, k, rest)
    BY <1>3 DEF ReadCut
  <2>2. cuts < MaxCuts /\ cuts' = cuts + 1
    BY <1>3 DEF ReadCut
  <2>3. rest \in Seq(Line) /\ Len(rest) = 1
    BY <2>1, OutputFacts
  <2>4. cuts' \in cuts..MaxCuts /\ Len(rest) = cuts' - cuts /\ Len(rest) <= 1
    BY <1>1, <2>2, <2>3
  <2> QED
    BY <2>1, <2>3, <2>4, ChunkTaken
<1> QED
  BY <1>2, <1>3

\* What has been read after a chunk: m lines more.
LEMMA ReadCounts ==
  ASSUME TypeOK, StartedOK, phase \in Spawning,
         NEW c \in Child, NEW m \in Nat, NEW n \in Nat, Taken(c, m, n)
  PROVE  LET R == {l \in Grid : l[2] <= Lines(l[1]) - Len(pipe'[l[1]])} IN
           IsFiniteSet(R) /\ Cardinality(R) = Cardinality(ReadLines) + m
<1> DEFINE R == {l \in Grid : l[2] <= Lines(l[1]) - Len(pipe'[l[1]])}
<1>1. \A d \in Child : Len(pipe[d]) \in Nat /\ Len(pipe[d]) <= Lines(d) /\ Lines(d) \in 0..4
  BY LinesFacts DEF StartedOK, TypeOK
<1>2. /\ m <= Len(pipe[c]) /\ Len(pipe'[c]) = Len(pipe[c]) - m
      /\ \A d \in Child : d # c => pipe'[d] = pipe[d]
  BY <1>1 DEF Taken
<1>3. PICK a \in Nat : a = Lines(c) - Len(pipe[c]) /\ a + m <= 4
  BY <1>1, <1>2
<1> DEFINE Row == {c} \X ((a + 1)..(a + m))
<1>4. IsFiniteSet(Row) /\ Cardinality(Row) = m
  <2>1. /\ IsFiniteSet((a + 1)..(a + m))
        /\ Cardinality((a + 1)..(a + m)) = IF a + 1 > a + m THEN 0 ELSE (a + m) - (a + 1) + 1
    BY FS_Interval
  <2>2. Cardinality((a + 1)..(a + m)) = m
    BY <2>1
  <2>3. IsFiniteSet({c}) /\ Cardinality({c}) = 1
    BY FS_Singleton
  <2>4. IsFiniteSet(Row) /\ Cardinality(Row) = 1 * m
    BY <2>1, <2>2, <2>3, FS_Product
  <2> QED
    BY <2>4
<1>5. R = ReadLines \cup Row
  <2>1. ASSUME NEW d \in Child, NEW i \in 1..4
        PROVE  <<d, i>> \in R <=> <<d, i>> \in ReadLines \/ <<d, i>> \in Row
    <3>1. /\ <<d, i>> \in R <=> i <= Lines(d) - Len(pipe'[d])
          /\ <<d, i>> \in ReadLines <=> i <= Lines(d) - Len(pipe[d])
      BY DEF ReadLines, Grid, NUMBER_OUTPUT_LINES_PER_PROCESS
    <3>2. <<d, i>> \in Row <=> d = c /\ i \in (a + 1)..(a + m)
      OBVIOUS
    <3>3. CASE d = c
      <4>1. i <= Lines(d) - Len(pipe'[d]) <=> i <= a + m
        <5>1. Lines(d) = a + Len(pipe[c]) /\ Len(pipe'[d]) = Len(pipe[c]) - m
          BY <3>3, <1>1, <1>2, <1>3
        <5>2. PICK l \in Nat : l = Len(pipe[c])
          BY <1>1
        <5>3. Lines(d) - Len(pipe'[d]) = (a + l) - (l - m)
          BY <5>1, <5>2
        <5>4. (a + l) - (l - m) = a + m
          <6>1. a \in Int /\ l \in Int /\ m \in Int
            OBVIOUS
          <6> QED
            BY <6>1, Cancels, Zenon
        <5> QED
          BY <5>3, <5>4
      <4>2. i <= Lines(d) - Len(pipe[d]) <=> i <= a
        BY <3>3, <1>3
      <4> QED
        BY <4>1, <4>2, <3>1, <3>2, <3>3
    <3>4. CASE d # c
      BY <3>1, <3>2, <3>4, <1>2
    <3> QED
      BY <3>3, <3>4
  <2>2. Row \subseteq Grid /\ R \subseteq Grid /\ ReadLines \subseteq Grid
    BY <1>3, GridFacts DEF Grid
  <2>3. \A l \in Grid : \E d \in Child, i \in 1..4 : l = <<d, i>>
    BY DEF Grid
  <2> HIDE DEF R, Row
  <2>4. ASSUME NEW l \in Grid PROVE l \in R <=> l \in ReadLines \/ l \in Row
    <3>1. PICK d \in Child, i \in 1..4 : l = <<d, i>>
      BY <2>3
    <3>2. <<d, i>> \in R <=> <<d, i>> \in ReadLines \/ <<d, i>> \in Row
      BY <2>1
    <3> QED
      BY <3>1, <3>2, Zenon
  <2> QED
    BY <2>2, <2>4
<1>6. ReadLines \cap Row = {}
  <2> SUFFICES ASSUME NEW l \in ReadLines, l \in Row PROVE FALSE
    OBVIOUS
  <2>1. PICK i \in (a + 1)..(a + m) : l = <<c, i>>
    OBVIOUS
  <2>2. i <= Lines(c) - Len(pipe[c])
    BY <2>1 DEF ReadLines
  <2> QED
    BY <2>2, <1>3
<1>7. IsFiniteSet(R) /\ Cardinality(R) = Cardinality(ReadLines) + m
  <2> HIDE DEF R, Row
  <2>1. /\ IsFiniteSet(ReadLines \cup Row)
        /\ Cardinality(ReadLines \cup Row) =
             Cardinality(ReadLines) + Cardinality(Row) - Cardinality(ReadLines \cap Row)
    BY <1>4, GridFacts, FS_Union
  <2>2. Cardinality(ReadLines \cap Row) = 0
    BY <1>6, FS_EmptySet
  <2> QED
    BY <2>1, <2>2, <1>4, <1>5, GridFacts
<1> QED
  BY <1>7

\* For each process that is not ready a line, the Hello, has not been read.
LEMMA MissingCounts ==
  ASSUME NEW S \in SUBSET Child, NEW R \in SUBSET (S \X (1..4)), IsFiniteSet(R),
         \A d \in S : <<d, 4>> \in R => Ready(d)
  PROVE  Cardinality(R) + Cardinality(Missing(S)) <= 4 * Cardinality(S)
<1> DEFINE M == Missing(S) \X {4}
<1>1. IsFiniteSet(S) /\ Missing(S) \in SUBSET S
  BY GridFacts, FS_Subset DEF Missing
<1>2. /\ IsFiniteSet(Missing(S)) /\ Cardinality(Missing(S)) \in Nat /\ Cardinality(S) \in Nat
      /\ Cardinality(R) \in Nat
  BY <1>1, FS_Subset, FS_CardinalityType
<1>3. IsFiniteSet({4}) /\ Cardinality({4}) = 1
  BY FS_Singleton
<1>4. IsFiniteSet(M) /\ Cardinality(M) = Cardinality(Missing(S)) * 1
  BY <1>2, <1>3, FS_Product
<1>5. IsFiniteSet(S \X (1..4)) /\ Cardinality(S \X (1..4)) = Cardinality(S) * 4
  BY <1>1, GridFacts, FS_Product
<1>6. R \cap M = {}
  BY DEF Missing
<1>7. R \cup M \in SUBSET (S \X (1..4))
  BY <1>1
<1> HIDE DEF M
<1>8. Cardinality(R \cup M) <= Cardinality(S \X (1..4))
  BY <1>5, <1>7, FS_Subset
<1>9. Cardinality(R \cup M) = Cardinality(R) + Cardinality(M) - Cardinality(R \cap M)
  BY <1>4, FS_Union
<1>10. Cardinality(R \cap M) = 0
  BY <1>6, FS_EmptySet
<1> QED
  BY <1>2, <1>4, <1>5, <1>8, <1>9, <1>10

\* The count starts again from 0 when it is reached.
LEMMA CountedFacts ==
  ASSUME NEW n \in Nat, startedNodes \in {1, Nodes}
  PROVE  /\ AllChildsStarted(n) <=> n >= 4 * startedNodes
         /\ Counted(n) \in 0..(4 * startedNodes - 1)
         /\ AllChildsStarted(n) => Counted(n) = 0
         /\ ~AllChildsStarted(n) => Counted(n) = n
BY ChildFacts DEF AllChildsStarted, Counted, NUMBER_OUTPUT_LINES_PER_PROCESS

\* The types after a step of the launcher.
LEMMA LauncherTyped ==
  ASSUME TypeOK, phase' \in Phase, ToolOK',
         startedNodes' \in {1, Nodes}, lineCount' \in 0..(4 * startedNodes' - 1),
         process' \in [Child -> Stage], pipe' \in [Child -> Seq(Line)], stderr' \in SUBSET Child,
         initialised' \in SUBSET Candidate,
         observer' \in {"idle", "counting", "answered", "reported"},
         cuts' \in 0..MaxCuts, UNCHANGED <<faults, logged>>
  PROVE  TypeOK'
<1>1. tool' \in {<<1, 2>>, <<2>>, <<Observer>>, <<>>}
  BY DEF ToolOK
<1>2. tool' \in Seq(Child)
  BY <1>1, ToolFacts, Zenon
<1> QED
  BY <1>2 DEF TypeOK

\* The launcher reads when it is not waiting for a start.
LEMMA ReadLate ==
  ASSUME Inv, NEW c \in Child, NEW m \in Nat, NEW n \in Nat, Taken(c, m, n), phase \notin Spawning
  PROVE  Inv'
<1>1. TypeOK /\ QuietOK /\ ToolOK /\ ReadyUnlessCut
  BY DEF Inv
<1>2. /\ pipe' \in [Child -> Seq(Line)]
      /\ UNCHANGED <<stderr, initialised, observer, faults, logged>>
      /\ lineCount' = Counted(lineCount + n)
      /\ \/ phase = "snapshot" /\ ResolveElection
         \/ ResolveSpawn(lineCount + n)
  BY DEF Taken
<1>3. /\ UNCHANGED <<startedNodes, process>>
      /\ \/ UNCHANGED <<phase, tool>>
         \/ phase = "snapshot" /\ phase' = "stop" /\ tool' = <<1, 2>>
  BY <1>2 DEF ResolveElection, ResolveSpawn
<1>4. phase' \in Phase /\ phase' \notin Spawning
  BY <1>1, <1>3 DEF TypeOK, Phase, Spawning
<1>5. ToolOK'
  BY <1>1, <1>3 DEF ToolOK
<1>6. lineCount' \in 0..(4 * startedNodes' - 1)
  <2>1. lineCount + n \in Nat /\ startedNodes \in {1, Nodes}
    BY <1>1 DEF TypeOK
  <2> QED
    BY <2>1, <1>2, <1>3, CountedFacts
<1>7. cuts \in Nat /\ cuts' \in 0..MaxCuts /\ cuts' >= cuts
  BY <1>1, LauncherAssumption DEF TypeOK, Taken
<1>8. TypeOK'
  BY <1>1, <1>2, <1>3, <1>4, <1>5, <1>6, <1>7, LauncherTyped DEF TypeOK
<1>9. QuietOK'
  BY <1>1, <1>2, <1>3 DEF QuietOK, Spawning
<1>10. StartedOK' /\ CountOK'
  BY <1>4 DEF StartedOK, CountOK
<1>11. ReadyUnlessCut'
  <2>1. \A d \in Child : Ready(d) => Ready(d)'
    BY <1>3 DEF Ready
  <2>2. phase' \notin Spawning \cup {"aborted"} => phase \notin Spawning \cup {"aborted"}
    BY <1>3 DEF Spawning
  <2> QED
    BY <2>1, <2>2, <1>1, <1>3, <1>7, ReadyKept
<1> QED
  BY <1>5, <1>8, <1>9, <1>10, <1>11 DEF Inv

\* The count that resolves a promise, and what it says of the processes.
LEMMA ReadStart ==
  ASSUME Inv, NEW c \in Child, NEW m \in Nat, NEW n \in Nat, Taken(c, m, n), phase \in Spawning,
         \A d \in Child : Lines(d)' = Lines(d)
  PROVE  /\ (lineCount + n) + (IF phase = "spawn" THEN 0 ELSE 4 * Nodes)
              <= Cardinality(ReadLines') + cuts'
         /\ Cardinality(ReadLines') \in Nat
         /\ phase = "spawn" =>
              Cardinality(ReadLines') + Cardinality(Missing(1..Nodes)) <= 4 * Nodes
         /\ Cardinality(ReadLines') + Cardinality(Missing(Child)) <= 4 * (Nodes + 1)
         /\ \A d \in Child : Len(pipe'[d]) <= Lines(d)
<1>1. /\ TypeOK /\ StartedOK /\ CountOK
      /\ process \in [Child -> Stage] /\ lineCount \in Int /\ cuts \in Int
  BY ChildFacts, LauncherAssumption DEF Inv, TypeOK
<1>2. /\ m \in 0..Len(pipe[c]) /\ cuts' \in Int /\ n <= m + (cuts' - cuts)
      /\ pipe' \in [Child -> Seq(Line)] /\ Len(pipe'[c]) = Len(pipe[c]) - m
      /\ \A d \in Child : d # c => pipe'[d] = pipe[d]
  <2>1. cuts' \in cuts..MaxCuts /\ MaxCuts \in Int
    BY LauncherAssumption DEF Taken
  <2>2. cuts' \in Int
    BY <2>1, <1>1
  <2> QED
    BY <2>2 DEF Taken
<1>3. \A d \in Child : /\ Len(pipe[d]) \in Nat /\ Len(pipe[d]) <= Lines(d) /\ Lines(d) \in 0..4
                       /\ Len(pipe'[d]) \in Nat
  BY <1>1, <1>2, LinesFacts DEF StartedOK, TypeOK
<1>4. ASSUME NEW d \in Child PROVE Len(pipe'[d]) <= Lines(d)
  <2>1. CASE d = c
    BY <2>1, <1>2, <1>3
  <2>2. CASE d # c
    BY <2>2, <1>2, <1>3
  <2> QED
    BY <2>1, <2>2
<1> DEFINE R == {l \in Grid : l[2] <= Lines(l[1]) - Len(pipe'[l[1]])}
<1>5. ReadLines' = R
  <2>1. \A l \in Grid : l[1] \in Child
    BY DEF Grid
  <2> QED
    BY <2>1 DEF ReadLines, Grid, NUMBER_OUTPUT_LINES_PER_PROCESS
<1>6. IsFiniteSet(R) /\ Cardinality(R) = Cardinality(ReadLines) + m
  BY <1>1, ReadCounts
<1>7. R \in SUBSET (Child \X (1..4))
  BY DEF Grid
<1>8. \A d \in Child : <<d, 4>> \in R => Ready(d)
  <2> SUFFICES ASSUME NEW d \in Child, <<d, 4>> \in R PROVE Ready(d)
    OBVIOUS
  <2>1. 4 <= Lines(d) - Len(pipe'[d])
    OBVIOUS
  <2>2. Lines(d) = 4
    BY <2>1, <1>3
  <2> QED
    BY <2>2, <1>1, LinesFacts
<1>9. phase = "spawn" => R \in SUBSET ((1..Nodes) \X (1..4))
  <2> SUFFICES ASSUME phase = "spawn", NEW l \in R PROVE l \in (1..Nodes) \X (1..4)
    OBVIOUS
  <2>1. process[Observer] = "none"
    BY <1>1 DEF StartedOK, Spawning
  <2>2. Lines(Observer) = 0
    BY <2>1, LinesFacts
  <2>3. PICK d \in Child, i \in 1..4 : l = <<d, i>> /\ i <= Lines(d) - Len(pipe'[d])
    BY DEF Grid
  <2>4. d # Observer
    BY <2>2, <2>3, <1>3
  <2> QED
    BY <2>3, <2>4, ChildFacts
<1> HIDE DEF R
<1>10. Cardinality(R) \in Nat /\ Cardinality(ReadLines) \in Nat
  BY <1>6, GridFacts, FS_CardinalityType
<1>11. lineCount + (IF phase = "spawn" THEN 0 ELSE 4 * Nodes) <= Cardinality(ReadLines) + cuts
  BY <1>1 DEF CountOK, NUMBER_OUTPUT_LINES_PER_PROCESS
<1>12. (lineCount + n) + (IF phase = "spawn" THEN 0 ELSE 4 * Nodes) <= Cardinality(R) + cuts'
  <2>1. PICK base \in Nat : base = IF phase = "spawn" THEN 0 ELSE 4 * Nodes
    BY ChildFacts
  <2>2. lineCount + base <= Cardinality(ReadLines) + cuts
    BY <2>1, <1>11
  <2>3. (lineCount + n) + base <= Cardinality(R) + cuts'
    <3>1. /\ lineCount \in Int /\ n \in Int /\ base \in Int /\ Cardinality(ReadLines) \in Int
          /\ m \in Int /\ cuts \in Int /\ cuts' \in Int
      BY <1>1, <1>2, <1>10
    <3>2. (lineCount + n) + base <= (Cardinality(ReadLines) + m) + cuts'
      BY <3>1, <2>2, <1>2, Arithmetic, Zenon
    <3> QED
      BY <3>2, <1>6, Zenon
  <2> QED
    BY <2>1, <2>3
<1>13. Cardinality(R) + Cardinality(Missing(Child)) <= 4 * (Nodes + 1)
  <2>1. Cardinality(R) + Cardinality(Missing(Child)) <= 4 * Cardinality(Child)
    BY <1>6, <1>7, <1>8, MissingCounts
  <2> QED
    BY <2>1, GridFacts
<1>14. phase = "spawn" => Cardinality(R) + Cardinality(Missing(1..Nodes)) <= 4 * Nodes
  <2> SUFFICES ASSUME phase = "spawn"
               PROVE  Cardinality(R) + Cardinality(Missing(1..Nodes)) <= 4 * Nodes
    OBVIOUS
  <2>1. 1..Nodes \in SUBSET Child /\ \A d \in 1..Nodes : <<d, 4>> \in R => Ready(d)
    BY <1>8, ChildFacts
  <2>2. Cardinality(R) + Cardinality(Missing(1..Nodes)) <= 4 * Cardinality(1..Nodes)
    BY <2>1, <1>6, <1>9, MissingCounts
  <2> QED
    BY <2>2, GridFacts
<1> QED
  BY <1>4, <1>5, <1>10, <1>12, <1>13, <1>14

\* The launcher reads while processes start.
LEMMA ReadSpawning ==
  ASSUME Inv, NEW c \in Child, NEW m \in Nat, NEW n \in Nat, Taken(c, m, n), phase \in Spawning
  PROVE  Inv'
<1>1. /\ TypeOK /\ QuietOK /\ ToolOK /\ StartedOK /\ ReadyUnlessCut
      /\ process \in [Child -> Stage]
  BY DEF Inv, TypeOK
<1>2. /\ pipe' \in [Child -> Seq(Line)]
      /\ UNCHANGED <<stderr, initialised, observer, faults, logged>>
      /\ lineCount' = Counted(lineCount + n)
      /\ ResolveSpawn(lineCount + n)
  BY DEF Taken, Spawning
<1>3. cuts \in Nat /\ cuts' \in 0..MaxCuts /\ cuts' >= cuts
  BY <1>1, LauncherAssumption DEF TypeOK, Taken
<1>4. lineCount + n \in Nat /\ startedNodes \in {1, Nodes}
  BY <1>1 DEF TypeOK
<1>5. /\ Cardinality(Missing(1..Nodes)) \in Nat /\ Cardinality(Missing(Child)) \in Nat
  BY ChildFacts, GridFacts, FS_Subset, FS_CardinalityType DEF Missing
<1>6. CASE ~AllChildsStarted(lineCount + n)
  <2>1. UNCHANGED <<phase, startedNodes, process, tool>>
    BY <1>2, <1>6 DEF ResolveSpawn
  <2>2. lineCount' = lineCount + n /\ lineCount' \in 0..(4 * startedNodes' - 1)
    BY <2>1, <1>2, <1>4, <1>6, CountedFacts
  <2>3. QuietOK' /\ ToolOK'
    BY <2>1, <1>1, <1>2 DEF QuietOK, ToolOK
  <2>4. TypeOK'
    BY <2>1, <2>2, <2>3, <1>1, <1>2, <1>3, LauncherTyped DEF TypeOK
  <2>5. \A d \in Child : Lines(d)' = Lines(d)
    BY <2>1 DEF Lines
  <2>6. /\ (lineCount + n) + (IF phase = "spawn" THEN 0 ELSE 4 * Nodes)
             <= Cardinality(ReadLines') + cuts'
        /\ \A d \in Child : Len(pipe'[d]) <= Lines(d)
    BY <2>5, ReadStart
  <2>7. StartedOK'
    BY <2>1, <2>5, <2>6, <1>1 DEF StartedOK
  <2>8. CountOK'
    BY <2>1, <2>2, <2>6 DEF CountOK, NUMBER_OUTPUT_LINES_PER_PROCESS
  <2>9. ReadyUnlessCut'
    <3>1. \A d \in Child : Ready(d) => Ready(d)'
      BY <2>1 DEF Ready
    <3> QED
      BY <3>1, <2>1, <1>1, <1>3, ReadyKept
  <2> QED
    BY <2>3, <2>4, <2>7, <2>8, <2>9 DEF Inv
<1>7. CASE AllChildsStarted(lineCount + n) /\ phase = "spawn"
  <2>1. /\ phase' = "spawnObserver" /\ startedNodes' = 1
        /\ process' = [process EXCEPT ![Observer] = "spawned"] /\ UNCHANGED tool
    BY <1>2, <1>7 DEF ResolveSpawn, Resolve, Spawning
  <2>2. lineCount' = 0
    BY <1>2, <1>4, <1>7, CountedFacts
  <2>3. process[Observer] = "none" /\ startedNodes = Nodes
    BY <1>1, <1>7 DEF StartedOK
  <2>4. /\ process' \in [Child -> Stage] /\ process'[Observer] = "spawned"
        /\ \A d \in 1..Nodes : process'[d] = process[d]
    <3>1. "spawned" \in Stage
      BY DEF Stage, Starting
    <3> QED
      BY <3>1, <2>1, <1>1, ChildFacts
  <2>5. \A d \in Child : Lines(d)' = Lines(d)
    <3>1. Lines(Observer)' = Lines(Observer)
      BY <2>3, <2>4 DEF Lines
    <3>2. \A d \in 1..Nodes : Lines(d)' = Lines(d)
      BY <2>4 DEF Lines
    <3> QED
      BY <3>1, <3>2, ChildFacts
  <2>6. /\ lineCount + n <= Cardinality(ReadLines') + cuts'
        /\ Cardinality(ReadLines') \in Nat
        /\ Cardinality(ReadLines') + Cardinality(Missing(1..Nodes)) <= 4 * Nodes
        /\ \A d \in Child : Len(pipe'[d]) <= Lines(d)
    <3>1. /\ (lineCount + n) + (IF phase = "spawn" THEN 0 ELSE 4 * Nodes)
               <= Cardinality(ReadLines') + cuts'
          /\ Cardinality(ReadLines') \in Nat
          /\ Cardinality(ReadLines') + Cardinality(Missing(1..Nodes)) <= 4 * Nodes
          /\ \A d \in Child : Len(pipe'[d]) <= Lines(d)
      BY <2>5, <1>7, ReadStart
    <3> QED
      BY <3>1, <1>4, <1>7
  <2>7. lineCount + n >= 4 * Nodes
    BY <2>3, <1>4, <1>7, CountedFacts
  <2>8. ToolOK'
    BY <2>1, <1>1, <1>7 DEF ToolOK
  <2>9. phase' \in Phase /\ lineCount' \in 0..(4 * startedNodes' - 1)
    BY <2>1, <2>2 DEF Phase, Spawning
  <2>10. TypeOK'
    BY <2>1, <2>4, <2>8, <2>9, <1>1, <1>2, <1>3, LauncherTyped DEF TypeOK
  <2>11. QuietOK'
    BY <1>1, <1>2 DEF QuietOK
  <2>12. StartedOK'
    <3>1. \A d \in Child : process'[d] # "stopped" /\ Len(pipe'[d]) <= Lines(d)'
      BY <2>4, <2>5, <2>6, <1>1, ChildFacts DEF StartedOK
    <3> QED
      BY <3>1, <2>1, <2>4 DEF StartedOK
  <2>13. CountOK'
    <3>1. 0 + 4 * Nodes <= Cardinality(ReadLines') + cuts'
      BY <2>6, <2>7, <1>3, <1>4, ChildFacts
    <3> QED
      BY <3>1, <2>1, <2>2 DEF CountOK, NUMBER_OUTPUT_LINES_PER_PROCESS
  <2>14. ReadyUnlessCut'
    <3>1. Missing(1..Nodes)' = Missing(1..Nodes)
      BY <2>4 DEF Missing, Ready
    <3>2. Cardinality(Missing(1..Nodes)) <= cuts'
      BY <2>6, <2>7, <1>3, <1>4, <1>5, ChildFacts
    <3> QED
      BY <3>1, <3>2, <2>1 DEF ReadyUnlessCut, Spawning
  <2> QED
    BY <2>8, <2>10, <2>11, <2>12, <2>13, <2>14 DEF Inv
<1>8. CASE AllChildsStarted(lineCount + n) /\ phase = "spawnObserver"
  <2>1. phase' = "init" /\ tool' = <<1, 2>> /\ UNCHANGED <<startedNodes, process>>
    BY <1>2, <1>8 DEF ResolveSpawn, Resolve, Spawning
  <2>2. lineCount' = 0
    BY <1>2, <1>4, <1>8, CountedFacts
  <2>3. startedNodes = 1 /\ process[Observer] # "none"
    BY <1>1, <1>8 DEF StartedOK
  <2>4. \A d \in Child : Lines(d)' = Lines(d)
    BY <2>1 DEF Lines
  <2>5. /\ (lineCount + n) + 4 * Nodes <= Cardinality(ReadLines') + cuts'
        /\ Cardinality(ReadLines') \in Nat
        /\ Cardinality(ReadLines') + Cardinality(Missing(Child)) <= 4 * (Nodes + 1)
    <3>1. /\ (lineCount + n) + (IF phase = "spawn" THEN 0 ELSE 4 * Nodes)
               <= Cardinality(ReadLines') + cuts'
          /\ Cardinality(ReadLines') \in Nat
          /\ Cardinality(ReadLines') + Cardinality(Missing(Child)) <= 4 * (Nodes + 1)
      BY <2>4, ReadStart
    <3> QED
      BY <3>1, <1>8
  <2>6. lineCount + n >= 4
    BY <2>3, <1>4, <1>8, CountedFacts
  <2>7. ToolOK'
    BY <2>1 DEF ToolOK
  <2>8. phase' \in Phase /\ lineCount' \in 0..(4 * startedNodes' - 1)
    BY <2>1, <2>2, <2>3 DEF Phase
  <2>9. TypeOK'
    BY <2>1, <2>7, <2>8, <1>1, <1>2, <1>3, LauncherTyped DEF TypeOK
  <2>10. QuietOK' /\ StartedOK' /\ CountOK'
    BY <2>1 DEF QuietOK, StartedOK, CountOK, Spawning
  <2>11. ReadyUnlessCut'
    <3>1. \A S : Missing(S)' = Missing(S)
      BY <2>1 DEF Missing, Ready
    <3>2. Cardinality(Missing(Child)) <= cuts'
      BY <2>5, <2>6, <1>3, <1>4, <1>5, ChildFacts
    <3>3. Cardinality(Missing(1..Nodes)) <= cuts
      BY <2>3, <1>1 DEF ReadyUnlessCut
    <3>4. Cardinality(Missing(1..Nodes)) <= cuts'
      BY <3>3, <1>3, <1>5
    <3> QED
      BY <3>1, <3>2, <3>4 DEF ReadyUnlessCut
  <2> QED
    BY <2>7, <2>9, <2>10, <2>11 DEF Inv
<1> QED
  BY <1>6, <1>7, <1>8 DEF Spawning

\* A line on standard error ends main() when it waits for a start.
LEMMA ReadErrStep ==
  ASSUME Inv, NEW c \in Child, ReadErr(c)
  PROVE  Inv'
<1>1. TypeOK /\ QuietOK /\ ToolOK /\ StartedOK /\ CountOK /\ ReadyUnlessCut
  BY DEF Inv
<1>2. /\ stderr' = stderr \ {c}
      /\ phase' = IF phase \in Spawning THEN "aborted" ELSE phase
      /\ UNCHANGED <<lineCount, startedNodes, tool, cuts, process, pipe, initialised, observer, faults, logged>>
  BY DEF ReadErr
<1>3. phase' \in Phase /\ stderr' \in SUBSET Child /\ phase' \notin Spawning
  BY <1>1, <1>2 DEF TypeOK, Phase, Spawning
<1>4. ToolOK' /\ QuietOK'
  BY <1>1, <1>2 DEF ToolOK, QuietOK, Spawning
<1>5. TypeOK'
  BY <1>1, <1>2, <1>3 DEF TypeOK
<1>6. StartedOK' /\ CountOK'
  BY <1>3 DEF StartedOK, CountOK
<1>7. ReadyUnlessCut'
  <2>1. \A d \in Child : Ready(d) => Ready(d)'
    BY <1>2 DEF Ready
  <2>2. cuts' \in Nat /\ cuts' >= cuts
    BY <1>1, <1>2, LauncherAssumption DEF TypeOK
  <2>3. phase' \notin Spawning \cup {"aborted"} => phase \notin Spawning \cup {"aborted"}
    BY <1>2
  <2> QED
    BY <2>1, <2>2, <2>3, <1>1, <1>2, ReadyKept
<1> QED
  BY <1>4, <1>5, <1>6, <1>7 DEF Inv

\* The tool contacts the processes when all are ready.
LEMMA ContactStep ==
  ASSUME Inv, Contact
  PROVE  Inv'
<1>1. /\ TypeOK /\ ToolOK /\ ReadyUnlessCut
      /\ process \in [Child -> Stage] /\ pipe \in [Child -> Seq(Line)]
  BY DEF Inv, TypeOK
<1>2. tool # <<>> /\ tool' = Tail(tool) /\ UNCHANGED <<phase, lineCount, startedNodes, cuts, stderr, faults, logged>>
  BY DEF Contact
<1>3. PICK h \in Child : h = Head(tool) /\ phase \in {"init", "snapshot", "stop"}
                         /\ (phase = "init" => h \in Candidate)
  BY <1>1, <1>2, ToolTyped DEF TypeOK
<1>4. /\ initialised' \in SUBSET Candidate
      /\ observer' \in {"idle", "counting", "answered", "reported"}
  BY <1>1, <1>3 DEF Contact, TypeOK
<1>5. \/ UNCHANGED <<process, pipe>>
      \/ process[h] = "listening" /\ Stopped(h)
  BY <1>3 DEF Contact
<1>6. /\ process' \in [Child -> Stage] /\ pipe' \in [Child -> Seq(Line)]
      /\ \A d \in Child : process'[d] = process[d] \/ process'[d] = "stopped"
  <2>1. CASE UNCHANGED <<process, pipe>>
    BY <2>1, <1>1
  <2>2. CASE Stopped(h)
    <3>1. PICK one \in Seq(Line) : one = <<"other">>
      BY OutputFacts
    <3>2. process' = [process EXCEPT ![h] = "stopped"] /\ Written(h, one)
      BY <2>2, <3>1, Zenon DEF Stopped
    <3>3. "stopped" \in Stage
      BY DEF Stage, Starting
    <3> QED
      BY <3>2, <3>3, <1>1, WrittenFacts
  <2> QED
    BY <2>1, <2>2, <1>5
<1>7. ToolOK'
  BY <1>1, <1>2, <1>3, ToolFacts DEF ToolOK
<1>8. TypeOK'
  BY <1>1, <1>2, <1>4, <1>6, <1>7, LauncherTyped DEF TypeOK
<1>9. QuietOK' /\ StartedOK' /\ CountOK'
  BY <1>2, <1>3 DEF QuietOK, StartedOK, CountOK, Spawning
<1>10. ReadyUnlessCut'
  <2>1. \A d \in Child : Ready(d) => Ready(d)'
    BY <1>6 DEF Ready
  <2>2. cuts' \in Nat /\ cuts' >= cuts
    BY <1>1, <1>2, LauncherAssumption DEF TypeOK
  <2>3. process'[Observer] # "none" => process[Observer] # "none"
    BY <1>5, <1>6, ChildFacts DEF Stopped
  <2> QED
    BY <2>1, <2>2, <2>3, <1>1, <1>2, ReadyKept
<1> QED
  BY <1>7, <1>8, <1>9, <1>10 DEF Inv

\* main() goes on.
LEMMA GoOnStep ==
  ASSUME Inv, GoOn
  PROVE  Inv'
<1>1. TypeOK /\ ToolOK /\ ReadyUnlessCut
  BY DEF Inv
<1>2. /\ tool = <<>>
      /\ UNCHANGED <<lineCount, startedNodes, cuts, process, pipe, stderr, initialised, observer, faults, logged>>
      /\ \/ phase = "init" /\ phase' = "sleep" /\ UNCHANGED tool
         \/ phase = "sleep" /\ phase' = "snapshot" /\ tool' = <<Observer>>
         \/ phase = "stop" /\ phase' = "done" /\ UNCHANGED tool
  BY DEF GoOn
<1>3. ToolOK' /\ phase' \in Phase
  BY <1>2 DEF ToolOK, Phase
<1>4. TypeOK'
  BY <1>1, <1>2, <1>3, LauncherTyped DEF TypeOK
<1>5. QuietOK' /\ StartedOK' /\ CountOK'
  BY <1>2 DEF QuietOK, StartedOK, CountOK, Spawning
<1>6. ReadyUnlessCut'
  <2>1. \A d \in Child : Ready(d) => Ready(d)'
    BY <1>2 DEF Ready
  <2>2. cuts' \in Nat /\ cuts' >= cuts
    BY <1>1, <1>2, LauncherAssumption DEF TypeOK
  <2>3. phase \notin Spawning \cup {"aborted"}
    BY <1>2 DEF Spawning
  <2> QED
    BY <2>1, <2>2, <2>3, <1>1, <1>2, ReadyKept
<1> QED
  BY <1>3, <1>4, <1>5, <1>6 DEF Inv

-----------------------------------------------------------------------------
(* Theorems.                                                               *)

\* The nodes have been spawned and nobody has written anything.
LEMMA InitInv == Init => Inv
<1> SUFFICES ASSUME Init PROVE Inv
  OBVIOUS
<1>1. /\ phase = "spawn" /\ lineCount = 0 /\ startedNodes = Nodes
      /\ process = [c \in Child |-> IF c = Observer THEN "none" ELSE "spawned"]
      /\ pipe = [c \in Child |-> <<>>] /\ stderr = {} /\ tool = <<>> /\ initialised = {}
      /\ observer = "idle" /\ faults = 0 /\ logged = 0 /\ cuts = 0
  BY DEF Init
<1>2. <<>> \in Seq(Line) /\ Len(<<>>) = 0
  OBVIOUS
<1>3. pipe \in [Child -> Seq(Line)] /\ \A c \in Child : pipe[c] = <<>>
  BY <1>1, <1>2, Zenon
<1>4. {"none", "spawned"} \subseteq Stage /\ phase \in Phase
  BY <1>1 DEF Stage, Starting, Phase, Spawning
<1>5. /\ process \in [Child -> Stage] /\ process[Observer] = "none"
      /\ \A c \in 1..Nodes : process[c] = "spawned"
  BY <1>1, <1>4, ChildFacts
<1>6. lineCount \in 0..(4 * startedNodes - 1) /\ startedNodes \in {1, Nodes}
  BY <1>1, ChildFacts
<1>7. ToolOK /\ QuietOK
  BY <1>1 DEF ToolOK, QuietOK
<1>8. tool \in Seq(Child)
  BY <1>4, <1>7, ToolTyped
<1>9. TypeOK
  BY <1>1, <1>3, <1>4, <1>5, <1>6, <1>8, LauncherAssumption DEF TypeOK
<1>10. StartedOK
  <2>1. \A c \in Child : process[c] # "stopped" /\ Len(pipe[c]) = 0 /\ Lines(c) \in 0..4
    BY <1>2, <1>3, <1>5, ChildFacts, LinesFacts
  <2> QED
    BY <2>1, <1>1, <1>5 DEF StartedOK
<1>11. CountOK
  BY <1>1, GridFacts DEF CountOK
<1>12. ReadyUnlessCut
  BY <1>1, <1>5 DEF ReadyUnlessCut, Spawning
<1> QED
  BY <1>7, <1>9, <1>10, <1>11, <1>12 DEF Inv

\* A stuttering step.
LEMMA StutterStep ==
  ASSUME Inv, UNCHANGED vars
  PROVE  Inv'
<1>1. UNCHANGED <<launcherVars, process, pipe, stderr, initialised, observer, faults, logged>>
  BY DEF vars
<1>2. TypeOK /\ \A c \in Child : Len(pipe[c]) \in Nat
  BY DEF Inv, TypeOK
<1>3. TypeOK'
  BY <1>1, <1>2 DEF TypeOK, launcherVars
<1>4. \A c \in Child : Grows(c)
  BY <1>1, <1>2, Idle
<1> QED
  BY <1>1, <1>3, <1>4, Growing

\* The inductive invariant.
THEOREM Invariance == Spec => []Inv
<1>1. Init => Inv
  BY InitInv
<1>2. Inv /\ [Next]_vars => Inv'
  <2> SUFFICES ASSUME Inv, [Next]_vars PROVE Inv'
    OBVIOUS
  <2>1. ASSUME NEW c \in Child, Read(c) \/ ReadCut(c) PROVE Inv'
    <3>1. PICK m, n \in Nat : Taken(c, m, n)
      BY <2>1, ReadTaken DEF Inv
    <3> QED
      BY <3>1, ReadSpawning, ReadLate
  <2>2. ASSUME NEW c \in Child,
               StartUp(c) \/ Listen(c) \/ Fail(c) \/ Complain(c) \/ Log(c) \/ ReadErr(c)
        PROVE  Inv'
    BY <2>2, StartUpStep, SilentStep, LateStep, ReadErrStep
  <2>3. ASSUME NEW c \in 1..Nodes, StopNode(c) PROVE Inv'
    BY <2>3, LateStep
  <2>4. CASE Report
    BY <2>4, LateStep
  <2>5. CASE Contact \/ GoOn
    BY <2>5, ContactStep, GoOnStep
  <2>6. CASE UNCHANGED vars
    BY <2>6, StutterStep
  <2> QED
    BY <2>1, <2>2, <2>3, <2>4, <2>5, <2>6 DEF Next
<1> QED
  BY <1>1, <1>2, PTL DEF Spec

\* Type correctness; in particular the count never reaches the number that
\* ends a start, and the tool has addresses left only when it runs
\* (spawn-election-nodes.js:66-95).
THEOREM TypeCorrect == Spec => []TypeOK
<1>1. Inv => TypeOK
  BY DEF Inv
<1> QED
  BY <1>1, Invariance, PTL

\* However the output is cut into chunks, no more processes than lines were cut
\* have not said Hello when the observer starts and when INIT is sent
\* (spawn-election-nodes.js:66-95, run-election.js:37-39).
THEOREM ReadyUnlessCutHolds == Spec => []ReadyUnlessCut
<1>1. Inv => ReadyUnlessCut
  BY DEF Inv
<1> QED
  BY <1>1, Invariance, PTL

\* As long as no chunk ends inside a line, the observer starts after the Hello
\* of each node and INIT is sent after that of the observer.
THEOREM WholeLinesAreEnough == Spec => [](cuts = 0 => ReadyBeforeInit)
<1>1. Inv => (cuts = 0 => ReadyBeforeInit)
  <2> SUFFICES ASSUME ReadyUnlessCut, cuts = 0 PROVE ReadyBeforeInit
    BY DEF Inv
  <2>1. ASSUME NEW S \in SUBSET Child, Cardinality(Missing(S)) <= 0 PROVE Missing(S) = {}
    <3>1. Missing(S) \in SUBSET Child
      BY DEF Missing
    <3>2. IsFiniteSet(Missing(S))
      BY <3>1, GridFacts, FS_Subset
    <3>3. Cardinality(Missing(S)) = 0
      BY <2>1, <3>2, FS_CardinalityType
    <3> QED
      BY <3>2, <3>3, FS_EmptySet
  <2> QED
    BY <2>1, ChildFacts DEF ReadyUnlessCut, ReadyBeforeInit
<1> QED
  BY <1>1, Invariance, PTL
=============================================================================
