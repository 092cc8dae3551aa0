-------------------------- MODULE LauncherInvariant --------------------------
(***************************************************************************)
(* Why counting lines is enough to know that the processes are ready, but  *)
(* for as many as lines were cut (ReadyUnlessCut in Launcher): an          *)
(* inductive invariant.                                                    *)
(***************************************************************************)
EXTENDS Launcher

\* The most lines a process can have written before the election begins.
Lines(c) ==
  IF process[c] \in {"none", "spawned"} THEN 0
  ELSE IF process[c] = "npm" THEN 2
  ELSE IF process[c] \in {"constructed", "failed"} THEN 3
  ELSE NUMBER_OUTPUT_LINES_PER_PROCESS

\* The lines that the launcher has read to their end, each with its number.
ReadLines ==
  {l \in Child \X (1..NUMBER_OUTPUT_LINES_PER_PROCESS) :
     l[2] <= Lines(l[1]) - Len(pipe[l[1]])}

\* Until main() has started everything nobody is told to do anything, so the
\* processes print nothing but what they print as they start.
QuietOK ==
  phase \in Spawning \cup {"aborted"} =>
    initialised = {} /\ observer = "idle"

\* The addresses left to the tool are those of the phase.
ToolOK ==
  /\ phase \in {"init", "stop"} => tool \in {<<1, 2>>, <<2>>, <<>>}
  /\ phase = "snapshot" => tool \in {<<Observer>>, <<>>}
  /\ phase \notin {"init", "snapshot", "stop"} => tool = <<>>

\* The processes that main() has asked for so far.
StartedOK ==
  phase \in Spawning =>
    /\ startedNodes = IF phase = "spawn" THEN Nodes ELSE 1
    /\ process[Observer] = "none" <=> phase = "spawn"
    /\ \A c \in Child : process[c] # "stopped" /\ Len(pipe[c]) <= Lines(c)

\* No line is counted twice unless it was cut, and none that was not written;
\* what was counted before the observer started is four lines of each node.
CountOK ==
  phase \in Spawning =>
    lineCount + (IF phase = "spawn" THEN 0 ELSE NUMBER_OUTPUT_LINES_PER_PROCESS * Nodes)
      <= Cardinality(ReadLines) + cuts

Inv == TypeOK /\ QuietOK /\ ToolOK /\ StartedOK /\ CountOK /\ ReadyUnlessCut
=============================================================================
