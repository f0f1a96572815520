------------------------------ MODULE MCAgent ------------------------------
(* The agent's run, or one of the stores and observers it writes to, as the    *)
(* initial state chooses: the others stay as they began.                       *)
EXTENDS MCAgentLoop, MissionJournal, MemoryLayers, JarvisEngine

CONSTANTS b1, b2

VARIABLES focus

\* How the runs that the memory learns from end: done and well, half done,
\* failed another way, stopped.
RunEnd(done, failed, outcome, page) ==
  [done |-> done, failed |-> failed, outcome |-> outcome, page |-> page]
RunEnds == {RunEnd(2, {}, "completed", "p1"), RunEnd(1, {"f1"}, "completed", NoPage),
            RunEnd(0, {"f2"}, "failed", NoPage), RunEnd(0, {}, "stopped", "p2")}

\* What a command says.
SaidCommands == {{}, {"mission"}}

agentStoreVars == <<focus, agentVars, journalVars, memVars, jvVars>>

AgentStoresInit ==
  /\ focus \in {"run", "journal", "memory", "jarvis"}
  /\ AgentInit /\ JournalInit /\ MemInit /\ JarvisInit
  /\ (focus # "run" => count.maxSteps = 1)  \* the runs differ in it only

Only(f) ==
  /\ focus = f /\ UNCHANGED focus
  /\ (f # "run" => UNCHANGED agentVars)
  /\ (f # "journal" => UNCHANGED journalVars)
  /\ (f # "memory" => UNCHANGED memVars)
  /\ (f # "jarvis" => UNCHANGED jvVars)

AgentStoresNext ==
  \/ Only("run") /\ AgentNext
  \/ Only("journal") /\ JournalNext
  \/ Only("memory") /\ MemNext
  \/ Only("jarvis") /\ JarvisNext

AgentStoresSpec == AgentStoresInit /\ [][AgentStoresNext]_agentStoreVars
=============================================================================
