---------------------------- MODULE ProcessTools ----------------------------
(* Processes of the machine in BLAXIN's hands: process_control's kill with its    *)
(* read-back (tools/process-control.ts) and the shells of the terminal panel      *)
(* (tools/terminal-stream.ts).  A pid is a number the system gives again; ps may   *)
(* hang, and a process may ignore a signal.                                       *)
EXTENDS Naturals, FiniteSets

CONSTANTS PtPids,      \* process ids
          PtShells,    \* terminal sessions
          MaxPtStarts, \* bound: processes started
          MaxPtKills   \* bound: kills asked for

VARIABLES
  ptWho,     \* the process behind each pid, 0 for none
  ptStarted, \* processes started so far; each has a number of its own
  ptKill,    \* kill: step, pid, force, the process observed, escalated, ps failed
  ptKills,   \* bounded
  ptShell,   \* each shell: "none", "runs" or "gone"
  ptOpen,    \* shells whose web socket is open
  ptHeld,    \* shells in the sessions map
  ptHit,     \* shells that were sent SIGHUP or SIGTERM
  ptServer   \* the server: "up" or "down"

ptVars == <<ptWho, ptStarted, ptKill, ptKills, ptShell, ptOpen, ptHeld, ptHit, ptServer>>
ptKillVars == <<ptKill, ptKills>>
ptShellVars == <<ptShell, ptOpen, ptHeld, ptHit, ptServer>>

NoKill == [step |-> "none", pid |-> 0, force |-> FALSE, who |-> 0, escalated |-> FALSE, blind |-> FALSE]
ProcessInit ==
  /\ ptWho = [p \in PtPids |-> 0] /\ ptStarted = 0 /\ ptKill = NoKill /\ ptKills = 0
  /\ ptShell = [s \in PtShells |-> "none"] /\ ptOpen = {} /\ ptHeld = {} /\ ptHit = {} /\ ptServer = "up"
-----------------------------------------------------------------------------
(* The rest of the machine.                                                       *)
ProcessStarts(p) ==
  /\ ptWho[p] = 0 /\ ptStarted < MaxPtStarts /\ ptStarted' = ptStarted + 1
  /\ ptWho' = [ptWho EXCEPT ![p] = ptStarted + 1]
ProcessEnds(p) == ptWho[p] # 0 /\ ptWho' = [ptWho EXCEPT ![p] = 0] /\ UNCHANGED ptStarted

KillStep(step) == ptKill' = [ptKill EXCEPT !.step = step]
Unhurt == UNCHANGED <<ptWho, ptKills>>
(* A signal: it ends the process, or is ignored.  The kill command fails on a pid  *)
(* that is gone, which fails the whole call.                                      *)
Signal(next) ==
  \/ ptWho[ptKill.pid] = 0 /\ KillStep("failed") /\ Unhurt
  \/ /\ ptWho[ptKill.pid] # 0 /\ UNCHANGED ptKills
     /\ ptWho' \in {ptWho, [ptWho EXCEPT ![ptKill.pid] = 0]} /\ next
KillAsked(p, force) ==
  /\ ptKill.step \in {"none", "success", "failed"} /\ ptKills < MaxPtKills /\ ptKills' = ptKills + 1
  /\ ptKill' = [NoKill EXCEPT !.step = "observe", !.pid = p, !.force = force] /\ UNCHANGED ptWho
(* Observed first; no row, or no ps, and nothing is killed.                       *)
ObserveProcess ==
  /\ ptKill.step = "observe" /\ Unhurt
  /\ \/ ptKill' = [ptKill EXCEPT !.step = IF ptWho[ptKill.pid] = 0 THEN "failed" ELSE "term", !.who = ptWho[ptKill.pid]]
     \/ KillStep("failed")
Term == ptKill.step = "term" /\ Signal(KillStep("poll"))
(* pollForExit: gone when ps shows no row; ps fails on a pid that is gone, and a   *)
(* ps that hung counts as gone too.                                               *)
\* Mutant: the signal was accepted, so the process is gone.
GoneOnSignal == TRUE
Gone == ptWho[ptKill.pid] = 0
PollProcess ==
  /\ ptKill.step = "poll" /\ Unhurt
  /\ \/ Gone /\ KillStep("success")
     \/ ptKill' = [ptKill EXCEPT !.step = "success", !.blind = TRUE]
     \/ /\ ptWho[ptKill.pid] # 0
        /\ KillStep(IF ptKill.force /\ ~ptKill.escalated THEN "kill" ELSE "failed")
Escalate == ptKill.step = "kill" /\ Signal(ptKill' = [ptKill EXCEPT !.step = "poll", !.escalated = TRUE])
KillMoves ==
  /\ (ObserveProcess \/ Term \/ PollProcess \/ Escalate \/ \E p \in PtPids, f \in BOOLEAN : KillAsked(p, f))
  /\ UNCHANGED <<ptStarted, ptShellVars>>
-----------------------------------------------------------------------------
(* handleTerminalWebSocket: a shell for each socket.                              *)
ShellOpens(s) ==
  /\ ptServer = "up" /\ ptShell[s] = "none" /\ ptShell' = [ptShell EXCEPT ![s] = "runs"]
  /\ ptOpen' = ptOpen \cup {s} /\ ptHeld' = ptHeld \cup {s} /\ UNCHANGED <<ptHit, ptServer>>
(* By itself, by its user's input or signal, or by the hang-up if it heeds it.     *)
ShellExits(s) ==
  /\ ptShell[s] = "runs" /\ ptShell' = [ptShell EXCEPT ![s] = "gone"] /\ ptHeld' = ptHeld \ {s}
  /\ UNCHANGED <<ptOpen, ptHit, ptServer>>
(* The socket closes: SIGHUP, and the session is forgotten there and then.        *)
HungUp(s) == IF ptShell[s] = "runs" THEN ptHit \cup {s} ELSE ptHit
SocketCloses(s) ==
  /\ ptServer = "up" /\ s \in ptOpen /\ ptOpen' = ptOpen \ {s} /\ ptHeld' = ptHeld \ {s} /\ ptHit' = HungUp(s)
  /\ UNCHANGED <<ptShell, ptServer>>
(* terminateAllSessions, then the server's exit closes the sockets.               *)
ShutdownShells ==
  /\ ptServer = "up" /\ ptServer' = "down" /\ ptHit' = ptHit \cup ptHeld /\ ptHeld' = {} /\ ptOpen' = {}
  /\ UNCHANGED ptShell
ShellMoves ==
  /\ ShutdownShells \/ \E s \in PtShells : ShellOpens(s) \/ ShellExits(s) \/ SocketCloses(s)
  /\ UNCHANGED <<ptWho, ptStarted, ptKillVars>>

ProcessNext ==
  \/ (\E p \in PtPids : ProcessStarts(p) \/ ProcessEnds(p)) /\ UNCHANGED <<ptKillVars, ptShellVars>>
  \/ KillMoves \/ ShellMoves

ProcessSpec == ProcessInit /\ [][ProcessNext]_ptVars
-----------------------------------------------------------------------------
\* "SUCCESS only when a fresh read-back shows the pid is REALLY gone": the process
\* that was observed does not run after a success, unless ps failed to answer; a pid
\* that was given again never makes it one.
KillIsSeen == ptKill.step = "success" /\ ~ptKill.blind => \A p \in PtPids : ptWho[p] # ptKill.who

\* "Without this, shells survive BLAXIN's exit": a shell that outlives its socket or
\* the server is one that was told to end.
ShellsAreTold == \A s \in PtShells : ptShell[s] = "runs" /\ s \notin ptOpen => s \in ptHit

=============================================================================
