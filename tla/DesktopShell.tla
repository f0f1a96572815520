----------------------------- MODULE DesktopShell -----------------------------
(* The desktop shell (src-tauri: lock.rs, lib.rs, update.rs) and its update      *)
(* dialog (client UpdateNotifier.tsx): processes of the application take the     *)
(* single-instance lock, run the backend on its port, install updates, journal   *)
(* them for a rollback, and hand over to the process that replaces them.         *)
(*                                                                               *)
(* A version is a number; a package that fails its signature or checksum never   *)
(* reaches the installation.  Processes are numbered in the order they start.    *)
EXTENDS Naturals, Sequences, FiniteSets

CONSTANTS MaxProcs,    \* bound: processes ever started
          MaxVersion,  \* the latest release
          MaxKills     \* bound: processes killed

ASSUME ShellAssumption == MaxProcs \in Nat /\ MaxVersion \in Nat /\ MaxKills \in Nat

VARIABLES
  dsProcs,    \* processes: pc, version of the binary
  dsLock,     \* the lock file: Free (there is none), Blank (no PID in it yet) or its owner
  dsPort,     \* who runs the backend on the port: a process or 0
  dsDisk,     \* the installed version
  dsJournal,  \* update-journal.json: pending, previous
  dsUi,       \* of each process: busyRef, an armed automatic install, rollback offered
  dsJobs,     \* native jobs: of, kind, stage, target
  dsKills     \* processes killed so far

dsVars == <<dsProcs, dsLock, dsPort, dsDisk, dsJournal, dsUi, dsJobs, dsKills>>
dsUpdate == <<dsDisk, dsJournal, dsUi, dsJobs>>

NoLock == 0
BlankLock == MaxProcs + 1
NoPending == [pending |-> 0, previous |-> 0]
FreshUi == [busy |-> FALSE, armed |-> FALSE, offer |-> FALSE]
ShellInit ==
  /\ dsProcs = <<>> /\ dsUi = <<>> /\ dsJobs = {} /\ dsLock = NoLock /\ dsPort = 0
  /\ dsDisk = 1 /\ dsJournal = NoPending /\ dsKills = 0

Procs == DOMAIN dsProcs
Pc(p) == dsProcs[p].pc
ProcessGoes(p, pc) == dsProcs' = [dsProcs EXCEPT ![p].pc = pc]
Dead(p) == Pc(p) = "gone"
StartedShell == [pc |-> "lock", version |-> dsDisk]

(* ----- The single-instance lock (lock.rs) --------------------------------------- *)
LaunchShell ==
  /\ Len(dsProcs) < MaxProcs
  /\ dsProcs' = Append(dsProcs, StartedShell) /\ dsUi' = Append(dsUi, FreshUi)
  /\ UNCHANGED <<dsLock, dsPort, dsDisk, dsJournal, dsJobs, dsKills>>
(* try_create: the file is created, and the PID written into it after.            *)
CreateLock(p) ==
  /\ Pc(p) = "lock" /\ dsLock = NoLock /\ dsLock' = BlankLock /\ ProcessGoes(p, "created")
  /\ UNCHANGED <<dsPort, dsUpdate, dsKills>>
WritePid(p) ==
  /\ Pc(p) = "created" /\ dsLock' = (IF dsLock = BlankLock THEN p ELSE dsLock) /\ ProcessGoes(p, "starting")
  /\ UNCHANGED <<dsPort, dsUpdate, dsKills>>
(* The owner is dead: the file is removed, whosever it has become meanwhile.      *)
SeeStale(p) ==
  /\ Pc(p) = "lock" /\ dsLock \in Procs /\ Dead(dsLock)
  /\ ProcessGoes(p, "stale") /\ UNCHANGED <<dsLock, dsPort, dsUpdate, dsKills>>
RemoveStale(p) ==
  /\ Pc(p) = "stale" /\ dsLock' = NoLock /\ ProcessGoes(p, "lock")
  /\ UNCHANGED <<dsPort, dsUpdate, dsKills>>
(* AlreadyRunning, after 8 or 60 seconds.                                         *)
GiveUpWaiting(p) ==
  /\ Pc(p) = "lock" /\ dsLock # NoLock /\ ProcessGoes(p, "gone")
  /\ UNCHANGED <<dsLock, dsPort, dsUpdate, dsKills>>

(* ----- The backend (lib.rs) ----------------------------------------------------- *)
(* start_server: a backend that finds the port taken ends at once.                *)
StartServer(p) ==
  /\ Pc(p) = "starting" /\ ProcessGoes(p, "waiting")
  /\ dsPort' = IF dsPort = 0 THEN p ELSE dsPort
  /\ UNCHANGED <<dsLock, dsUpdate, dsKills>>
ServerDies ==
  /\ dsPort # 0 /\ dsPort' = 0 /\ UNCHANGED <<dsProcs, dsLock, dsUpdate, dsKills>>
(* confirm_successful_startup                                                     *)
Confirm(p) ==
  dsJournal' = [dsJournal EXCEPT !.pending = IF @ = dsProcs[p].version THEN 0 ELSE @]
(* wait_for_server: whoever answers the health check of BLAXIN on the port will   *)
(* do.  The page reads the rollback status when it is mounted.                    *)
BackendAnswers(p) ==
  /\ Pc(p) = "waiting" /\ dsPort # 0 /\ ProcessGoes(p, "up") /\ Confirm(p)
  /\ dsUi' = [dsUi EXCEPT ![p].offer = dsJournal'.pending # 0]
  /\ UNCHANGED <<dsLock, dsPort, dsDisk, dsJobs, dsKills>>
TimedOut(p) ==
  /\ Pc(p) = "waiting" /\ ProcessGoes(p, "up")
  /\ dsUi' = [dsUi EXCEPT ![p].offer = dsJournal.pending # 0]
  /\ UNCHANGED <<dsLock, dsPort, dsDisk, dsJournal, dsJobs, dsKills>>

\* Mutant: the lock is released before the backend is terminated.
CloseFirst(p) ==
  /\ Pc(p) \in {"waiting", "up", "leaving"} /\ ProcessGoes(p, "closing")
  /\ dsLock' = NoLock /\ dsJobs' = {j \in dsJobs : j.of # p}
  /\ UNCHANGED <<dsPort, dsDisk, dsJournal, dsUi, dsKills>>
(* The exit handler: terminate_server, then release.                              *)
Close(p) ==
  /\ Pc(p) \in {"waiting", "up", "leaving"} /\ ProcessGoes(p, "closing")
  /\ dsPort' = (IF dsPort = p THEN 0 ELSE dsPort) /\ dsJobs' = {j \in dsJobs : j.of # p}
  /\ UNCHANGED <<dsLock, dsDisk, dsJournal, dsUi, dsKills>>
Release(p) ==
  /\ Pc(p) = "closing" /\ dsLock' = NoLock /\ ProcessGoes(p, "gone")
  /\ dsPort' = IF dsPort = p THEN 0 ELSE dsPort
  /\ UNCHANGED <<dsUpdate, dsKills>>
(* A killed process leaves its lock file, and its backend on the port.            *)
Kill(p) ==
  /\ ~Dead(p) /\ dsKills < MaxKills /\ dsKills' = dsKills + 1 /\ ProcessGoes(p, "gone")
  /\ dsJobs' = {j \in dsJobs : j.of # p}
  /\ UNCHANGED <<dsLock, dsPort, dsDisk, dsJournal, dsUi>>

(* ----- The update dialog (UpdateNotifier.tsx) ----------------------------------- *)
Newer(p) == MaxVersion > dsProcs[p].version
StartJob(p, kind) ==
  /\ dsUi' = [dsUi EXCEPT ![p] = [busy |-> TRUE, armed |-> FALSE, offer |-> @.offer /\ kind # "rollback"]]
  /\ dsJobs' = dsJobs \cup {[of |-> p, kind |-> kind, stage |-> "fetch",
       target |-> IF kind = "update" THEN MaxVersion ELSE dsJournal.previous]}
  /\ UNCHANGED <<dsProcs, dsLock, dsPort, dsDisk, dsJournal, dsKills>>
(* runCheck with automatic installs on: the timer of 2.5 seconds is set.          *)
ArmAutomatic(p) ==
  /\ Pc(p) = "up" /\ Newer(p) /\ ~dsUi[p].armed /\ dsUi' = [dsUi EXCEPT ![p].armed = TRUE]
  /\ UNCHANGED <<dsProcs, dsLock, dsPort, dsDisk, dsJournal, dsJobs, dsKills>>
(* startInstall, by the button or the timer.                                      *)
StartInstall(p) == Pc(p) = "up" /\ Newer(p) /\ ~dsUi[p].busy /\ StartJob(p, "update")
(* startRollback; without a pending version the native side refuses.              *)
StartRollback(p) ==
  /\ Pc(p) = "up" /\ dsUi[p].offer /\ ~dsUi[p].busy
  /\ dsJournal.pending # 0 /\ StartJob(p, "rollback")

(* ----- The native pipeline (update.rs) ------------------------------------------ *)
JobBecomes(j, stage) == dsJobs' = (dsJobs \ {j}) \cup {[j EXCEPT !.stage = stage]}
(* A job that fails ends in the page's error state, and the page is free again.   *)
JobFails(j) ==
  /\ dsJobs' = dsJobs \ {j} /\ dsUi' = [dsUi EXCEPT ![j.of].busy = FALSE]
  /\ UNCHANGED <<dsProcs, dsLock, dsPort, dsDisk, dsJournal, dsKills>>
(* download_and_verify_deb *)
JobVerified(j, kind) == j.kind = kind /\ j.stage = "fetch" /\ JobBecomes(j, "install")
(* install_update_full: the update is journalled before dpkg runs.                *)
UpdateVerified(j) ==
  /\ JobVerified(j, "update")
  /\ dsJournal' = [pending |-> j.target, previous |-> dsProcs[j.of].version]
  /\ UNCHANGED <<dsProcs, dsLock, dsPort, dsDisk, dsUi, dsKills>>
(* perform_rollback leaves the journal as it is.                                  *)
RollbackVerified(j) ==
  /\ JobVerified(j, "rollback") /\ UNCHANGED <<dsProcs, dsLock, dsPort, dsDisk, dsJournal, dsUi, dsKills>>
(* pkexec dpkg -i *)
JobInstalled(j) ==
  /\ j.stage = "install" /\ JobBecomes(j, "relaunch") /\ dsDisk' = j.target
  /\ UNCHANGED <<dsProcs, dsLock, dsPort, dsJournal, dsUi, dsKills>>
(* relaunch: the new process waits for the lock, this one exits soon.             *)
JobRelaunches(j) ==
  /\ j.stage = "relaunch" /\ dsJobs' = dsJobs \ {j} /\ Len(dsProcs) < MaxProcs
  /\ dsProcs' = Append([dsProcs EXCEPT ![j.of].pc = "leaving"], StartedShell)
  /\ dsUi' = Append([dsUi EXCEPT ![j.of].busy = FALSE], FreshUi)
  /\ UNCHANGED <<dsLock, dsPort, dsDisk, dsJournal, dsKills>>

ShellNext ==
  \/ LaunchShell \/ ServerDies
  \/ \E p \in Procs :
       \/ CreateLock(p) \/ WritePid(p) \/ SeeStale(p) \/ RemoveStale(p) \/ GiveUpWaiting(p)
       \/ StartServer(p) \/ BackendAnswers(p) \/ TimedOut(p) \/ Close(p) \/ Release(p) \/ Kill(p)
       \/ ArmAutomatic(p) \/ StartInstall(p) \/ StartRollback(p)
  \/ \E j \in dsJobs : JobFails(j) \/ UpdateVerified(j) \/ RollbackVerified(j) \/ JobInstalled(j) \/ JobRelaunches(j)

ShellSpec == ShellInit /\ [][ShellNext]_dsVars
-----------------------------------------------------------------------------
Owners == {p \in Procs : Pc(p) \in {"created", "starting", "waiting", "up", "leaving", "closing"}}

\* "BLAXIN must never run twice": at most one process is past the lock.
NeverTwice == Cardinality(Owners) <= 1

\* The same as long as no process was killed, with a handover in between: and
\* the backend on the port is that of the process that holds the lock.
OneAtATime == dsKills = 0 => NeverTwice /\ (dsPort # 0 => dsPort \in Owners)

\* "Clears the pending marker only when the journal names this binary's version":
\* an update is taken for good by a process of that version whose own backend
\* answered, unless a backend without its process is left on the port.
ConfirmedByItself ==
  [][dsJournal.pending # 0 /\ dsJournal'.pending = 0 /\ dsKills = 0
       => dsPort \in Procs /\ dsProcs[dsPort].version = dsJournal.pending]_dsVars

\* A process runs one install or rollback at a time.
OneJob == \A j, k \in dsJobs : j.of = k.of => j = k

\* One shell, one job each, and updates that are confirmed by what they installed
\* (lock.rs, update.rs).
ShellHandsOver == [](OneAtATime /\ OneJob) /\ ConfirmedByItself
=============================================================================
