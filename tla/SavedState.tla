---------------------------- MODULE SavedState ----------------------------
(* What the server keeps on disk of the conversation (session-state.ts,     *)
(* written on a timer while dirty) and of finished runs (telemetry-store.ts, *)
(* written by a debounced chain of asynchronous drains), over shutdowns and  *)
(* crashes.  Messages and records are numbered; what is held of either is    *)
(* the window [from, to] of the newest.                                      *)
EXTENDS Naturals, Sequences, SequencesExt

CONSTANTS SvCap,      \* maxRecords, and MAX_HISTORY_SIZE
          SvBurst,    \* the batch threshold
          MaxRecords, \* bound: records made
          MaxTalk,    \* bound: messages added and clears
          MaxSvLives  \* bound: restarts

ASSUME SavedAssumption ==
  /\ SvCap \in Nat \ {0} /\ SvBurst \in Nat \ {0}
  /\ MaxRecords \in Nat /\ MaxTalk \in Nat /\ MaxSvLives \in Nat

VARIABLES
  svServer,   \* "up", "closing" (shutdown runs) or "down"
  svRing,     \* ring
  svPending,  \* Len(pending)
  svTimer,    \* flushTimer is set
  svDrains,   \* writeChain: the drains not finished, oldest first
  svDisk,     \* telemetry.json
  svFailed,   \* the newest write of the records failed
  svTalk,     \* conversationHistory
  svDirty,    \* isDirty
  svAuto,     \* autoSaveTimer is set
  svTalkDisk, \* session.json
  svSaid,     \* messages and clears so far
  svLives     \* restarts so far

svRecordVars == <<svRing, svPending, svTimer, svDrains, svDisk, svFailed>>
svTalkVars == <<svTalk, svDirty, svAuto, svTalkDisk, svSaid>>
savedVars == <<svServer, svRecordVars, svTalkVars, svLives>>

Nothing == [from |-> 1, to |-> 0]
TornTalk == [from |-> 0, to |-> 0]  \* cut off in the middle of a write
LastRecords(from, to) == [from |-> IF to + 1 > from + SvCap THEN to + 1 - SvCap ELSE from, to |-> to]
Queued == [phase |-> "queued", snap |-> Nothing]

SavedInit ==
  /\ svServer = "up"
  /\ svRing = Nothing /\ svPending = 0 /\ svTimer = FALSE /\ svDrains = <<>> /\ svDisk = Nothing /\ svFailed = FALSE
  /\ svTalk = Nothing /\ svDirty = FALSE /\ svAuto = FALSE /\ svTalkDisk = Nothing /\ svSaid = 0
  /\ svLives = 0

ServerRuns == svServer # "down"

\* ---- the records of finished runs
\* record: the ring takes it, and scheduleFlush keeps a set timer, flushes a
\* burst at once or sets the timer.
Record ==
  /\ ServerRuns /\ svRing.to < MaxRecords
  /\ svRing' = LastRecords(svRing.from, svRing.to + 1)
  /\ svPending' = svPending + 1
  /\ LET burst == ~svTimer /\ svPending' >= SvBurst IN
     /\ svTimer' = ~burst
     /\ svDrains' = IF burst THEN Append(svDrains, Queued) ELSE svDrains
  /\ UNCHANGED <<svServer, svDisk, svFailed, svTalkVars, svLives>>

TimerFlushes ==
  /\ ServerRuns /\ svTimer /\ svTimer' = FALSE
  /\ svDrains' = IF svPending > 0 THEN Append(svDrains, Queued) ELSE svDrains
  /\ UNCHANGED <<svServer, svRing, svPending, svDisk, svFailed, svTalkVars, svLives>>

\* Mutant: every drain runs on its own, none waits for the ones before it.
TurnOfAny(i) == TRUE
Turn(i) == i = 1

\* drain: nothing pending ends it; else what is pending is taken over and the
\* ring is written, with its contents at that later moment.
PendingAfter(stage) == IF stage = "begun" THEN 0 ELSE svPending
DrainBegins(i) ==
  /\ ServerRuns /\ svDrains[i].phase = "queued" /\ Turn(i)
  /\ IF svPending = 0
     THEN svDrains' = RemoveAt(svDrains, i) /\ UNCHANGED svPending
     ELSE svDrains' = [svDrains EXCEPT ![i].phase = "begun"] /\ svPending' = PendingAfter("begun")
  /\ UNCHANGED <<svServer, svRing, svTimer, svDisk, svFailed, svTalkVars, svLives>>

TempWritten(i) ==
  /\ ServerRuns /\ svDrains[i].phase = "begun"
  /\ svDrains' = [svDrains EXCEPT ![i] = [phase |-> "written", snap |-> svRing]]
  /\ UNCHANGED <<svServer, svRing, svPending, svTimer, svDisk, svFailed, svTalkVars, svLives>>

Renamed(i) ==
  /\ ServerRuns /\ svDrains[i].phase = "written"
  /\ svDisk' = svDrains[i].snap /\ svFailed' = FALSE
  /\ svDrains' = RemoveAt(svDrains, i)
  /\ svPending' = PendingAfter("written")
  /\ UNCHANGED <<svServer, svRing, svTimer, svTalkVars, svLives>>

WriteFails(i) ==
  /\ ServerRuns /\ svDrains[i].phase \in {"begun", "written"}
  /\ svFailed' = TRUE
  /\ svDrains' = RemoveAt(svDrains, i)
  /\ UNCHANGED <<svServer, svRing, svPending, svTimer, svDisk, svTalkVars, svLives>>

\* ---- the conversation
Spoken == ServerRuns /\ svSaid < MaxTalk /\ svSaid' = svSaid + 1
Says(talk) == svTalk' = talk /\ svDirty' = TRUE /\ UNCHANGED <<svServer, svRecordVars, svAuto, svTalkDisk, svLives>>

AddMessage == Spoken /\ Says(LastRecords(svTalk.from, svTalk.to + 1))

\* setHistory: rollbackDirect takes the newest message back.
SetHistory == Spoken /\ svTalk.to >= svTalk.from /\ Says(LastRecords(svTalk.from, svTalk.to - 1))

ClearTalk == Spoken /\ Says(Nothing)

StartAutoSave ==
  /\ svServer = "up" /\ ~svAuto /\ svAuto' = TRUE
  /\ UNCHANGED <<svServer, svRecordVars, svTalk, svDirty, svTalkDisk, svSaid, svLives>>

\* saveState: a write that fails leaves the state dirty.
Saves(ok) ==
  /\ svTalkDisk' = IF svDirty /\ ok THEN svTalk ELSE svTalkDisk
  /\ svDirty' = (svDirty /\ ~ok)

AutoSave(ok) ==
  /\ ServerRuns /\ svAuto /\ svDirty /\ Saves(ok)
  /\ UNCHANGED <<svServer, svRecordVars, svTalk, svAuto, svSaid, svLives>>

\* ---- the process
\* shutdown: the final save, then the synchronous flush of what no drain has
\* taken; the drains under way and the run go on until the exit.
ServerShutdown(saved, flushed) ==
  /\ svServer = "up" /\ svServer' = "closing"
  /\ svAuto' = FALSE /\ Saves(saved)
  /\ svPending' = 0
  /\ svDisk' = IF svPending > 0 /\ flushed THEN svRing ELSE svDisk
  /\ svFailed' = IF svPending > 0 THEN ~flushed ELSE svFailed
  /\ UNCHANGED <<svRing, svTimer, svDrains, svTalk, svSaid, svLives>>

\* The exit, or a crash: what is in memory is gone; a save of the conversation
\* under way leaves a torn file, a write of the records only its temporary one.
ServerGoes == svServer' = "down" /\ svDrains' = <<>> /\ svTimer' = FALSE /\ svPending' = 0
Exits ==
  /\ ServerRuns /\ ServerGoes
  /\ UNCHANGED <<svRing, svDisk, svFailed, svTalkVars, svLives>>

CrashSaving ==
  /\ ServerRuns /\ svAuto /\ svDirty /\ ServerGoes /\ svTalkDisk' = TornTalk
  /\ UNCHANGED <<svRing, svDisk, svFailed, svTalk, svDirty, svAuto, svSaid, svLives>>

\* loadState and load: a file that does not parse starts the conversation afresh.
LoadedTalk == IF svTalkDisk = TornTalk THEN Nothing ELSE svTalkDisk

Restarts ==
  /\ svServer = "down" /\ svLives < MaxSvLives /\ svLives' = svLives + 1
  /\ svServer' = "up"
  /\ svRing' = svDisk /\ svFailed' = FALSE
  /\ svTalk' = LoadedTalk /\ svDirty' = FALSE /\ svAuto' = FALSE
  /\ UNCHANGED <<svPending, svTimer, svDrains, svDisk, svTalkDisk, svSaid>>

SavedNext ==
  \/ Record \/ TimerFlushes \/ AddMessage \/ SetHistory \/ ClearTalk \/ StartAutoSave
  \/ \E i \in 1..Len(svDrains) : DrainBegins(i) \/ TempWritten(i) \/ Renamed(i) \/ WriteFails(i)
  \/ \E ok \in BOOLEAN : AutoSave(ok)
  \/ \E saved, flushed \in BOOLEAN : ServerShutdown(saved, flushed)
  \/ Exits \/ CrashSaving \/ Restarts

SavedSpec == SavedInit /\ [][SavedNext]_savedVars

\* ---- properties
\* The chain of drains never lets an older snapshot overwrite a newer one while
\* the server is up, whatever is recorded while a write is under way.
RecordsNeverGoBack ==
  [][svServer = "up" /\ svServer' = "up" => svDisk'.to >= svDisk.to]_savedVars

\* When nothing is set, queued or under way and the newest write did not fail,
\* every record in memory is on disk: the drain that clears what is pending
\* before it writes loses none of those recorded meanwhile.
QuietIsSaved ==
  (svServer = "up" /\ ~svTimer /\ svDrains = <<>> /\ ~svFailed) => svDisk = svRing

\* A conversation that is not marked dirty is the one a restart would bring
\* back: in particular one the user cleared does not come back after its save.
CleanIsSaved == ServerRuns /\ ~svDirty => svTalk = LoadedTalk

\* Debounce, drains and flushes lose nothing that was to be kept, and write
\* nothing older over it (telemetry-store.ts, session-state.ts).
SavedIsKept == [](QuietIsSaved /\ CleanIsSaved) /\ RecordsNeverGoBack
=============================================================================
