----------------------------- MODULE JarvisEngine -----------------------------
(* Jarvis, the layer between the user and the agent (jarvis/engine.ts): it     *)
(* takes a command, hands it to the queue or the mission store, follows the    *)
(* agent's events and composes the report of the directive from them.          *)
(*                                                                             *)
(* The agent is an environment that runs one task at a time and emits what     *)
(* AgentLoop and Scheduler emit.  A step of a task is a pair of the task and   *)
(* the state it ends in; a mission is served by the one task of its step.      *)
EXTENDS Naturals, Sequences, FiniteSets

CONSTANTS MaxJvTasks,  \* bound: tasks ever given to the agent
          JvCommands,  \* what a command says: "negation", "mission", "multi-step", "long", ...
          JvPhases     \* phases a running task shows: "thinking", "executing", "blocked", ...

ASSUME JvPhasesAssumption == "idle" \notin JvPhases

VARIABLES
  jvDir,      \* activeDirective: its task, whether it is a mission; ghost: mixed
  jvPhase,    \* phase
  jvEvid,     \* steps
  jvPending,  \* pendingTerminalState
  jvSpec,     \* currentSpecialist: status and verification of its result
  jvPoint,    \* lastMissionCheckpoint: the task of the mission it is of
  jvReport,   \* lastReport
  jvTasks     \* the agent's tasks: source, stage, its steps, how it really ended

jvVars == <<jvDir, jvPhase, jvEvid, jvPending, jvSpec, jvPoint, jvReport, jvTasks>>

NoDirective == 0
NoDir == [task |-> NoDirective, mission |-> FALSE, mixed |-> FALSE]
NoSpec == [status |-> "none", verification |-> "none"]
NoReport == [task |-> NoDirective, status |-> "none", evid |-> {}, mixed |-> FALSE, point |-> NoDirective]

JarvisInit ==
  /\ jvDir = NoDir /\ jvPhase = "idle" /\ jvEvid = {} /\ jvPending = "none" /\ jvSpec = NoSpec
  /\ jvPoint = NoDirective /\ jvReport = NoReport /\ jvTasks = <<>>

LiveTask(t) == jvTasks[t].stage # "over"
Busy == {t \in DOMAIN jvTasks : LiveTask(t)}
RunningTask(t) == t \in DOMAIN jvTasks /\ jvTasks[t].stage \in {"running", "said"}
NewTask(source) == Append(jvTasks, [source |-> source, stage |-> "queued", steps |-> {}, real |-> "none"])

(* ----- Intake ----------------------------------------------------------------- *)
(* defaultAssessIntent, on what a command says; a follow-up counts when there   *)
(* is a conversation and a report before it.                                    *)
AssessIntent(says) ==
  IF "negation" \in says THEN "standard"
  ELSE IF "mission" \in says \/ {"multi-step", "long"} \subseteq says THEN "mission"
  ELSE IF \/ "follow-up" \in says /\ jvReport # NoReport
          \/ "targeted" \in says THEN "standard"
  ELSE "fast"
\* Mutant: what an earlier run left is kept.
CommandKeepsSteps(says) ==
  LET mission == AssessIntent(says) = "mission" IN
  /\ Len(jvTasks) < MaxJvTasks /\ jvTasks' = NewTask(IF mission THEN "mission" ELSE "command")
  /\ jvDir' = [task |-> Len(jvTasks) + 1, mission |-> mission, mixed |-> Busy # {}]
  /\ jvPending' = "none" /\ jvSpec' = NoSpec
  /\ jvPhase' = "delegated" /\ UNCHANGED <<jvPoint, jvReport, jvEvid>>
(* receiveCommand: the goal is executed, then the collectors are reset.         *)
ReceiveCommand(says) ==
  LET mission == AssessIntent(says) = "mission" IN
  /\ Len(jvTasks) < MaxJvTasks /\ jvTasks' = NewTask(IF mission THEN "mission" ELSE "command")
  /\ jvDir' = [task |-> Len(jvTasks) + 1, mission |-> mission, mixed |-> Busy # {}]
  /\ jvEvid' = {} /\ jvPending' = "none" /\ jvSpec' = NoSpec
  /\ jvPhase' = "delegated" /\ UNCHANGED <<jvPoint, jvReport>>

(* A task of the queue panel is not Jarvis's; with a directive open it mixes in. *)
PanelTask ==
  /\ Len(jvTasks) < MaxJvTasks /\ jvTasks' = NewTask("panel")
  /\ jvDir' = [jvDir EXCEPT !.mixed = jvDir # NoDir]
  /\ UNCHANGED <<jvPhase, jvEvid, jvPending, jvSpec, jvPoint, jvReport>>

(* ----- The report ------------------------------------------------------------- *)
ReportStatus(terminal, evid, spec, mission) ==
  IF terminal = "idle" THEN "STOPPED"
  ELSE IF terminal = "error" THEN "FAILED"
  ELSE IF \/ \E e \in evid : e[2] \in {"failed", "skipped"}
          \/ spec.verification = "UNVERIFIED" /\ spec.status \notin {"FAILED", "TIMED_OUT", "CANCELLED"}
          \/ mission = "UNVERIFIED"
       THEN "PARTIAL" ELSE "SUCCESS"

(* composeReport, and the reset of the collectors.                              *)
Compose(terminal, evid, point, mission) ==
  /\ jvReport' = [task |-> jvDir.task, status |-> ReportStatus(terminal, evid, jvSpec, mission),
                  evid |-> evid, mixed |-> jvDir.mixed, point |-> point]
  /\ jvDir' = NoDir /\ jvPhase' = "idle" /\ jvEvid' = {} /\ jvPending' = "none"
  /\ jvSpec' = NoSpec /\ jvPoint' = NoDirective

(* runtimePhaseFor, while a directive is open.                                  *)
Shown(phase) == jvPhase' = IF jvDir = NoDir THEN jvPhase ELSE phase

(* ----- Events of a run -------------------------------------------------------- *)
Stage(t, s) == jvTasks' = [jvTasks EXCEPT ![t].stage = s]
RunStarts(t) ==
  /\ jvTasks[t].stage = "queued" /\ \A u \in DOMAIN jvTasks : ~RunningTask(u)
  /\ Stage(t, "running") /\ Shown("planning")
  /\ UNCHANGED <<jvDir, jvEvid, jvPending, jvSpec, jvPoint, jvReport>>
(* agent-state, confirmation-required, a retry or a desync of the browser.      *)
RunShows(t) ==
  /\ jvTasks[t].stage = "running" /\ UNCHANGED jvTasks
  /\ \E p \in JvPhases : Shown(p)
  /\ UNCHANGED <<jvDir, jvEvid, jvPending, jvSpec, jvPoint, jvReport>>
(* task-progress.                                                               *)
RunProgress(t, state) ==
  /\ jvTasks[t].stage = "running"
  /\ jvTasks' = [jvTasks EXCEPT ![t].steps = {<<t, state>>}]
  /\ jvEvid' = {e \in jvEvid : e[1] # t} \cup {<<t, state>>}
  /\ UNCHANGED <<jvDir, jvPhase, jvPending, jvSpec, jvPoint, jvReport>>
(* specialist-assigned, specialist-result: the latest one is the one shown.     *)
RunDelegates(t) ==
  /\ jvTasks[t].stage = "running" /\ jvSpec' = [status |-> "RUNNING", verification |-> "none"]
  /\ UNCHANGED <<jvDir, jvPhase, jvEvid, jvPending, jvPoint, jvReport, jvTasks>>
RunVerifies(t, status, verification) ==
  /\ jvTasks[t].stage = "running" /\ jvSpec' = [status |-> status, verification |-> verification]
  /\ UNCHANGED <<jvDir, jvPhase, jvEvid, jvPending, jvPoint, jvReport, jvTasks>>
(* The terminal agent-state; a run that no model can serve has none.            *)
RunSays(t, state) ==
  /\ jvTasks[t].stage = "running" /\ jvPending' = state
  /\ jvTasks' = [jvTasks EXCEPT ![t].stage = "said", ![t].real = state]
  /\ UNCHANGED <<jvDir, jvPhase, jvEvid, jvSpec, jvPoint, jvReport>>
(* task-complete: without a terminal state there is nothing to report, since    *)
(* the event carries no outcome.                                                *)
RunOver(t) ==
  /\ RunningTask(t) /\ Stage(t, "over")
  /\ IF jvDir # NoDir /\ ~jvDir.mission /\ jvPending # "none"
     THEN Compose(jvPending, jvEvid, jvPoint, "none")
     ELSE UNCHANGED <<jvDir, jvPhase, jvEvid, jvPending, jvSpec, jvPoint>> /\ UNCHANGED jvReport

(* ----- Events of a mission ---------------------------------------------------- *)
(* onMissionProgress of the directive's mission: its end closes the directive.  *)
MissionEnds(status, verification) ==
  /\ jvDir.mission
  /\ IF status = "cancelled" THEN TRUE ELSE ~LiveTask(jvDir.task)
  /\ status = "completed" => jvTasks[jvDir.task].real = "completed"
  /\ Compose(IF status = "completed" THEN "completed" ELSE "error",
             jvEvid \cup {<<jvDir.task, status>>}, jvDir.task, verification)
  /\ UNCHANGED jvTasks
MissionPaused ==
  /\ jvDir.mission /\ LiveTask(jvDir.task) /\ jvPoint' = jvDir.task
  /\ UNCHANGED <<jvDir, jvPhase, jvEvid, jvPending, jvSpec, jvReport, jvTasks>>

JarvisNext ==
  \/ \E c \in JvCommands : ReceiveCommand(c)
  \/ PanelTask \/ MissionPaused
  \/ \E t \in DOMAIN jvTasks :
       \/ RunStarts(t) \/ RunShows(t) \/ RunDelegates(t) \/ RunOver(t)
       \/ \E s \in {"completed", "failed"} : RunProgress(t, s)
       \/ RunVerifies(t, "COMPLETED", "VERIFIED") \/ RunVerifies(t, "COMPLETED", "UNVERIFIED")
       \/ RunVerifies(t, "FAILED", "UNVERIFIED")
       \/ \E s \in {"completed", "error", "idle"} : RunSays(t, s)
  \/ \E s \in {"completed", "failed", "cancelled"}, v \in {"VERIFIED", "UNVERIFIED"} : MissionEnds(s, v)

JarvisSpec == JarvisInit /\ [][JarvisNext]_jvVars
-----------------------------------------------------------------------------
\* "A run is only SUCCESS when the agent genuinely finished cleanly": the report
\* of a directive says SUCCESS of a run of its own that ended well, in which no
\* step failed.
SuccessIsGenuine ==
  jvReport.status = "SUCCESS" =>
    /\ jvTasks[jvReport.task].real = "completed"
    /\ \A e \in jvTasks[jvReport.task].steps : e[2] = "completed"

\* The same, and the evidence is of that task alone, when nothing else was in
\* the agent's hands while the directive was open.
OwnEvidence ==
  ~jvReport.mixed => SuccessIsGenuine /\ \A e \in jvReport.evid : e[1] = jvReport.task

\* "UNVERIFIED is never upgraded": no report of success while the objective of
\* the run, settled as verified or not, stands as unverified.
UnverifiedIsNoSuccess ==
  [][jvReport' # jvReport /\ jvReport'.status = "SUCCESS"
       => jvSpec.verification # "UNVERIFIED" \/ jvSpec.status = "FAILED"]_jvVars

\* A phase other than idle belongs to a directive that is still open.
PhaseHasDirective == (jvDir = NoDir) = (jvPhase = "idle")

\* A report is composed from the evidence of its own directive and never better
\* than that (engine.ts, composeReport).
ReportIsEarned == [](OwnEvidence /\ PhaseHasDirective) /\ UnverifiedIsNoSuccess
=============================================================================
