----------------------------- MODULE Scheduler -----------------------------
(* The embedded mode's work loop: JarvisScheduler (utils/scheduler.ts) over
   the task queue and the missions, the run control of the orchestrator it
   feeds (processMessage, stop, the end of a run) and the requests of the
   REST and WebSocket routes that reach them (index.ts).

   - A handler runs to its end in one step: nothing in it awaits, and the
     continuations between the end of a run and the start of the message
     that waited behind it are microtasks.  A crash may fall between the two
     files a handler writes.
   - A run is reduced to what the scheduler can tell of it: the phase, a
     stop, the last agent-state and the verdict of its specialist.  The
     states it passes through on its way are "ok", as is "completed".
   - A request that finds nothing to change is left out, but for its pump:
     the resume and retry of the WebSocket always pump. *)
EXTENDS TaskQueue, MissionStore, SequencesExt

CONSTANTS
    Priorities,     \* priorities a request asks for, within 1..5
    MaxPending,     \* MAX_QUEUE_SIZE, 10 in the code
    MaxTaskIds,     \* bound: tasks ever created
    MaxMissionIds,  \* bound: missions ever created
    MayRestart      \* whether the process may end and start again

ASSUME SchedulerAssumption ==
    /\ Priorities \subseteq 1 .. 5
    /\ MaxTasks \in Nat /\ MaxMissions \in Nat /\ MaxSteps \in Nat
    /\ MaxPending \in Nat /\ MaxTaskIds \in Nat /\ MaxMissionIds \in Nat
    /\ MayRestart \in BOOLEAN
    /\ None \notin Nat

VARIABLES
    queue,        \* the tasks, in memory and in queue.json
    missions,     \* the missions, in memory and in missions.json
    nextTask,     \* the id of the next task
    nextMission,  \* the id of the next mission
    running,      \* runningTaskId, and the coordinator's binding with it
    lastState,    \* the last agent-state seen since the task runs; dead without one
    evidence,     \* steps whose last specialist result was VERIFIED
    run,          \* the run of the orchestrator; busy is its phase not idle
    pending       \* length of pendingQueue: only direct messages wait there

vars == <<queue, missions, nextTask, nextMission, running, lastState, evidence,
          run, pending>>

NoStep == <<None, 0>>

NoRun == [task |-> None, step |-> NoStep, phase |-> "idle", stopped |-> FALSE]

\* A run begins on the deterministic path, or with the choice of a model.
RunsOf(id, step) ==
    {[task |-> id, step |-> step, phase |-> p, stopped |-> FALSE] : p \in {"direct", "routing"}}

StepOf(t) == <<t.mission, t.step>>

Busy == run.phase # "idle" \/ pending > 0

Init ==
    /\ queue = <<>> /\ missions = <<>>
    /\ nextTask = 1 /\ nextMission = 1
    /\ running = None /\ lastState = "idle" /\ evidence = {}
    /\ run = NoRun /\ pending = 0

-----------------------------------------------------------------------------
(* processMessage: a run begins, or the message waits behind the one that
   goes on.  Over the limit it is refused with an error. *)

ProcessMessage(id, step) ==
    IF run.phase = "idle"
       THEN run' \in RunsOf(id, step) /\ UNCHANGED pending
       ELSE /\ pending' = IF pending < MaxPending THEN pending + 1 ELSE pending
            /\ UNCHANGED run

-----------------------------------------------------------------------------
(* pump: what a handler leaves in the stores. *)

\* What pump reads and writes of the stores.
Stores(q, ms, n) == [queue |-> q, missions |-> ms, next |-> n]

\* A mission pump has work for: it may start and no step of it is in flight.
HasWork(m) == Startable(m) /\ StepsIn(m, "running") = {}

StepTask(id, m) ==
    [id |-> id, priority |-> m.priority, status |-> "queued",
     mission |-> m.id, step |-> NextPendingStep(m)]

\* One mission of pump's loop: its next step is marked and its task queued.
Advance(s, id) ==
    LET m == MissionOf(s.missions, id)
        marked == [s EXCEPT !.missions = Put(s.missions, StartOrResume(m))]
    IN  IF ~HasWork(m) THEN s
        ELSE IF NextPendingStep(m) = 0 THEN marked
        ELSE [marked EXCEPT !.queue = Enqueue(s.queue, StepTask(s.next, m)),
                            !.next = s.next + 1]

AdvanceAll(s) ==
    FoldLeft(Advance, s, [i \in DOMAIN s.missions |-> s.missions[i].id])

\* Mutant: pump looks at its own task only.
PumpGoesBusy(current, busy) == current = None

\* pump does nothing while a task runs or the orchestrator is busy.
PumpGoes(current, busy) == current = None /\ ~busy

\* A request that leaves the stores at s and then pumps.
PumpAfter(s) ==
    LET advanced == AdvanceAll(s)
        id       == NextEligible(advanced.queue)
    IN  /\ missions' = IF PumpGoes(running, Busy) THEN advanced.missions ELSE s.missions
        /\ nextTask' = IF PumpGoes(running, Busy) THEN advanced.next ELSE s.next
        /\ nextTask' <= MaxTaskIds + 1
        /\ IF PumpGoes(running, Busy) /\ id # None
              THEN /\ queue' = MarkRunning(advanced.queue, id)
                   /\ running' = id
                   /\ lastState' = "ok"
                   /\ ProcessMessage(id, StepOf(TaskOf(advanced.queue, id)))
              ELSE /\ queue' = IF PumpGoes(running, Busy) THEN advanced.queue ELSE s.queue
                   /\ UNCHANGED <<running, lastState, run, pending>>
        /\ UNCHANGED evidence

\* A request that only changes the stores.
JustStore(q, ms) ==
    /\ queue' = q /\ missions' = ms
    /\ UNCHANGED <<nextTask, nextMission, running, lastState, run, pending>>

-----------------------------------------------------------------------------
(* Requests: the queue. *)

EnqueueRequest(p) ==
    /\ nextTask <= MaxTaskIds
    /\ LET task == [id |-> nextTask, priority |-> p, status |-> "queued",
                    mission |-> None, step |-> 0]
       IN  PumpAfter(Stores(Enqueue(queue, task), missions, nextTask + 1))
    /\ UNCHANGED nextMission

\* The task `id` has one of the statuses a request looks for.
TaskIn(id, statuses) == HasTask(queue, id) /\ TaskOf(queue, id).status \in statuses

CancelRequest(id) ==
    /\ TaskIn(id, LiveStatuses)
    /\ JustStore(CancelTask(queue, id), missions) /\ UNCHANGED evidence

PauseRequest(id) ==
    /\ TaskIn(id, {"queued"})
    /\ JustStore(PauseTask(queue, id), missions) /\ UNCHANGED evidence

ResumeRequest(id) ==
    /\ TaskIn(id, {"paused"})
    /\ PumpAfter(Stores(ResumeTask(queue, id), missions, nextTask))
    /\ UNCHANGED nextMission

\* A resume or retry of the WebSocket that changes nothing pumps all the same.
PumpRequest ==
    /\ PumpAfter(Stores(queue, missions, nextTask))
    /\ UNCHANGED nextMission

RemoveRequest(id) ==
    /\ HasTask(queue, id)
    /\ JustStore(RemoveTask(queue, id), missions) /\ UNCHANGED evidence

-----------------------------------------------------------------------------
(* Requests: the missions. *)

CreateMissionRequest(p, steps) ==
    /\ nextMission <= MaxMissionIds
    /\ nextMission' = nextMission + 1
    /\ PumpAfter(Stores(queue, CreateMission(missions, nextMission, p, steps), nextTask))

MissionIn(id, statuses) ==
    HasMission(missions, id) /\ MissionOf(missions, id).status \in statuses

PauseMissionRequest(id) ==
    /\ MissionIn(id, {"queued", "running"})
    /\ JustStore(queue, Put(missions, PauseMission(MissionOf(missions, id))))
    /\ UNCHANGED evidence

ResumeMissionRequest(id) ==
    /\ MissionIn(id, {"paused"})
    /\ PumpAfter(Stores(queue, Put(missions, ResumeMission(MissionOf(missions, id))), nextTask))
    /\ UNCHANGED nextMission

RetryMissionRequest(id) ==
    /\ HasMission(missions, id) /\ StepsIn(MissionOf(missions, id), "failed") # {}
    /\ PumpAfter(Stores(queue, Put(missions, RetryMission(MissionOf(missions, id))), nextTask))
    /\ UNCHANGED nextMission

\* POST /api/missions/:id/cancel leaves the queue alone.
CancelMissionRequest(id) ==
    /\ MissionIn(id, {"queued", "running", "paused"})
    /\ JustStore(queue, Put(missions, CancelMission(MissionOf(missions, id))))
    /\ UNCHANGED evidence

\* The mission-cancel message takes the mission's queued and running tasks.
CancelTasksOf(q, mission) ==
    [i \in DOMAIN q |-> IF q[i].mission = mission /\ q[i].status \in {"queued", "running"}
                           THEN [q[i] EXCEPT !.status = "cancelled"]
                           ELSE q[i]]

CancelMissionMessage(id) ==
    /\ HasMission(missions, id)
    /\ JustStore(CancelTasksOf(queue, id),
                 Put(missions, CancelMission(MissionOf(missions, id))))
    /\ UNCHANGED evidence

\* The coordinator forgets the mission's evidence with it.
RemoveMissionRequest(id) ==
    /\ HasMission(missions, id)
    /\ JustStore(queue, RemoveMission(missions, id))
    /\ evidence' = {e \in evidence : e[1] # id}

-----------------------------------------------------------------------------
(* Requests: the orchestrator. *)

\* An agent-state reaches the scheduler.
See(state) == lastState' = IF running = None THEN lastState ELSE state

\* POST /api/agent/message goes past the queue.  Behind a run it waits.
DirectMessage ==
    /\ ProcessMessage(None, NoStep)
    /\ IF pending' = pending THEN UNCHANGED lastState ELSE See("ok")
    /\ UNCHANGED <<queue, missions, nextTask, nextMission, running, evidence>>

\* stopRequested is read by the loop alone, and cleared when one begins.
Stop ==
    /\ See("idle")
    /\ run' = [run EXCEPT !.stopped = run.phase = "loop"]
    /\ UNCHANGED <<queue, missions, nextTask, nextMission, running, evidence, pending>>

ClearHistory ==
    /\ See("idle")
    /\ pending' = 0
    /\ UNCHANGED <<queue, missions, nextTask, nextMission, running, evidence, run>>

-----------------------------------------------------------------------------
(* The run. *)

\* The direct action failed: the model gets the task.
FallThrough ==
    /\ run.phase = "direct"
    /\ run' = [run EXCEPT !.phase = "routing"]
    /\ UNCHANGED <<queue, missions, nextTask, nextMission, running, lastState, evidence,
                   pending>>

\* A stop during the choice of the model is forgotten here, its idle with it.
BeginLoop ==
    /\ run.phase = "routing"
    /\ run' = [run EXCEPT !.phase = "loop"]
    /\ See("ok")
    /\ UNCHANGED <<queue, missions, nextTask, nextMission, running, evidence, pending>>

\* The step the coordinator attributes a specialist's result to.
BoundStep ==
    IF running # None /\ HasTask(queue, running) THEN StepOf(TaskOf(queue, running)) ELSE NoStep

\* The specialist's result, if the run had one, reaches the coordinator.
Ingested(result) ==
    IF result = "VERIFIED" /\ BoundStep # NoStep THEN evidence \cup {BoundStep}
    ELSE IF result = "UNVERIFIED" THEN evidence \ {BoundStep}
    ELSE evidence

\* Mutant: any evidence of any step counts.
LevelOfAny(step, known) == IF known # {} THEN "VERIFIED" ELSE "NONE"

LevelOf(step, known) == IF step \in known THEN "VERIFIED" ELSE "NONE"

\* onTaskComplete, the queue's half: the task of the run gets its status.
SettleTask(q, id, state) ==
    IF state = "error" THEN MarkFailed(q, id)
    ELSE IF state = "idle" THEN CancelTask(q, id)
    ELSE MarkCompleted(q, id)

\* ... and the missions' half.  A task that was removed settles nothing.
SettleMission(ms, state, known) ==
    LET id == BoundStep[1]
    IN  IF id = None \/ ~HasMission(ms, id) THEN ms
        ELSE Put(ms, SettleStep(MissionOf(ms, id), BoundStep[2], state = "ok",
                                LevelOf(BoundStep, known)))

\* processMessage after a run: the next direct message that waits, if any.
Release ==
    IF pending = 0 THEN run' = NoRun /\ UNCHANGED pending
                   ELSE run' \in RunsOf(None, NoStep) /\ pending' = pending - 1

(* finishRunTask: the specialist's result, then task-complete, then the end
   of processMessage.  The scheduler pumps when it has settled the task, but
   task-complete is emitted by the run itself: it is still busy, so that
   pump returns. *)
FinishRun(state, result) ==
    LET known == Ingested(result)
    IN  /\ queue' = IF running = None THEN queue ELSE SettleTask(queue, running, state)
        /\ missions' = SettleMission(missions, state, known)
        /\ running' = None
        /\ evidence' = known
        /\ lastState' = "idle"
        /\ Release
        /\ UNCHANGED <<nextTask, nextMission>>

Results == {"VERIFIED", "UNVERIFIED", "none"}

\* The direct action ran, or was denied: completed either way, and when
\* the user stopped it too.
EndDirect == run.phase = "direct" /\ \E r \in Results : FinishRun("ok", r)

\* No model can serve the task: the run ends in whatever state was last seen.
EndBlocked == run.phase = "routing" /\ FinishRun(lastState, "none")

\* A stop is looked at only after a batch of tool calls; a final answer or
\* the step limit after it still completes, an error still fails.
LoopEnds == {"ok", "error"} \cup (IF run.stopped THEN {"idle"} ELSE {})

EndStates ==
    IF run.phase = "direct" THEN {"ok"}
    ELSE IF run.phase = "routing" THEN {lastState} ELSE LoopEnds

EndLoop ==
    /\ run.phase = "loop"
    /\ \E state \in LoopEnds, r \in Results : FinishRun(state, r)

RunStep == FallThrough \/ BeginLoop \/ EndDirect \/ EndBlocked \/ EndLoop

-----------------------------------------------------------------------------
(* The end of the process.  Both files were saved by the last handler; a
   crash in a handler leaves the first of its two saves without the second.
   Nothing pumps at start. *)

StartWith(q, ms, n) ==
    /\ MayRestart
    /\ queue' = LoadQueue(q)
    /\ missions' = LoadMissions(ms)
    /\ running' = None /\ lastState' = "idle" /\ evidence' = {}
    /\ run' = NoRun /\ pending' = 0
    /\ nextTask' = n
    /\ UNCHANGED nextMission

Restart == StartWith(queue, missions, nextTask)

\* In onTaskComplete: the queue has the task's end, the step is still running.
CrashInSettle ==
    /\ running # None
    /\ \E state \in EndStates : StartWith(SettleTask(queue, running, state), missions, nextTask)

\* In pump: a step is marked running and its task is not yet in the queue.
CrashInPump ==
    /\ PumpGoes(running, Busy)
    /\ \E i \in DOMAIN missions :
          LET ids == [j \in 1 .. i - 1 |-> missions[j].id]
              s   == FoldLeft(Advance, Stores(queue, missions, nextTask), ids)
          IN  /\ HasWork(missions[i])
              /\ s.next <= MaxTaskIds + 1
              /\ StartWith(s.queue, Put(s.missions, StartOrResume(missions[i])), s.next)

-----------------------------------------------------------------------------
Requests ==
    \/ \E p \in Priorities : EnqueueRequest(p)
    \/ \E id \in 1 .. MaxTaskIds :
          \/ CancelRequest(id) \/ PauseRequest(id) \/ ResumeRequest(id) \/ RemoveRequest(id)
    \/ PumpRequest
    \/ \E p \in Priorities, n \in 1 .. MaxSteps : CreateMissionRequest(p, n)
    \/ \E id \in 1 .. MaxMissionIds :
          \/ PauseMissionRequest(id) \/ ResumeMissionRequest(id) \/ RetryMissionRequest(id)
          \/ CancelMissionRequest(id) \/ CancelMissionMessage(id) \/ RemoveMissionRequest(id)
    \/ DirectMessage \/ Stop \/ ClearHistory

Next == Requests \/ RunStep \/ Restart \/ CrashInSettle \/ CrashInPump

Spec == Init /\ [][Next]_vars

\* A run goes on by itself: model calls, tools and confirmations all end in
\* an answer or a timeout.  Nobody has to make a request or stop the process.
FairSpec == Spec /\ WF_vars(RunStep)

-----------------------------------------------------------------------------
(* Properties. *)

TaskTypes ==
    [id : 1 .. MaxTaskIds, priority : 1 .. 5, status : QueueStatuses,
     mission : {None} \cup 1 .. MaxMissionIds, step : 0 .. MaxSteps]

StepTypes == [status : StepStatuses, level : {"VERIFIED", "NONE"}]

StepNames == (1 .. MaxMissionIds) \X (1 .. MaxSteps)

\* Types: every variable has its type, ids are unique and the lists are no
\* longer than what was created.
TypeOK ==
    /\ \A i \in DOMAIN queue : queue[i] \in TaskTypes
    /\ \A i, j \in DOMAIN queue : queue[i].id = queue[j].id => i = j
    /\ \A i \in DOMAIN missions :
          /\ missions[i].id \in 1 .. MaxMissionIds
          /\ missions[i].status \in MissionStatuses
          /\ \A k \in DOMAIN missions[i].steps : missions[i].steps[k] \in StepTypes
    /\ nextTask \in 1 .. MaxTaskIds + 1
    /\ nextMission \in 1 .. MaxMissionIds + 1
    /\ running \in {None} \cup 1 .. MaxTaskIds
    /\ lastState \in {"ok", "error", "idle"}
    /\ evidence \subseteq StepNames
    /\ run.phase \in {"idle", "direct", "routing", "loop"}
    /\ run.task \in {None} \cup 1 .. MaxTaskIds
    /\ run.stopped \in BOOLEAN
    /\ pending \in 0 .. MaxPending

\* What the scheduler takes for the running task is what the orchestrator
\* runs, so that the task-complete of a direct message, which carries no
\* queue id, never settles a task it does not belong to (onTaskComplete).
AttributionExact ==
    /\ running # None => run.task = running /\ run.phase # "idle"
    /\ run.phase = "idle" => pending = 0

\* "A task is 'running' only while the orchestrator actually runs it": of
\* the tasks in the queue, at most the one whose run goes on says running.
RunningIsReal ==
    \A i \in DOMAIN queue :
        queue[i].status = "running" => run.phase # "idle" /\ run.task = queue[i].id

\* A task that may still run stands behind a step that waits for it, and no
\* two tasks behind one step, through retries, cancels, restarts and crashes
\* between the two files: no step is executed twice, or after it completed.
LiveTasksServeRunningSteps ==
    \A i \in DOMAIN queue :
        LET t == queue[i]
        IN  t.status \in LiveStatuses /\ t.mission # None /\ HasMission(missions, t.mission) =>
              /\ MissionOf(missions, t.mission).steps[t.step].status = "running"
              /\ \A j \in DOMAIN queue :
                    queue[j].status \in LiveStatuses /\ StepOf(queue[j]) = StepOf(t) => i = j

\* The queue tells the truth: what it calls running runs, and what it may still
\* run is wanted by a step, once (task-queue.ts load, missions.ts retry).
QueueIsReal == TypeOK /\ RunningIsReal /\ LiveTasksServeRunningSteps

\* A mission is reported completed only when each of its steps completed:
\* a late settlement, a retry or a pump never closes it over a failed one.
CompletedMeansAllSteps ==
    \A i \in DOMAIN missions :
        missions[i].status = "completed" =>
            StepsIn(missions[i], "completed") = DOMAIN missions[i].steps

\* Evidence is never attributed to a step another run produced it for: what
\* the coordinator learns, and a level a step is stored with, belong to the
\* step whose run is ending (onSpecialistResult, stepVerification).
EvidenceIsOwn ==
    [][/\ evidence' \ evidence \subseteq {run.step}
       /\ missions' # missions => \A i \in DOMAIN missions : \A k \in DOMAIN missions[i].steps :
            LET id == missions[i].id
            IN  /\ HasMission(missions', id)
                /\ MissionOf(missions', id).steps[k].level = "VERIFIED"
                => \/ missions[i].steps[k].level = "VERIFIED"
                   \/ run.step = <<id, k>> /\ <<id, k>> \in evidence']_vars

\* A checkpoint stays: a completed step is never anything else again, in
\* whatever order tasks are retried, cancelled, settled late or reloaded.
CheckpointsStay ==
    [][missions' # missions =>
        \A i \in DOMAIN missions : \A k \in StepsIn(missions[i], "completed") :
          HasMission(missions', missions[i].id) =>
              k \in StepsIn(MissionOf(missions', missions[i].id), "completed")]_vars

\* Progress is neither lost nor invented: the checkpoints of a mission stay, and
\* it is completed only with all of them (settleStep, retry).
ProgressStays == []CompletedMeansAllSteps /\ CheckpointsStay

\* "When that task completes the scheduler records the checkpoint and
\* advances": a running mission with steps left and none in flight starts the
\* next one, unless it is paused, cancelled or removed (onTaskComplete, pump).
MissionsAdvance ==
    \A id \in 1 .. MaxMissionIds :
        LET Waits == /\ HasMission(missions, id)
                     /\ MissionOf(missions, id).status = "running"
                     /\ HasWork(MissionOf(missions, id))
        IN  Waits ~> ~Waits
=============================================================================
