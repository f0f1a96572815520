------------------------------ MODULE AgentLoop ------------------------------
(* One run of the orchestrator from the message to task-complete               *)
(* (orchestrator/index.ts): the direct path, the choice of a model, the loop   *)
(* of model calls and waves of tool calls, the approval gate, the recovery of  *)
(* a failed call, stop and clear-history at any moment, with the specialist    *)
(* ledger it keeps and the two observers of its events, the agency's workers   *)
(* (agency/registry.ts) and the journal's action lines (utils/mission-journal).*)
(*                                                                             *)
(* A step goes to the next control point.  At "idle", "routing", "model",      *)
(* "backoff", "gate" and "tools" the program awaits; the other points have no  *)
(* await before the next one, so nothing else happens there.                   *)
EXTENDS SpecialistLedger, SequencesExt

CONSTANTS
  Answers,       \* bound: the sequences of calls a model may answer with, each
                 \* a record of a tool and its arguments
  Outcomes,      \* by tool, what it may return: "verified", "plain" or an error
  MaxParallel,   \* MAX_PARALLEL_TOOLS, 6
  StepLimits,    \* what the configuration may set maxSteps to
  MaxErrors,     \* MAX_CONSECUTIVE_ERRORS, 3
  MaxRepeats,    \* MAX_REPEATED_ACTIONS, 3
  LegacyRetries, \* min(MAX_RETRIES_PER_STEP, maxRetries - 1)
  MaxAttempts,   \* maxRecoveryAttempts, 2
  MaxWork        \* bound: the step limit and the requests of the user together

Calls == UNION {{a[i] : i \in DOMAIN a} : a \in Answers}
Arguments == {c.arg : c \in Calls}
ASSUME AnswersAssumption == Answers \subseteq Seq([tool : Tools, arg : Arguments])
ASSUME OutcomesAssumption == Outcomes \in [Tools -> SUBSET ({"verified", "plain"} \cup Errors)]
ASSUME LimitsAssumption ==
  /\ StepLimits \subseteq Nat /\ MaxWork \in Nat /\ MaxParallel \in Nat \ {0}
  /\ {MaxErrors, MaxRepeats, LegacyRetries, MaxAttempts} \subseteq Nat

VARIABLES
  run,     \* the control point, and what the orchestrator keeps of the run;
           \* ghosts: no, the runs so far; stopped, a stop was asked of this one; odd,
           \* a stop, a plan B or a clear came between calls and results of the history
  batch,   \* the calls prepared from the last answer, with their states
  todo,    \* the waves of the batch not yet run: sequences of its indexes
  live,    \* the calls in flight, by index: tries so far, objective, outcome
  plan,    \* of the single call in flight: "first" try, "observe" for plan B, "again"
  ledger,  \* the specialist ledger
  told,    \* specialist-result events emitted: objective, verdict
  hist,    \* the conversation history: the calls of the last answer that have no
           \* result behind them yet; whether some calls or results stand alone in it
  grants,  \* remembered approvals: tool, scope, task
  board,   \* by step of the run: the agency's worker and the journal's lines
  given,   \* ghost: the approvals of the user since the last clear
  count    \* ids and bounds: tasks, calls, messages that wait, requests sent,
           \* and maxSteps

agentVars == <<run, batch, todo, live, plan, ledger, told, hist, grants, board, given, count>>

NoHistory == [empty |-> TRUE, open |-> {}, broken |-> FALSE]
Said(h) == [empty |-> FALSE, open |-> {}, broken |-> h.broken \/ h.open # {}]
Asked(h, ids) == [Said(h) EXCEPT !.open = ids]
Replied(h, ids) ==
  IF ids = {} THEN h
  ELSE [empty |-> FALSE, open |-> h.open \ ids, broken |-> h.broken \/ ~(ids \subseteq h.open)]

NoRun == [pc |-> "idle", task |-> NoTask, direct |-> FALSE, steps |-> 0, errs |-> 0,
          last |-> <<>>, repeats |-> 0, abort |-> "no", stop |-> FALSE, replans |-> 0,
          outcome |-> "completed", mark |-> NoHistory, stopped |-> FALSE, no |-> 0, odd |-> FALSE]

AgentInit ==
  /\ run = NoRun /\ batch = <<>> /\ todo = <<>> /\ live = <<>> /\ plan = "first"
  /\ ledger = EmptyLedger /\ told = <<>> /\ hist = NoHistory /\ grants = {} /\ board = <<>>
  /\ given = {}
  /\ \E n \in StepLimits : count = [task |-> 0, call |-> 0, waiting |-> 0, sent |-> 0, maxSteps |-> n]

MaySend == count.sent + count.maxSteps <= MaxWork
MaxSteps == count.maxSteps

Awaits == run.pc \in {"idle", "routing", "model", "backoff", "gate", "tools"}
Serial(tool) == tool \in {"browse", "shell", "wipe"}
NeedsApproval(tool) == tool = "wipe"
Fails(out) == out \in Errors \cup {"refused-late", "refused-budget"}

-----------------------------------------------------------------------------
(* The observers.  A step is on the board from the first event that names it.  *)
OffBoard == [worker |-> "none", line |-> "none", lines |-> 0]
OnBoard(b, id) == IF id \in DOMAIN b THEN b[id] ELSE OffBoard

(* "executing" starts a worker, and the one line of the action.                *)
SeesStart(b, id) ==
  LET r == OnBoard(b, id) IN
  Put(b, id, [worker |-> "running", line |-> "RUNNING",
              lines |-> IF r.line = "none" THEN r.lines + 1 ELSE r.lines])
(* confirmation-required: the journal has a line that no later event patches.  *)
SeesGate(b, id) ==
  LET r == OnBoard(b, id) IN Put(b, id, [r EXCEPT !.worker = "waiting", !.lines = @ + 1])
(* "retrying": the old transient path patches the line, a recovery does not.   *)
SeesRetry(b, id, classed) ==
  LET r == OnBoard(b, id) IN
  Put(b, id, [r EXCEPT !.worker = IF @ = "none" THEN @ ELSE "retrying",
                       !.line = IF classed \/ @ = "none" THEN @ ELSE "RECOVERED"])
\* Mutant: a call that failed leaves its line as it was.
SeesEndWell(b, id, state) ==
  LET r == OnBoard(b, id) IN
  Put(b, id, [worker |-> IF r.worker = "none" THEN "none" ELSE state, lines |-> r.lines,
              line |-> IF r.line = "none" \/ state = "failed" THEN r.line ELSE state])
(* A settled state: the worker that is known, and the line, or a new one.      *)
AtEnd(r, state) == [worker |-> IF r.worker = "none" THEN "none" ELSE state,
                    line |-> IF r.line = "none" THEN "none" ELSE state,
                    lines |-> IF r.line = "none" THEN r.lines + 1 ELSE r.lines]
SeesEnd(b, id, state) == Put(b, id, AtEnd(OnBoard(b, id), state))
(* agent-state idle: cancelUnsettled.                                          *)
Active == {"running", "retrying", "waiting"}
SeesIdle(b) == [id \in DOMAIN b |->
  IF b[id].worker \in Active THEN [b[id] EXCEPT !.worker = "cancelled"] ELSE b[id]]

-----------------------------------------------------------------------------
(* The message.                                                                *)
StartRun(r) == [r EXCEPT !.pc = "start", !.outcome = "completed", !.direct = FALSE,
                         !.stop = FALSE, !.stopped = FALSE, !.no = @ + 1]

(* processMessage: a run, or a place in pendingQueue (its limit is Scheduler's). *)
ProcessMessage ==
  /\ Awaits /\ MaySend
  /\ IF run.pc = "idle" THEN run' = StartRun(run) /\ count' = [count EXCEPT !.sent = @ + 1]
     ELSE UNCHANGED run /\ count' = [count EXCEPT !.sent = @ + 1, !.waiting = @ + 1]
  /\ UNCHANGED <<batch, todo, live, plan, ledger, told, hist, grants, board, given>>

(* The fields a task begins with, on either path.                              *)
Begun(r, pc, direct) ==
  [r EXCEPT !.pc = pc, !.task = count.task + 1, !.direct = direct, !.errs = 0, !.repeats = 0,
            !.last = <<>>, !.abort = "no", !.stop = FALSE, !.replans = 0,
            !.steps = IF direct THEN @ ELSE 0, !.mark = hist]

(* prepareToolCall: the step, and the objective its tool claims.               *)
Prepared(call, id) == [tool |-> call.tool, arg |-> call.arg, id |-> id, state |-> "pending"]

(* runDirectTask, to the gate of its only call.                                *)
BeginDirect(call) ==
  /\ run.pc = "start"
  /\ run' = Begun(run, "open", TRUE)
  /\ count' = [count EXCEPT !.task = @ + 1, !.call = @ + 1]
  /\ batch' = <<Prepared(call, count.call + 1)>>
  /\ todo' = <<<<1>>>> /\ plan' = "first" /\ board' = <<>>
  /\ ledger' = Assign(ledger, run'.task)
  /\ hist' = Asked(Said(hist), {count.call + 1})
  /\ UNCHANGED <<live, told, grants, given>>

(* No direct action, or it failed: the task needs a model.                     *)
BeginRouting ==
  /\ run.pc = "start" /\ run' = [run EXCEPT !.pc = "routing"] /\ board' = <<>>
  /\ UNCHANGED <<batch, todo, live, plan, ledger, told, hist, grants, given, count>>

(* runTask once routeModel has chosen: a new task, and no stop.                *)
BeginLoop ==
  /\ run.pc = "routing"
  /\ run' = Begun(run, "loop", FALSE)
  /\ count' = [count EXCEPT !.task = @ + 1]
  /\ hist' = Said(hist)
  /\ UNCHANGED <<batch, todo, live, plan, ledger, told, grants, board, given>>

-----------------------------------------------------------------------------
(* finishRunTask and the end of processMessage.                                *)
ResultOf(l, task) == {id \in ObjectivesOf(l, task) : Terminal(l.objs[id])}
Told(id) == \E i \in DOMAIN told : told[i].id = id

FinishRunTask(r, l, b, h) ==
  LET settled == SettleTask(l, r.task, r.outcome = "stopped", r.abort = "deadline")
      news    == {id \in ResultOf(settled, r.task) : ~Told(id)}
  IN  /\ ledger' = settled
      /\ told' = told \o SetToSeq({[id |-> id, verdict |-> settled.objs[id].status] : id \in news})
      /\ grants' = {g \in grants : g.scope = "session" \/ r.task = NoTask \/ g.task # r.task}
      /\ hist' = h /\ board' = b
      /\ given' = {g \in given : g.for = <<"all">>}
      /\ run' = IF count.waiting > 0 THEN StartRun(r) ELSE
                  [NoRun EXCEPT !.task = r.task, !.no = r.no, !.odd = r.odd]
      /\ count' = [count EXCEPT !.call = 0, !.waiting = IF @ > 0 THEN @ - 1 ELSE 0]
      /\ batch' = <<>> /\ todo' = <<>> /\ live' = <<>> /\ plan' = "first"

(* No model, or no key for it: the run ends with the task that was there.      *)
RouteBlocked ==
  /\ run.pc = "routing"
  /\ FinishRunTask([run EXCEPT !.outcome = "no-provider"], ledger, board, hist)

-----------------------------------------------------------------------------
(* The loop.                                                                   *)
(* specialistDeadlinePassed looks at the objective that is current.            *)
DeadlinePassed == HasObjective(ledger, ledger.current) /\ ledger.objs[ledger.current].late

(* executeLoop's condition, the deadline, and the request to the model.        *)
MayGoOn == run.steps < MaxSteps /\ ~run.stop /\ run.abort = "no" /\ ~DeadlinePassed
LoopStep ==
  /\ run.pc = "loop"
  /\ IF MayGoOn
     THEN /\ run' = [run EXCEPT !.pc = "model", !.steps = @ + 1]
          /\ UNCHANGED <<batch, todo, live, plan, ledger, told, hist, grants, board, given, count>>
     ELSE FinishRunTask([run EXCEPT !.abort = IF @ = "no" /\ DeadlinePassed THEN "deadline" ELSE @,
                                    !.outcome = "step-limit"], ledger, board, Said(hist))

(* planWaves over the prepared calls.                                          *)
AddToWaves(waves, i, pcs) ==
  IF Serial(pcs[i].tool) THEN Append(waves, <<i>>)
  ELSE IF waves = <<>> \/ Len(Last(waves)) >= MaxParallel \/ Serial(pcs[Last(waves)[1]].tool)
       THEN Append(waves, <<i>>)
       ELSE Front(waves) \o <<Append(Last(waves), i)>>
PlanWaves(pcs) == FoldLeft(LAMBDA w, i : AddToWaves(w, i, pcs), <<>>, [i \in DOMAIN pcs |-> i])

(* An answer with tool calls.  Once stopped, none of them is prepared.         *)
ModelCalls(calls) ==
  LET ids == [i \in DOMAIN calls |-> count.call + i]
      pcs == IF run.stop \/ run.abort # "no" THEN <<>>
             ELSE [i \in DOMAIN calls |-> Prepared(calls[i], ids[i])]
  IN  /\ run.pc = "model"
      /\ run' = [run EXCEPT !.pc = "wave", !.errs = 0]
      /\ hist' = Asked(hist, {ids[i] : i \in DOMAIN ids})
      /\ batch' = pcs /\ todo' = PlanWaves(pcs) /\ plan' = "first"
      /\ ledger' = IF pcs = <<>> THEN ledger ELSE Assign(ledger, run.task)
      /\ count' = [count EXCEPT !.call = @ + Len(calls)]
      /\ UNCHANGED <<live, told, grants, board, given>>

ModelAnswers ==
  /\ run.pc = "model"
  /\ FinishRunTask([run EXCEPT !.errs = 0], ledger, board, Said(hist))

(* A provider's error: another try after a pause, with another model when the  *)
(* network failed; the third in a row, or any other error, ends the run.       *)
ModelFails(transient) ==
  /\ run.pc = "model"
  /\ IF transient /\ run.errs + 1 < MaxErrors
     THEN /\ run' = [run EXCEPT !.pc = "backoff", !.errs = @ + 1]
          /\ UNCHANGED <<batch, todo, live, plan, ledger, told, hist, grants, board, given, count>>
     ELSE FinishRunTask([run EXCEPT !.outcome = "error"], ledger, board, hist)
BackoffEnds ==
  /\ run.pc = "backoff" /\ run' = [run EXCEPT !.pc = "loop"]
  /\ UNCHANGED <<batch, todo, live, plan, ledger, told, hist, grants, board, given, count>>

-----------------------------------------------------------------------------
(* A wave of tool calls.                                                       *)
Wave == Head(todo)
Single == Len(Wave) = 1
Call == batch[Wave[1]]

(* objectiveIdFor, for a step of the run that goes on.                         *)
CurrentIn(l) == IF HasObjective(l, l.current) THEN l.current ELSE NoObjective
ObjectiveId == CurrentIn(ledger)

(* The start of runToolBody for one call: the budget admits it or refuses it.  *)
Body(obj, out) == [tries |-> 0, obj |-> obj, recovering |-> FALSE, out |-> out]
Started(s, i) ==
  LET id  == s.batch[i].id
      obj == CurrentIn(s.ledger)
      b   == SeesStart(s.board, id)
  IN  IF obj # NoObjective /\ ~ActionAllowed(s.ledger, obj)
      THEN LET why == IF s.ledger.objs[obj].actions >= MaxActions
                      THEN "refused-budget" ELSE "refused-late"
           IN  [s EXCEPT !.live = Put(@, i, Body(obj, why)),
                         !.ledger = RecordEvidence(@, obj, why),
                         !.board = SeesEnd(b, id, "skipped")]
      ELSE [s EXCEPT !.batch[i].state = "executing", !.board = b,
                     !.live = Put(@, i, Body(obj, "running")), !.ledger = RecordAction(@, obj)]
StartCalls(wave, b, l, a) ==
  LET s == FoldLeft(Started, [batch |-> b, ledger |-> l, board |-> a, live |-> <<>>], wave)
  IN  /\ batch' = s.batch /\ ledger' = s.ledger /\ board' = s.board /\ live' = s.live
      /\ run' = [run EXCEPT !.pc = IF \E i \in DOMAIN s.live : s.live[i].out = "running"
                                   THEN "tools" ELSE "settle"]

\* Mutant: a wave is started without a look at the stop.
StartParallelAnyway ==
  /\ run.pc = "wave" /\ todo # <<>> /\ ~Single
  /\ StartCalls(Wave, batch, ledger, board)
  /\ UNCHANGED <<todo, plan, told, hist, grants, given, count>>
(* A parallel wave starts all its calls; none of them needs an approval.       *)
StartParallel ==
  /\ run.pc = "wave" /\ todo # <<>> /\ ~Single /\ ~run.stop /\ run.abort = "no"
  /\ StartCalls(Wave, batch, ledger, board)
  /\ UNCHANGED <<todo, plan, told, hist, grants, given, count>>

(* A single call passes the gate first.                                        *)
StartSingle ==
  /\ run.pc = "wave" /\ todo # <<>> /\ Single /\ ~run.stop /\ run.abort = "no"
  /\ run' = [run EXCEPT !.pc = "open"]
  /\ UNCHANGED <<batch, todo, live, plan, ledger, told, hist, grants, board, given, count>>

(* effectiveFor: a task's grant counts while that task is the current one.     *)
Granted(tool) == \E g \in grants : g.tool = tool /\ (g.scope = "session" \/ g.task = run.task)

CheckGate ==
  /\ run.pc = "open"
  /\ IF NeedsApproval(Call.tool) /\ ~Granted(Call.tool)
     THEN /\ run' = [run EXCEPT !.pc = "gate"] /\ board' = SeesGate(board, Call.id)
          /\ UNCHANGED <<batch, live, ledger>>
     ELSE StartCalls(Wave, batch, ledger, board)
  /\ UNCHANGED <<todo, plan, told, hist, grants, given, count>>

\* Mutant: an approval for once is remembered like the others.
RememberedAll(tool, scope) ==
  {g \in grants : g.tool # tool}
  \cup {[tool |-> tool, scope |-> "session", task |-> IF scope = "task" THEN run.task ELSE NoTask]}
(* The user approves, for once, for the task or for the session; a task's      *)
(* approval that comes when no task is current (after clear-history) stays.    *)
Remembered(tool, scope) ==
  IF scope = "once" THEN grants
  ELSE {g \in grants : g.tool # tool}
       \cup {[tool |-> tool, scope |-> scope, task |-> IF scope = "task" THEN run.task ELSE NoTask]}
Approve(scope) ==
  /\ run.pc = "gate" /\ grants' = Remembered(Call.tool, scope)
  /\ given' = given \cup {[tool |-> Call.tool,
                           for |-> IF scope = "once" THEN <<"call", Call.id>>
                                   ELSE IF scope = "task" /\ run.task # NoTask THEN <<"run", run.no>>
                                   ELSE <<"all">>]}
  /\ StartCalls(Wave, batch, ledger, board)
  /\ UNCHANGED <<todo, plan, told, hist, count>>

(* settleDenied, and the end of a direct task that was denied.                 *)
Denied(l, b) ==
  LET h == Replied(hist, {Call.id})
      d == RecordDenied(l, ObjectiveId)
      a == SeesEnd(b, Call.id, "skipped")
  IN  IF run.direct
      THEN FinishRunTask([run EXCEPT !.outcome = "denied"], d, a, Said(h))
      ELSE /\ run' = [run EXCEPT !.pc = "wave"] /\ ledger' = d /\ board' = a /\ hist' = h
           /\ batch' = [batch EXCEPT ![Wave[1]].state = "skipped"] /\ todo' = Tail(todo)
           /\ UNCHANGED <<live, plan, told, grants, given, count>>
DenyOrTimeout == run.pc = "gate" /\ Denied(ledger, board)
Refused == run.pc = "denied" /\ Denied(ledger, board)

(* runToolBody when the tool has returned: the old retries, then the ladder of *)
(* recoveries, which alone looks at a stop and at the budgets.                 *)
RetriedAsBefore(b, out) == ~b.recovering /\ b.tries < LegacyRetries /\ LegacyRetryable(out)
Recovers(tool, b, out) ==
  /\ ~run.stop /\ run.abort = "no"
  /\ Strategy(ClassOf(tool, out), b.tries + 1, MaxAttempts) # "none"
MayRecover(b) == b.obj = NoObjective \/ RecoveryAllowed(ledger, b.obj)

BodyEnds(i, out) ==
  /\ live' = [live EXCEPT ![i].out = out]
  /\ ledger' = RecordEvidence(ledger, live[i].obj,
                 IF Fails(out) THEN "failed" ELSE IF out = "verified" THEN "verified" ELSE "completed")
  /\ run' = IF \E j \in DOMAIN live \ {i} : live[j].out = "running" THEN run
            ELSE [run EXCEPT !.pc = "settle"]

ToolReturns(i, out) ==
  LET b == live[i] IN
  /\ run.pc = "tools" /\ plan # "again" /\ b.out = "running" /\ out \in Outcomes[batch[i].tool]
  /\ IF ~Fails(out) THEN BodyEnds(i, out) /\ UNCHANGED board
     ELSE IF RetriedAsBefore(b, out)
     THEN /\ live' = [live EXCEPT ![i].tries = @ + 1]
          /\ board' = SeesRetry(board, batch[i].id, FALSE) /\ UNCHANGED <<ledger, run>>
     ELSE IF Recovers(batch[i].tool, b, out)
     THEN /\ board' = SeesRetry(board, batch[i].id, TRUE)
          /\ IF MayRecover(b)
             THEN /\ live' = [live EXCEPT ![i].tries = @ + 1, ![i].recovering = TRUE]
                  /\ ledger' = RecordRecovery(ledger, b.obj) /\ UNCHANGED run
             ELSE BodyEnds(i, out)
     ELSE BodyEnds(i, out) /\ UNCHANGED board
  /\ UNCHANGED <<batch, todo, plan, told, hist, grants, given, count>>

-----------------------------------------------------------------------------
(* The end of a wave.                                                          *)
Out(i) == live[i].out

(* runWithDeterministicReplan: a failed single call gets a plan B: an          *)
(* observation, then the call again.                                           *)
Replans == /\ Single /\ plan = "first" /\ Fails(Out(Wave[1])) /\ Out(Wave[1]) \in Errors
           /\ ~run.stop /\ run.abort = "no" /\ run.replans < MaxReplans
           /\ (ObjectiveId = NoObjective \/ ReplanAllowed(ledger, ObjectiveId))
           /\ HasPlanB(Call.tool, ClassOf(Call.tool, Out(Wave[1])))

(* The observation is a call of its own, last in the batch; it was in no       *)
(* answer of the model.                                                        *)
PlanB ==
  LET step == Prepared([tool |-> PlanBTool(Call.tool), arg |-> 0], count.call + 1)
      n    == Len(batch) + 1
      l    == Assign(RecordReplan(ledger, ObjectiveId), run.task)
      s    == Started([batch |-> Append(batch, step), ledger |-> l, live |-> live,
                       board |-> SeesRetry(board, Call.id, TRUE)], n)
  IN  /\ run.pc = "settle" /\ Replans
      /\ plan' = "observe" /\ count' = [count EXCEPT !.call = @ + 1]
      /\ batch' = s.batch /\ ledger' = s.ledger /\ board' = s.board /\ live' = s.live
      /\ run' = [run EXCEPT !.replans = @ + 1, !.odd = TRUE,
                            !.pc = IF s.live[n].out = "running" THEN "tools" ELSE "settle"]
      /\ UNCHANGED <<todo, told, hist, grants, given>>

(* settleResult: the history, the errors in a row, the action repeated.        *)
Settled(s, i) ==
  LET c   == s.batch[i]
      ok  == ~Fails(Out(i))
      rep == IF ~ok THEN 0 ELSE IF s.run.last = <<c.tool, c.arg>> THEN s.run.repeats + 1 ELSE 1
  IN  [batch |-> [s.batch EXCEPT ![i].state = IF ok THEN "completed" ELSE "failed"],
       board |-> SeesEnd(s.board, c.id, IF ok THEN "completed" ELSE "failed"),
       hist  |-> Replied(s.hist, {c.id}),
       run   |-> [s.run EXCEPT !.errs = IF ok THEN 0 ELSE @ + 1, !.repeats = rep,
                    !.last = IF ok THEN <<c.tool, c.arg>> ELSE <<>>,
                    !.abort = IF ok /\ rep >= MaxRepeats THEN "repeats" ELSE @]]
Here == [batch |-> batch, board |-> board, hist |-> hist, run |-> run]

(* The observation of plan B is settled; if it failed, so has the call.        *)
ObserveSettles ==
  LET n == Len(batch)
      s == Settled(Here, n)
  IN  /\ run.pc = "settle" /\ plan = "observe"
      /\ batch' = s.batch /\ hist' = s.hist
      /\ IF Fails(Out(n))
         THEN /\ plan' = "failed" /\ run' = s.run /\ UNCHANGED live
              /\ board' = SeesRetry(s.board, Call.id, TRUE)
         ELSE /\ plan' = "again" /\ run' = [s.run EXCEPT !.pc = "tools"] /\ board' = s.board
              /\ live' = [live EXCEPT ![Wave[1]].out = "running"]
      /\ UNCHANGED <<todo, ledger, told, grants, given, count>>

(* The call again: no budget, no recovery and no evidence of it.               *)
AgainReturns(out) ==
  /\ run.pc = "tools" /\ plan = "again" /\ out \in Outcomes[Call.tool]
  /\ live' = [live EXCEPT ![Wave[1]].out = out]
  /\ run' = [run EXCEPT !.pc = "settle"]
  /\ UNCHANGED <<batch, todo, plan, ledger, told, hist, grants, board, given, count>>

(* The results of a wave, in the order of the calls.                           *)
SettleWave ==
  LET s == FoldLeft(Settled, Here, Wave) IN
  /\ run.pc = "settle" /\ ~run.direct /\ plan # "observe" /\ ~Replans
  /\ batch' = s.batch /\ board' = s.board /\ hist' = s.hist
  /\ run' = [s.run EXCEPT !.pc = "wave"] /\ todo' = Tail(todo) /\ live' = <<>> /\ plan' = "first"
  /\ UNCHANGED <<ledger, told, grants, given, count>>

(* A direct action that failed is rolled back, to the mark or, after a clear,  *)
(* to what is left below it, and a model gets the task.                        *)
SettleDirect ==
  /\ run.pc = "settle" /\ run.direct /\ plan # "observe" /\ ~Replans
  /\ IF Fails(Out(1))
     THEN /\ hist' = (IF run.task # NoTask \/ run.mark.empty THEN run.mark ELSE hist)
          /\ board' = SeesEnd(board, batch[1].id, "failed")
          /\ ledger' = DetachCurrent(ledger)
          /\ run' = [run EXCEPT !.pc = "routing", !.task = NoTask]
          /\ batch' = <<>> /\ todo' = <<>> /\ live' = <<>> /\ plan' = "first"
          /\ UNCHANGED <<told, grants, given, count>>
     ELSE LET s == Settled(Here, 1)
          IN  FinishRunTask([s.run EXCEPT !.outcome = "completed"], ledger, s.board, Said(s.hist))

(* executeToolCallWave after its waves: the calls that never ran are settled   *)
(* as cancelled; then an abort, a stop, or the next model call.                *)
\* Mutant: only the calls that were started get a result.
NeverEnded == {i \in DOMAIN batch : batch[i].state = "executing"}
Never == {i \in DOMAIN batch : batch[i].state \in {"pending", "executing"}}
EndBatch ==
  LET ids == {batch[i].id : i \in Never}
      b   == [id \in DOMAIN board \cup ids |->
                IF id \in ids THEN AtEnd(OnBoard(board, id), "skipped") ELSE board[id]]
      h   == Replied(hist, ids)
  IN  /\ run.pc = "wave" /\ (todo = <<>> \/ run.stop \/ run.abort # "no")
      /\ IF run.abort # "no"
         THEN FinishRunTask([run EXCEPT !.outcome = "stopped"], ledger, b, Said(h))
         ELSE IF run.stop
         THEN FinishRunTask([run EXCEPT !.outcome = "stopped"], ledger, SeesIdle(b), h)
         ELSE /\ run' = [run EXCEPT !.pc = "loop"] /\ hist' = h /\ board' = b /\ batch' = <<>>
              /\ UNCHANGED <<todo, live, plan, ledger, told, grants, given, count>>

-----------------------------------------------------------------------------
(* Requests and the clock.                                                     *)
Stop ==
  /\ Awaits /\ run.pc # "idle" /\ ~run.stop
  /\ run' = [run EXCEPT !.stop = TRUE, !.steps = MaxSteps, !.stopped = TRUE,
                        !.odd = @ \/ run.pc = "model",
                        !.pc = IF @ = "gate" THEN "denied" ELSE @,
                        !.outcome = IF @ = "completed" THEN "stopped" ELSE @]
  /\ board' = SeesIdle(board)
  /\ UNCHANGED <<batch, todo, live, plan, ledger, told, hist, grants, given, count>>

ClearHistory ==
  /\ Awaits /\ count.sent > 0 /\ MaySend
  /\ run' = [run EXCEPT !.task = NoTask, !.steps = 0, !.errs = 0, !.repeats = 0, !.last = <<>>,
                        !.abort = "no", !.odd = run.pc # "idle"]
  /\ given' = {} /\ hist' = NoHistory /\ ledger' = Cleared(ledger) /\ told' = <<>> /\ grants' = {}
  /\ board' = SeesIdle(board)
  /\ count' = [count EXCEPT !.waiting = 0, !.sent = @ + 1]
  /\ UNCHANGED <<batch, todo, live, plan>>

DeadlinePasses ==
  /\ Awaits /\ HasObjective(ledger, ledger.current) /\ ~ledger.objs[ledger.current].late
  /\ ledger' = [ledger EXCEPT !.objs[ledger.current].late = TRUE]
  /\ UNCHANGED <<run, batch, todo, live, plan, told, hist, grants, board, given, count>>

-----------------------------------------------------------------------------
AllOutcomes == UNION {Outcomes[t] : t \in Tools}

RunStep ==
  \/ \E c \in Calls : BeginDirect(c)
  \/ BeginRouting \/ BeginLoop \/ RouteBlocked \/ LoopStep
  \/ \E calls \in Answers : ModelCalls(calls)
  \/ ModelAnswers \/ \E transient \in BOOLEAN : ModelFails(transient)
  \/ BackoffEnds \/ StartParallel \/ StartSingle \/ CheckGate
  \/ DenyOrTimeout \/ Refused
  \/ \E out \in AllOutcomes : AgainReturns(out) \/ \E i \in DOMAIN live : ToolReturns(i, out)
  \/ PlanB \/ ObserveSettles \/ SettleWave \/ SettleDirect \/ EndBatch

AgentNext ==
  \/ RunStep \/ ProcessMessage \/ Stop \/ ClearHistory \/ DeadlinePasses
  \/ \E scope \in {"once", "task", "session"} : Approve(scope)

AgentSpec == AgentInit /\ [][AgentNext]_agentVars

-----------------------------------------------------------------------------
(* Properties.                                                                 *)
Ended == run.pc \in {"idle", "start"}

AgentTypeOK ==
  /\ run.pc \in {"idle", "start", "routing", "loop", "model", "backoff", "wave", "open",
                  "gate", "denied", "tools", "settle"}
  /\ run.steps \in 0 .. MaxSteps /\ run.replans \in 0 .. MaxReplans
  /\ run.abort \in {"no", "repeats", "deadline"}
  /\ \A i \in DOMAIN batch : batch[i].state \in {"pending", "executing", "completed", "failed", "skipped"}
  /\ DOMAIN live \subseteq DOMAIN batch /\ plan \in {"first", "observe", "again", "failed"}
  /\ ledger.current \in 0 .. ledger.made

\* What the agency and the journal show at work is at work: a worker that
\* waits, runs or retries belongs to the call at the gate or to one in flight,
\* and so does a line RUNNING or RECOVERED, through stops, clears, refusals and
\* rollbacks ("never show a stale RUNNING action"; cancelUnsettled).
InFlight == {batch[i].id : i \in DOMAIN live}
ShownIsReal ==
  \A id \in DOMAIN board :
    /\ board[id].worker = "waiting" => run.pc \in {"gate", "denied"} /\ Call.id = id
    /\ board[id].worker \in {"running", "retrying"} \/ board[id].line \in {"RUNNING", "RECOVERED"}
         => id \in InFlight

\* A tool that needs an approval runs under one the user gave since the last
\* clear: for this call, for the session, or for a call of the same run
\* (checkConfirmationGate, PermissionGrants, clearTask).
Covers(g, c) == g.tool = c.tool /\ g.for \in {<<"call", c.id>>, <<"run", run.no>>, <<"all">>}
Starts(i) == batch'[i].state = "executing" /\ (i \notin DOMAIN batch \/ batch[i].state = "pending")
ApprovedOnly ==
  [][\A i \in DOMAIN batch' : Starts(i) /\ NeedsApproval(batch'[i].tool)
       => \E g \in given' : Covers(g, batch'[i])]_agentVars

\* A stop the loop knows of is the end of new work: no call starts after it,
\* in a later wave, behind the gate or as a plan B (stop, executeToolCallWave).
StopEndsWork == [][run.stop /\ run'.stop => \A i \in DOMAIN batch' : ~Starts(i)]_agentVars

\* "stop() is honored at loop boundaries": a run that was asked to stop starts
\* no further call, wherever in the run the stop came.
StopHonoured ==
  [][run.stopped /\ run'.stopped => \A i \in DOMAIN batch' : ~Starts(i)]_agentVars

\* The specialist's result is emitted once, for an objective that is settled,
\* and by the end of the run for the objective of its task; what is VERIFIED
\* had no failed action, or none that is still in the evidence once the oldest
\* of it was dropped (emitSpecialistResult, settle, recordEvidence).
ResultsAreHonest ==
  /\ \A i, j \in DOMAIN told : told[i].id = told[j].id => i = j
  /\ \A i \in DOMAIN told : LET o == ledger.objs[told[i].id] IN
        o.status = told[i].verdict /\ (o.status = "COMPLETED_VERIFIED" => o.failures = 0 \/ o.lost)
  /\ Ended /\ run.task # NoTask => \A id \in ObjectivesOf(ledger, run.task) : Told(id)

\* The budgets of an objective hold when the calls of a wave start or recover
\* side by side (actionAllowed, recoveryAllowed, replanAllowed).
BudgetsHold ==
  \A id \in DOMAIN ledger.objs :
    LET o == ledger.objs[id] IN
    o.actions <= MaxActions /\ o.recoveries <= MaxRecoveries /\ o.replans <= MaxReplans

\* Steps, replans, actions and recoveries stay within their limits, those of a
\* run and those of an objective (runAgentLoop, SpecialistLedger).
LoopIsBounded == AgentTypeOK /\ BudgetsHold

\* Every request carries a history a provider accepts: behind an answer with
\* calls stands the result of each of them, and no result without its call
\* ("so provider replay semantics stay intact").
ReplayIntact == run.pc = "model" => hist.open = {} /\ ~hist.broken

\* ... as long as no stop met a model's answer, no plan B ran and no history
\* was cleared under a run.
ReplayMostlyIntact == run.odd \/ ReplayIntact
=============================================================================
