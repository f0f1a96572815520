----------------------------- MODULE RemoteTask -----------------------------
(***************************************************************************)
(* One Body and its Brain running tasks over connections that drop: the    *)
(* Brain's task session, driver loop and pending actions (brain-runtime.ts,*)
(* brain-drivers.ts, the LLM driver), the Body's task mirror and action    *)
(* handlers (remote-brain.ts), and the two FIFO directions of each         *)
(* connection.                                                             *)
(*                                                                         *)
(* The two ends notice the end of a connection on their own, in any order: *)
(* the Body may be connected again while the Brain still holds the old     *)
(* socket (the new one then replaces it), and frames of the old socket may *)
(* be handled after that.  A connection enters here at the Brain's         *)
(* enterReady; the handshake before it does not touch tasks.               *)
(*                                                                         *)
(* Abstracted: the duplicate guard of the Body (ActionLedger has it; here  *)
(* every action id is requested once), instructions, arguments, outputs    *)
(* and the model's words.  A result is "allowed" for a tool that succeeded *)
(* and "failed" for one that did not, which the Body reports as rejected.  *)
(***************************************************************************)
EXTENDS Naturals, FiniteSets, Sequences, SequencesExt

CONSTANTS
    Tasks,      \* task ids, fresh for every message of the user
    NoTask,
    MaxTurns,   \* LLMTaskDriver.maxSteps
    MaxCalls,   \* bound: tool calls in one model turn
    MaxConns    \* bound: connections ever established

ASSUME BoundsAssumption ==
    MaxTurns \in Nat \ {0} /\ MaxCalls \in Nat \ {0} /\ MaxConns \in Nat \ {0}
ASSUME NoTaskAssumption == NoTask \notin Tasks

VARIABLES
    \* the Body
    task,       \* the mirror the UI shows; "interrupted" is an error by a lost link
    phase,      \* "ready" once the Brain's ready was handled, else "down"
    bodyConn,   \* the Body's open socket, 0 if none
    doing,      \* what the Body does about each action
    used,       \* the ids it has drawn for its tasks
    \* the Brain
    peer,       \* peers.get(bodyId), 0 if none
    open,       \* sockets in readyState OPEN at the Brain
    sockets,    \* sockets whose close event the Brain has not handled
    session,    \* activeTasks.get(bodyId) and where its driver is
    pendingActions,
    outcome,    \* knownTaskIds, with the outcome
    \* the network
    conns,      \* connections established so far
    up,         \* connections that still carry frames
    toBrain,    \* frames of each connection the Brain has not handled
    toBody      \* frames of bodyConn the Body has not handled

bodyVars == <<task, phase, bodyConn, doing, used>>
brainVars == <<peer, open, sockets, session, pendingActions, outcome>>
netVars == <<conns, up, toBrain, toBody>>
vars == <<bodyVars, brainVars, netVars>>

Conns == 1..MaxConns
Actions == [task : Tasks, n : 1..(MaxTurns * MaxCalls)]
Outcomes == {"completed", "failed", "cancelled"}
NoSession == [at |-> "none"]
Sessions ==
    {NoSession} \cup
    [at : {"chat", "await"}, task : Tasks,
     turn : 1..MaxTurns, left : 0..(MaxCalls - 1), n : 0..(MaxTurns * MaxCalls)]

Active == task # NoTask /\ task.state = "active"

Init ==
    /\ task = NoTask /\ phase = "down" /\ bodyConn = 0 /\ used = {}
    /\ doing = [a \in Actions |-> "none"]
    /\ peer = 0 /\ open = {} /\ sockets = {}
    /\ session = NoSession /\ pendingActions = {}
    /\ outcome = [t \in Tasks |-> "none"]
    /\ conns = 0 /\ up = {} /\ toBody = << >>
    /\ toBrain = [g \in Conns |-> << >>]

-----------------------------------------------------------------------------
(* Sending *)

\* The Brain sends to the Body's current peer if its socket is open.
Tell(frames) ==
    toBody' = IF peer \in open \cap up /\ peer = bodyConn
              THEN toBody \o frames ELSE toBody

\* The Body's socket accepts a frame whether or not the network still works.
Report(frames) ==
    toBrain' = IF bodyConn \in up
               THEN [toBrain EXCEPT ![bodyConn] = @ \o frames] ELSE toBrain

Frame(type, t) == [type |-> type, task |-> t]
ActionFrame(a) == [type |-> "task_action", act |-> a]
ResultFrame(a, o) == [type |-> "action_result", act |-> a, outcome |-> o]

-----------------------------------------------------------------------------
(* The driver: each of these is how one step of the Brain ends *)

\* runDriver after the driver returned.
Finish(o) ==
    /\ session' = NoSession
    /\ outcome' = [outcome EXCEPT ![session.task] = o]
    /\ Tell(<<Frame(IF o = "completed" THEN "task_complete" ELSE "task_failed",
                    session.task)>>)

\* requestActionFor; without a connection it rejects, which ends the task.
\* rest is what stays pending besides the new action.
Request(s, rest) ==
    IF peer \in open
    THEN LET a == [task |-> s.task, n |-> s.n] IN
           /\ pendingActions' = rest \cup {a}
           /\ session' = [s EXCEPT !.at = "await"]
           /\ Tell(<<ActionFrame(a)>>)
           /\ UNCHANGED outcome
    ELSE Finish("failed") /\ pendingActions' = rest

\* The next turn of the loop, or its end.
NextTurn ==
    IF session.turn = MaxTurns
    THEN Finish("completed")
    ELSE /\ session' = [session EXCEPT !.at = "chat", !.turn = @ + 1]
         /\ Tell(<<Frame("task_update", session.task)>>)
         /\ UNCHANGED outcome

NextCall == [session EXCEPT !.left = @ - 1, !.n = @ + 1]

\* Mutant: an action that timed out is skipped instead of ending the task.
AfterResultSkipping(result, rest) ==
    IF result \in {"allowed", "timeout"} /\ session.left > 0
    THEN Request(NextCall, rest)
    ELSE /\ pendingActions' = rest
         /\ CASE result \in {"allowed", "timeout"} -> NextTurn
              [] result = "denied" -> Finish("completed")
              [] result \in {"rejected", "failed"} -> Finish("failed")

\* The driver's await of an action returned.
AfterResult(result, rest) ==
    IF result = "allowed" /\ session.left > 0
    THEN Request(NextCall, rest)
    ELSE /\ pendingActions' = rest
         /\ CASE result = "allowed" -> NextTurn
              [] result = "denied" -> Finish("completed")
              [] result \in {"rejected", "failed", "timeout"} -> Finish("failed")

OfTask(t) == {a \in pendingActions : a.task = t}
Awaited == [task |-> session.task, n |-> session.n]

\* provider.chat returned: tool calls, the final answer, or a failure.
ChatReturns ==
    /\ session.at = "chat"
    /\ \/ \E k \in 1..MaxCalls :
            Request([session EXCEPT !.left = k - 1, !.n = @ + 1], pendingActions)
       \/ \E o \in {"completed", "failed"} : Finish(o) /\ UNCHANGED pendingActions
    /\ UNCHANGED <<bodyVars, peer, open, sockets, conns, up, toBrain>>

\* Mutant: the wait is only bounded while the Body is away.
ActionTimeoutOffline ==
    /\ session.at = "await" /\ peer = 0
    /\ AfterResult("timeout", pendingActions)
    /\ UNCHANGED <<bodyVars, peer, open, sockets, conns, up, toBrain>>

\* withActionTimeout: the entry of the abandoned action stays.
ActionTimeout ==
    /\ session.at = "await"
    /\ AfterResult("timeout", pendingActions)
    /\ UNCHANGED <<bodyVars, peer, open, sockets, conns, up, toBrain>>

-----------------------------------------------------------------------------
(* The Brain's frames, of the live socket and of replaced ones *)

\* Mutant: a task is started beside a running one.
TaskStartBeside(t) ==
    /\ session' = [at |-> "chat", task |-> t,
                   turn |-> 1, left |-> 0, n |-> 0]
    /\ Tell(<<Frame("task_update", t)>>)
    /\ UNCHANGED outcome

\* handleTaskStart, and the driver up to its first model call.
TaskStart(t) ==
    IF session # NoSession \/ outcome[t] # "none"
    THEN Tell(<<Frame("error", t)>>) /\ UNCHANGED <<session, outcome>>
    ELSE \/ /\ session' = [at |-> "chat", task |-> t,
                           turn |-> 1, left |-> 0, n |-> 0]
            /\ Tell(<<Frame("task_update", t)>>)
            /\ UNCHANGED outcome
         \/ /\ outcome' = [outcome EXCEPT ![t] = "failed"]  \* no provider, model or key
            /\ Tell(<<Frame("task_failed", t)>>)
            /\ UNCHANGED session

\* handleTaskCancel: every pending action is rejected and the driver wakes,
\* from its await or, by the cancel hook, from its model call.
TaskCancel(t) ==
    CASE session = NoSession ->
           UNCHANGED <<session, outcome, pendingActions, toBody>>
      [] session # NoSession /\ t # session.task ->
           Tell(<<Frame("error", t)>>) /\ UNCHANGED <<session, outcome, pendingActions>>
      [] session # NoSession /\ t = session.task ->
           /\ session' = NoSession
           /\ outcome' = [outcome EXCEPT ![t] = "cancelled"]
           /\ pendingActions' = pendingActions \ OfTask(t)
           /\ Tell(<<Frame("task_update", t), Frame("task_failed", t)>>)

\* handleActionResult: a result nobody waits for is ignored.
ActionResult(a, o) ==
    IF session.at = "await" /\ a = Awaited /\ a \in pendingActions
    THEN AfterResult(o, pendingActions \ {a})
    ELSE pendingActions' = pendingActions \ {a} /\ UNCHANGED <<session, outcome, toBody>>

BrainReceives(g) ==
    /\ g \in sockets /\ toBrain[g] # << >>
    /\ LET f == Head(toBrain[g]) IN
         CASE f.type = "task_start" ->
                TaskStart(f.task) /\ UNCHANGED pendingActions
           [] f.type = "task_cancel" -> TaskCancel(f.task)
           [] f.type = "action_result" ->
                ActionResult(f.act, f.outcome)
    /\ toBrain' = [toBrain EXCEPT ![g] = Tail(@)]
    /\ UNCHANGED <<bodyVars, peer, open, sockets, conns, up>>

\* What handleDisconnect does to the task of the Body that is gone: the awaited
\* action is rejected and ends the task; a driver in its model call goes on.
Interrupt ==
    CASE session = NoSession ->
           UNCHANGED <<session, outcome, pendingActions>>
      [] session.at = "await" ->
           /\ session' = NoSession
           /\ outcome' = [outcome EXCEPT ![session.task] = "failed"]
           /\ pendingActions' = pendingActions \ OfTask(session.task)
      [] session.at = "chat" ->
           /\ pendingActions' = pendingActions \ OfTask(session.task)
           /\ UNCHANGED <<session, outcome>>

\* Mutant: a replaced socket's end is taken for the Body's.
HandleDisconnectStale(g) ==
    peer' = 0 /\ UNCHANGED <<session, outcome, pendingActions>>

\* handleDisconnect: a replaced or already abandoned socket changes nothing.
HandleDisconnect(g) ==
    IF peer = g THEN peer' = 0 /\ Interrupt
                ELSE UNCHANGED <<peer, session, outcome, pendingActions>>

\* The close event of a socket: nothing more is read from it.
BrainSeesClose(g) ==
    /\ g \in sockets \ up
    /\ sockets' = sockets \ {g} /\ open' = open \ {g}
    /\ toBrain' = [toBrain EXCEPT ![g] = << >>]
    /\ HandleDisconnect(g)
    /\ UNCHANGED <<bodyVars, conns, up, toBody>>

\* 45 s without a frame: the socket is closed from this side, and frames that
\* were only delayed are still handled until its close event.
HeartbeatTimeout ==
    /\ peer \in open \ up
    /\ open' = open \ {peer}
    /\ HandleDisconnect(peer)
    /\ UNCHANGED <<bodyVars, sockets, netVars>>

\* The Brain's process dies and starts again: all of this was in memory.  What
\* it would have said of a running task is never said.
BrainRestart ==
    /\ peer' = 0 /\ open' = {} /\ sockets' = {} /\ up' = {}
    /\ toBrain' = [g \in Conns |-> << >>]
    /\ session' = NoSession /\ pendingActions' = {}
    /\ outcome' = IF session = NoSession THEN outcome
                  ELSE [outcome EXCEPT ![session.task] = "failed"]
    /\ UNCHANGED <<bodyVars, conns, toBody>>

-----------------------------------------------------------------------------
(* Connections *)

\* enterReady: the new socket replaces a previous one, which is closed.
Connect ==
    /\ bodyConn = 0 /\ conns < MaxConns
    /\ conns' = conns + 1
    /\ bodyConn' = conns' /\ peer' = conns'
    /\ up' = up \cup {conns'}
    /\ sockets' = sockets \cup {conns'}
    /\ open' = (open \ {peer}) \cup {conns'}
    /\ toBody' = <<[type |-> "ready"]>>
    /\ UNCHANGED <<task, phase, doing, used, session, pendingActions, outcome, toBrain>>

\* The network fails.  Frames under way are lost from some point on: each end
\* handles what reached it until it sees the close, which drops the rest.
LinkFails ==
    /\ bodyConn \in up
    /\ up' = up \ {bodyConn}
    /\ UNCHANGED <<bodyVars, brainVars, conns, toBrain, toBody>>

\* onLinkClosed
BodySeesClose ==
    /\ bodyConn # 0 /\ bodyConn \notin up
    /\ bodyConn' = 0 /\ phase' = "down" /\ toBody' = << >>
    /\ IF phase = "ready" /\ Active
       THEN task' = [task EXCEPT !.state = "interrupted"]
       ELSE UNCHANGED task
    /\ UNCHANGED <<doing, used, brainVars, conns, up, toBrain>>

-----------------------------------------------------------------------------
(* The Body's frames and actions *)

\* runTool marks the mirror of its task as executing, whatever it showed.
Execute(a) ==
    /\ doing' = [doing EXCEPT ![a] = "running"]
    /\ task' = IF task # NoTask /\ task.id = a.task
               THEN [task EXCEPT !.state = "active"] ELSE task

\* Mutant: a failure message of the Brain is shown like its completion.
MirrorOptimistic(t, state) ==
    task' = IF task # NoTask /\ task.id = t
            THEN [task EXCEPT !.state = IF state = "error" THEN "completed" ELSE state]
            ELSE task

Mirror(t, state) ==
    task' = IF task # NoTask /\ task.id = t THEN [task EXCEPT !.state = state] ELSE task

\* onLinkMessage before and after ready, handleReadyMessage.
BodyReceives ==
    /\ toBody # << >>
    /\ LET f == Head(toBody) IN
         CASE f.type = "ready" ->
                phase' = "ready" /\ UNCHANGED <<task, doing, toBrain>>
           [] f.type = "task_update" ->
                Mirror(f.task, "active") /\ UNCHANGED <<phase, doing, toBrain>>
           [] f.type = "task_complete" ->
                Mirror(f.task, "completed") /\ UNCHANGED <<phase, doing, toBrain>>
           [] f.type = "task_failed" ->
                Mirror(f.task, "error") /\ UNCHANGED <<phase, doing, toBrain>>
           [] f.type = "error" ->   \* handleBrainError only tells the user
                UNCHANGED <<task, phase, doing, toBrain>>
           [] f.type = "task_action" ->
                /\ UNCHANGED phase
                /\ \/ Execute(f.act) /\ UNCHANGED toBrain
                   \/ /\ doing' = [doing EXCEPT ![f.act] = "prompt"]
                      /\ UNCHANGED <<task, toBrain>>
                   \/ /\ doing' = [doing EXCEPT ![f.act] = "done"]   \* unsupported here
                      /\ Report(<<ResultFrame(f.act, "rejected")>>)
                      /\ UNCHANGED task
    /\ toBody' = Tail(toBody)
    /\ UNCHANGED <<bodyConn, used, brainVars, conns, up>>

Approve(a) ==
    /\ doing[a] = "prompt"
    /\ Execute(a)
    /\ UNCHANGED <<phase, bodyConn, used, brainVars, netVars>>

\* The user's denial or the prompt's timeout.
Deny(a) ==
    /\ doing[a] = "prompt"
    /\ doing' = [doing EXCEPT ![a] = "done"]
    /\ Report(<<ResultFrame(a, "denied")>>)
    /\ UNCHANGED <<task, phase, bodyConn, used, brainVars, conns, up, toBody>>

ToolReturns(a) ==
    /\ doing[a] = "running"
    /\ doing' = [doing EXCEPT ![a] = "done"]
    /\ \E o \in {"allowed", "failed"} : Report(<<ResultFrame(a, o)>>)
    /\ UNCHANGED <<task, phase, bodyConn, used, brainVars, conns, up, toBody>>

-----------------------------------------------------------------------------
(* The user *)

\* sendUserMessage
SendMessage(t) ==
    /\ phase = "ready"
    /\ ~Active
    /\ t \notin used
    /\ used' = used \cup {t}
    /\ task' = [id |-> t, state |-> "active"]
    /\ Report(<<Frame("task_start", t)>>)
    /\ UNCHANGED <<phase, bodyConn, doing, brainVars, conns, up, toBody>>

\* stopTask with a live link.  Bound: one stop at a time, the next when the
\* Brain's answer to the last was handled.
StopTask ==
    /\ phase = "ready" /\ task # NoTask
    /\ \A i \in DOMAIN toBrain[bodyConn] : toBrain[bodyConn][i].type # "task_cancel"
    /\ \A i \in DOMAIN toBody : toBody[i].type # "error"
    /\ Report(<<Frame("task_cancel", task.id)>>)
    /\ UNCHANGED <<bodyVars, brainVars, conns, up, toBody>>

\* clearTask: the mirror is dropped and every prompt denied.
ClearTask(down) ==
    LET prompts == {a \in Actions : doing[a] = "prompt"}
    IN  /\ task' = NoTask
        /\ doing' = [a \in Actions |-> IF a \in prompts THEN "done" ELSE doing[a]]
        /\ IF down THEN UNCHANGED toBrain
                   ELSE LET s == SetToSeq(prompts) IN
                        Report([i \in DOMAIN s |-> ResultFrame(s[i], "denied")])

\* clearHistory, and stopTask without a live link.
ClearHistory ==
    /\ ClearTask(bodyConn = 0)
    /\ UNCHANGED <<phase, bodyConn, used, brainVars, conns, up, toBody>>

\* disconnect: what was sent still arrives, the denials find no socket.
Disconnect ==
    /\ bodyConn # 0
    /\ bodyConn' = 0 /\ phase' = "down" /\ toBody' = << >>
    /\ up' = up \ {bodyConn}
    /\ ClearTask(TRUE)
    /\ UNCHANGED <<used, brainVars, conns>>

User == (\E t \in Tasks : SendMessage(t)) \/ StopTask \/ ClearHistory \/ Disconnect

Next ==
    \/ ChatReturns \/ ActionTimeout
    \/ \E g \in Conns : BrainReceives(g) \/ BrainSeesClose(g)
    \/ HeartbeatTimeout \/ BrainRestart \/ Connect \/ LinkFails \/ BodySeesClose \/ BodyReceives
    \/ \E a \in Actions : Approve(a) \/ Deny(a) \/ ToolReturns(a)
    \/ User

Spec == Init /\ [][Next]_vars

\* Frames are handled, a closed socket is noticed (heartbeat at the latest),
\* the model and the tools return, both 120 s timers fire.  Nothing is asked
\* of the user or of the network.
Fairness ==
    /\ WF_vars(ChatReturns) /\ WF_vars(ActionTimeout)
    /\ \A g \in Conns : WF_vars(BrainReceives(g)) /\ WF_vars(BrainSeesClose(g))
    /\ WF_vars(BodySeesClose) /\ WF_vars(BodyReceives)
    /\ \A a \in Actions : WF_vars(Deny(a)) /\ WF_vars(ToolReturns(a))

FairSpec == Spec /\ Fairness
-----------------------------------------------------------------------------
(* Properties *)

TypeOK ==
    /\ task = NoTask \/ task \in [id : Tasks, state : {"active", "completed", "error", "interrupted"}]
    /\ phase \in {"ready", "down"}
    /\ bodyConn \in 0..MaxConns /\ peer \in 0..MaxConns /\ conns \in 0..MaxConns
    /\ doing \in [Actions -> {"none", "prompt", "running", "done"}]
    /\ used \subseteq Tasks
    /\ open \subseteq sockets /\ sockets \subseteq Conns /\ up \subseteq Conns
    /\ session \in Sessions
    /\ pendingActions \subseteq Actions
    /\ outcome \in [Tasks -> Outcomes \cup {"none"}]

\* "Never fake completion" (onLinkClosed): the Body shows a task completed only
\* if the Brain completed it, through any drop, replacement or late frame.
NeverFakeCompletion ==
    task # NoTask /\ task.state = "completed" => outcome[task.id] = "completed"

\* "Execute serially: Body-side policy + confirmation gates must not overlap"
\* (LLMTaskDriver.run): of one task, at most one action is under way on the
\* Body or on the wire, whatever timed out, was cancelled or reconnected.
UnderWay(a) ==
    \/ doing[a] \in {"prompt", "running"}
    \/ \E i \in DOMAIN toBody : toBody[i] = ActionFrame(a)
SerialPerTask ==
    \A a, b \in Actions : a.task = b.task /\ UnderWay(a) /\ UnderWay(b) => a = b

\* A task the Brain calls completed has left nothing waiting or running on the
\* Body.  (A failed or cancelled one may have: the Body is not asked to abort.)
CompletedLeavesNothing ==
    \A a \in Actions : outcome[a.task] = "completed" => ~UnderWay(a)

\* Both: the driver's loop never has two actions on the Body, nor one left over
\* when it calls its task completed (LLMTaskDriver.run).
OneStepAtATime == SerialPerTask /\ CompletedLeavesNothing

\* The driver can always be woken: what it awaits is in pendingActions, so a
\* result, a cancel or a disconnect finds it.
AwaitedIsPending == session.at = "await" => Awaited \in pendingActions

\* The Brain's bookkeeping of sockets: the peer is never a replaced socket, and
\* a Body with a working connection that the Brain accepted is never offline.
PeerIsCurrent == bodyConn \in up => peer = bodyConn

\* The books of both ends agree through drops, replacements and restarts: what is
\* waited for can arrive, over a connection that is the current one.
StaysReachable == TypeOK /\ AwaitedIsPending /\ PeerIsCurrent

\* Every task the Brain accepted gets an outcome, connected or not.
TasksEnd == session # NoSession ~> session = NoSession

\* The abstract promise, by this mapping.
status == [t \in Tasks |->
             IF outcome[t] # "none" THEN outcome[t]
             ELSE IF session # NoSession /\ session.task = t THEN "running" ELSE "new"]
Promise == INSTANCE TaskPromise WITH shown <- task
KeepsPromise == Promise!Spec

\* "Tool failed - let the model diagnose and adapt next iteration"
\* (LLMTaskDriver.run): the result of a tool that failed does not end its task.
FailureIsAdapted ==
    [][\A g \in sockets :
         (/\ session.at = "await" /\ toBrain[g] # << >> /\ UNCHANGED sockets
          /\ Head(toBrain[g]) = ResultFrame(Awaited, "failed")
          /\ toBrain'[g] = Tail(toBrain[g]))
           => outcome'[session.task] # "failed"]_vars
=============================================================================
