---------------------------- MODULE ClientSession ----------------------------
(* The page and the server over one WebSocket: useWebSocket.ts, the store, the   *)
(* composer of ChatPanel.tsx and the confirmation dialog on one side, the        *)
(* connection handler of index.ts and what the agent broadcasts on the other.    *)
(* A closed socket loses what is in flight, the page connects anew, and the      *)
(* server sends snapshots; a prompt of the agent is not one of them.             *)
EXTENDS Naturals, Sequences

CONSTANTS MaxPrompts,  \* bound: prompts the agent raises
          MaxDrops,    \* bound: lost connections
          MaxSent,     \* bound: messages the user sends
          MaxWire      \* bound: frames in flight towards the page

VARIABLES
  csOpen,    \* whether the socket is open
  csUp,      \* frames in flight to the server
  csDown,    \* frames in flight to the page
  csAgent,   \* the server: state, todo (messages not yet run), prompt, asked, queue
  csPage,    \* the store: state, prompt, task, queue
  csYes,     \* prompts the user approved on the screen
  csRan,     \* prompts whose action the agent ran
  csSent,    \* messages the user sent so far
  csDrops    \* connections lost so far

csVars == <<csOpen, csUp, csDown, csAgent, csPage, csYes, csRan, csSent, csDrops>>
csUser == <<csYes, csSent>>

Resting == {"idle", "completed", "error"}
SessionInit ==
  /\ csOpen = FALSE /\ csUp = <<>> /\ csDown = <<>> /\ csSent = 0 /\ csDrops = 0
  /\ csAgent = [state |-> "idle", todo |-> 0, prompt |-> 0, asked |-> 0, queue |-> 0]
  /\ csPage = [state |-> "idle", prompt |-> 0, task |-> FALSE, queue |-> 0]
  /\ csYes = {} /\ csRan = {}

Frame(event, x) == [event |-> event, x |-> x]
(* broadcast reaches open sockets only.                                           *)
Broadcast(frames) == csDown' = IF csOpen THEN csDown \o frames ELSE csDown
(* send says nothing when the socket is not open.                                 *)
Send(type, x, ok) ==
  csUp' = IF csOpen THEN Append(csUp, [type |-> type, x |-> x, ok |-> ok]) ELSE csUp

(* ----- The socket ----------------------------------------------------------------- *)
Snapshots == <<Frame("queue-updated", csAgent.queue), Frame("connected", csAgent.state)>>
SocketConnects ==
  /\ ~csOpen /\ csOpen' = TRUE /\ csUp' = <<>> /\ csDown' = Snapshots
  /\ UNCHANGED <<csAgent, csPage, csYes, csRan, csSent, csDrops>>
(* onclose: the frames in flight are lost, the timer will connect anew.           *)
Drop ==
  /\ csOpen /\ csDrops < MaxDrops /\ csDrops' = csDrops + 1
  /\ csOpen' = FALSE /\ csUp' = <<>> /\ csDown' = <<>>
  /\ UNCHANGED <<csAgent, csPage, csYes, csRan, csSent>>

(* ----- onmessage ------------------------------------------------------------------ *)
Receives(event) ==
  /\ csDown # <<>> /\ Head(csDown).event = event /\ csDown' = Tail(csDown)
  /\ UNCHANGED <<csOpen, csUp, csAgent, csYes, csRan, csSent, csDrops>>
(* "A fresh server session has no active task"; the prompt stays as it is.        *)
ReceiveConnected ==
  Receives("connected") /\ csPage' = [csPage EXCEPT !.state = Head(csDown).x, !.task = FALSE]
ReceiveState ==
  /\ Receives("agent-state")
  /\ csPage' = [csPage EXCEPT !.state = Head(csDown).x,
                              !.prompt = IF Head(csDown).x \in Resting THEN 0 ELSE @]
ReceivePrompt ==
  Receives("confirmation-required") /\ csPage' = [csPage EXCEPT !.prompt = Head(csDown).x]
ReceiveTask == Receives("task-progress") /\ csPage' = [csPage EXCEPT !.task = TRUE]
ReceiveSnapshot ==
  Receives("queue-updated") /\ csPage' = [csPage EXCEPT !.queue = Head(csDown).x]

(* ----- The user ------------------------------------------------------------------- *)
(* handleSend: only while the page shows the agent at rest.                       *)
SendMessage ==
  /\ csPage.state \in Resting /\ csSent < MaxSent /\ csSent' = csSent + 1
  /\ Send("user-message", 0, FALSE) /\ UNCHANGED <<csOpen, csDown, csAgent, csPage, csYes, csRan, csDrops>>
(* respondToConfirmation: the dialog closes, sent or not.                         *)
AnswerPrompt(approved) ==
  /\ csPage.prompt # 0 /\ csPage' = [csPage EXCEPT !.prompt = 0]
  /\ csYes' = IF approved THEN csYes \cup {csPage.prompt} ELSE csYes
  /\ Send("confirmation-response", csPage.prompt, approved)
  /\ UNCHANGED <<csOpen, csDown, csAgent, csRan, csSent, csDrops>>
PressStop ==
  /\ csPage.state \notin Resting /\ csSent < MaxSent /\ csSent' = csSent + 1 /\ Send("stop", 0, FALSE)
  /\ UNCHANGED <<csOpen, csDown, csAgent, csPage, csYes, csRan, csDrops>>

(* ----- The server ----------------------------------------------------------------- *)
AgentBecomes(agent, frames) == csAgent' = agent /\ Broadcast(frames) /\ Len(csDown) < MaxWire
StateFrame(state) == Frame("agent-state", state)
Reads(type) ==
  /\ csUp # <<>> /\ Head(csUp).type = type /\ csUp' = Tail(csUp)
  /\ UNCHANGED <<csOpen, csPage, csUser, csDrops>>
ReadMessage ==
  /\ Reads("user-message") /\ UNCHANGED csRan
  /\ AgentBecomes([csAgent EXCEPT !.todo = @ + 1, !.queue = @ + 1], <<Frame("queue-updated", csAgent.queue + 1)>>)
\* Mutant: an answer settles whatever prompt is open.
SettlesAny(m) == csAgent.prompt # 0
(* A prompt that is no longer open takes no answer.                               *)
SettlesPrompt(m) == csAgent.prompt # 0 /\ csAgent.prompt = m.x
ReadAnswer ==
  LET m == Head(csUp) IN
  /\ Reads("confirmation-response")
  /\ IF SettlesPrompt(m)
     THEN /\ AgentBecomes([csAgent EXCEPT !.prompt = 0, !.state = "executing"], <<StateFrame("executing")>>)
          /\ csRan' = IF m.ok THEN csRan \cup {csAgent.prompt} ELSE csRan
     ELSE UNCHANGED <<csAgent, csDown, csRan>>
(* stop denies the open prompt and broadcasts idle; the run ends with it.         *)
ReadStop ==
  /\ Reads("stop") /\ UNCHANGED csRan
  /\ AgentBecomes([csAgent EXCEPT !.prompt = 0, !.state = "idle"],
             (IF csAgent.prompt = 0 THEN <<>> ELSE <<StateFrame("executing")>>) \o <<StateFrame("idle")>>)

AgentWorks == UNCHANGED <<csOpen, csUp, csPage, csYes, csRan, csSent, csDrops>>
AgentBegins ==
  /\ csAgent.state \in Resting /\ csAgent.todo > 0 /\ AgentWorks
  /\ AgentBecomes([csAgent EXCEPT !.todo = @ - 1, !.state = "executing"],
             <<StateFrame("executing"), Frame("task-progress", 0)>>)
AgentAsks ==
  /\ csAgent.state = "executing" /\ csAgent.asked < MaxPrompts /\ AgentWorks
  /\ LET id == csAgent.asked + 1 IN
     AgentBecomes([csAgent EXCEPT !.prompt = id, !.asked = id, !.state = "requires-confirmation"],
             <<Frame("confirmation-required", id), StateFrame("requires-confirmation")>>)
(* CONFIRMATION_TIMEOUT_MS: denied.                                               *)
PromptTimesOut ==
  /\ csAgent.prompt # 0 /\ AgentWorks
  /\ AgentBecomes([csAgent EXCEPT !.prompt = 0, !.state = "executing"], <<StateFrame("executing")>>)
AgentIsDone(state) ==
  csAgent.state = "executing" /\ AgentWorks /\ AgentBecomes([csAgent EXCEPT !.state = state], <<StateFrame(state)>>)

SessionNext ==
  \/ SocketConnects \/ Drop
  \/ ReceiveConnected \/ ReceiveState \/ ReceivePrompt \/ ReceiveTask \/ ReceiveSnapshot
  \/ SendMessage \/ PressStop \/ \E approved \in BOOLEAN : AnswerPrompt(approved)
  \/ ReadMessage \/ ReadAnswer \/ ReadStop
  \/ AgentBegins \/ AgentAsks \/ PromptTimesOut \/ \E state \in {"completed", "error"} : AgentIsDone(state)

SessionSpec == SessionInit /\ [][SessionNext]_csVars
-----------------------------------------------------------------------------
NothingUnderWay == csOpen /\ csDown = <<>>

\* Once nothing is in flight the page shows the server's state and queue, however
\* often the connection was lost.
PageConverges == NothingUnderWay => csPage.state = csAgent.state /\ csPage.queue = csAgent.queue

\* "BLAXIN never silently executes operations the user must approve": an action
\* ran only if the user said yes to its own prompt, however late the answer came.
RanWasApproved == csRan \subseteq csYes

\* On one connection the end of a run takes its prompt off the screen.
EndTakesThePrompt == NothingUnderWay /\ csDrops = 0 /\ csAgent.state \in Resting => csPage.prompt = 0

\* The page and the agent agree when all is quiet, and what ran meanwhile was
\* approved (useWebSocket.ts, index.ts).
PageIsTrue == PageConverges /\ RanWasApproved /\ EndTakesThePrompt
=============================================================================
