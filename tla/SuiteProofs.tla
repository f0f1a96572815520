----------------------------- MODULE SuiteProofs -----------------------------
(* Components of MCSuite proved for every value of their constants, one after  *)
(* the other: the voice button (VoiceInput), the page's session with the       *)
(* server (ClientSession), batches of file operations (BulkFiles), cloud       *)
(* deployments (Deployment), the page's mirror of the registry (RegistryFeed), *)
(* what the saved files keep (SavedState), the desktop shell (DesktopShell)    *)
(* and the Body's ledger of actions (ActionLedger).                            *)
EXTENDS MCSuite, WellFoundedInduction, FiniteSetTheorems, SequenceTheorems, TLAPS

-----------------------------------------------------------------------------
(* The voice button *)

\* What each step needs to know.
VoiceInv == voTimers \in Nat /\ VoiceIsReal

\* Whatever order the browser's result, error, stop and end arrive in, the page
\* shows a live microphone only while the recognition runs, and UNDERSTANDING
\* only with a timer that ends it (useVoice.ts).
THEOREM VoiceAlwaysReal == VoiceSpec => []VoiceIsReal
<1>1. VoiceInit => VoiceInv
  BY DEF VoiceInit, VoiceInv, VoiceIsReal, MicShownIsReal, UnderstandingPasses
<1>2. VoiceInv /\ [VoiceNext]_voVars => VoiceInv'
  <2> SUFFICES ASSUME VoiceInv, [VoiceNext]_voVars PROVE VoiceInv'
    OBVIOUS
  <2> USE DEF VoiceInv, VoiceIsReal, MicShownIsReal, UnderstandingPasses, voAgent
  <2>1. CASE StartListening \/ StopListening
    BY <2>1 DEF StartListening, StopListening
  <2>2. CASE Interim \/ FinalEmpty \/ FinalSent \/ FinalDrafted
    BY <2>2 DEF Interim, FinalEmpty, FinalSent, FinalDrafted, Hears
  <2>3. CASE UnderstandingEnds
    BY <2>3 DEF UnderstandingEnds
  <2>4. CASE (\E message \in BOOLEAN : RecognitionFails(message)) \/ RecognitionEnds
    BY <2>4 DEF RecognitionFails, RecognitionEnds
  <2>5. CASE Speak \/ SpeechStarts \/ SpeechEnds \/ StopSpeaking
    BY <2>5 DEF Speak, SpeechStarts, SpeechEnds, StopSpeaking, Recognition
  <2>6. CASE AgentTurns \/ UNCHANGED voVars
    BY <2>6 DEF AgentTurns, voVars
  <2> QED
    BY <2>1, <2>2, <2>3, <2>4, <2>5, <2>6 DEF VoiceNext
<1> QED
  BY <1>1, <1>2, PTL DEF VoiceSpec, VoiceInv
-----------------------------------------------------------------------------
(* The page's session: what is still under way towards the page             *)

AgentStates == Resting \cup {"executing", "requires-confirmation"}
DownFrames ==
    [event : {"connected", "agent-state"}, x : AgentStates]
    \cup [event : {"queue-updated", "confirmation-required", "task-progress"}, x : Nat]
UpFrames ==
    [type : {"user-message", "confirmation-response", "stop"}, x : Nat, ok : BOOLEAN]

SessionTypeOK ==
    /\ csOpen \in BOOLEAN /\ csDrops \in Nat
    /\ csUp \in Seq(UpFrames) /\ csDown \in Seq(DownFrames)
    /\ csAgent \in [state : AgentStates, todo : Nat, prompt : Nat, asked : Nat, queue : Nat]
    /\ csPage \in [state : AgentStates, prompt : Nat, task : BOOLEAN, queue : Nat]

\* Once the frames of wire are handled, what the kinds among them set, shown at
\* first, is value.
Leads(wire, kinds, shown, value) ==
    \/ \E i \in DOMAIN wire :
         /\ wire[i].event \in kinds /\ wire[i].x = value
         /\ \A j \in DOMAIN wire : j > i => wire[j].event \notin kinds
    \/ shown = value /\ \A j \in DOMAIN wire : wire[j].event \notin kinds

\* Once they are handled no prompt is on the screen.
Clears(wire, shown) ==
    \/ \E i \in DOMAIN wire :
         /\ wire[i].event = "agent-state" /\ wire[i].x \in Resting
         /\ \A j \in DOMAIN wire : j > i => wire[j].event # "confirmation-required"
    \/ shown = 0 /\ \A j \in DOMAIN wire : wire[j].event # "confirmation-required"

StateKinds == {"connected", "agent-state"}
QueueKinds == {"queue-updated"}

\* Handling the first frame leaves the rest to lead to the same value.
LEMMA LeadsTail ==
    ASSUME NEW w \in Seq(DownFrames), w # << >>, NEW kinds, NEW shown, NEW value,
           Leads(w, kinds, shown, value)
    PROVE  Leads(Tail(w), kinds, IF Head(w).event \in kinds THEN Head(w).x ELSE shown, value)
<1>1. /\ Tail(w) \in Seq(DownFrames) /\ Len(Tail(w)) = Len(w) - 1 /\ Len(w) \in Nat /\ Len(w) > 0
      /\ \A i \in 1..(Len(w) - 1) : Tail(w)[i] = w[i + 1]
      /\ Head(w) = w[1] /\ DOMAIN w = 1..Len(w) /\ DOMAIN Tail(w) = 1..(Len(w) - 1)
  BY HeadTailProperties
<1>2. ASSUME NEW i \in DOMAIN w, w[i].event \in kinds, w[i].x = value,
             \A j \in DOMAIN w : j > i => w[j].event \notin kinds
      PROVE  Leads(Tail(w), kinds, IF Head(w).event \in kinds THEN Head(w).x ELSE shown, value)
  <2>1. CASE i = 1
    BY <1>1, <1>2, <2>1 DEF Leads
  <2>2. CASE i # 1
    <3>1. i - 1 \in DOMAIN Tail(w) /\ Tail(w)[i - 1] = w[i]
      BY <1>1, <2>2
    <3>2. \A j \in DOMAIN Tail(w) : j > i - 1 => Tail(w)[j].event \notin kinds
      BY <1>1, <1>2
    <3> QED
      BY <1>2, <3>1, <3>2 DEF Leads
  <2> QED
    BY <2>1, <2>2
<1>3. ASSUME shown = value, \A j \in DOMAIN w : w[j].event \notin kinds
      PROVE  Leads(Tail(w), kinds, IF Head(w).event \in kinds THEN Head(w).x ELSE shown, value)
  BY <1>1, <1>3 DEF Leads
<1> QED
  BY <1>2, <1>3 DEF Leads

\* Frames put behind others lead on from where those led.
LEMMA LeadsOn ==
    ASSUME NEW w \in Seq(DownFrames), NEW f \in Seq(DownFrames),
           NEW kinds, NEW shown, NEW old, NEW value,
           Leads(w, kinds, shown, old), Leads(f, kinds, old, value)
    PROVE  Leads(w \o f, kinds, shown, value)
<1> DEFINE c == w \o f
<1>1. /\ Len(w) \in Nat /\ Len(f) \in Nat
      /\ DOMAIN w = 1..Len(w) /\ DOMAIN f = 1..Len(f) /\ DOMAIN c = 1..(Len(w) + Len(f))
      /\ \A i \in 1..(Len(w) + Len(f)) : c[i] = IF i <= Len(w) THEN w[i] ELSE f[i - Len(w)]
  BY ConcatProperties
<1> HIDE DEF c
<1>2. ASSUME NEW i \in DOMAIN f, f[i].event \in kinds, f[i].x = value,
             \A j \in DOMAIN f : j > i => f[j].event \notin kinds
      PROVE  Leads(c, kinds, shown, value)
  <2>1. Len(w) + i \in DOMAIN c /\ c[Len(w) + i] = f[i]
    BY <1>1
  <2>2. \A j \in DOMAIN c : j > Len(w) + i => j - Len(w) \in DOMAIN f /\ c[j] = f[j - Len(w)] /\ j - Len(w) > i
    BY <1>1
  <2> QED
    BY <1>2, <2>1, <2>2 DEF Leads
<1>3. ASSUME old = value, \A j \in DOMAIN f : f[j].event \notin kinds
      PROVE  Leads(c, kinds, shown, value)
  <2>1. \A j \in DOMAIN c : j \notin DOMAIN w => j - Len(w) \in DOMAIN f /\ c[j] = f[j - Len(w)]
    BY <1>1
  <2>2. \A j \in DOMAIN w : j \in DOMAIN c /\ c[j] = w[j]
    BY <1>1
  <2>3. CASE \E i \in DOMAIN w :
               /\ w[i].event \in kinds /\ w[i].x = value
               /\ \A j \in DOMAIN w : j > i => w[j].event \notin kinds
    BY <1>3, <2>1, <2>2, <2>3 DEF Leads
  <2>4. CASE shown = value /\ \A j \in DOMAIN w : w[j].event \notin kinds
    BY <1>3, <2>1, <2>2, <2>4 DEF Leads
  <2> QED
    BY <1>3, <2>3, <2>4 DEF Leads
<1> QED
  BY <1>2, <1>3 DEF Leads, c

\* Handling the first frame leaves the prompt to be cleared by the rest.
LEMMA ClearsTail ==
    ASSUME NEW w \in Seq(DownFrames), w # << >>, NEW shown, NEW next,
           Clears(w, shown),
           Head(w).event # "confirmation-required" =>
             next = IF Head(w).event = "agent-state" /\ Head(w).x \in Resting THEN 0 ELSE shown
    PROVE  Clears(Tail(w), next)
<1>1. /\ Tail(w) \in Seq(DownFrames) /\ Len(w) \in Nat /\ Len(w) > 0
      /\ \A i \in 1..(Len(w) - 1) : Tail(w)[i] = w[i + 1]
      /\ Head(w) = w[1] /\ DOMAIN w = 1..Len(w) /\ DOMAIN Tail(w) = 1..(Len(w) - 1)
  BY HeadTailProperties
<1>2. ASSUME NEW i \in DOMAIN w, w[i].event = "agent-state", w[i].x \in Resting,
             \A j \in DOMAIN w : j > i => w[j].event # "confirmation-required"
      PROVE  Clears(Tail(w), next)
  <2>1. CASE i = 1
    BY <1>1, <1>2, <2>1 DEF Clears
  <2>2. CASE i # 1
    <3>1. i - 1 \in DOMAIN Tail(w) /\ Tail(w)[i - 1] = w[i]
      BY <1>1, <2>2
    <3>2. \A j \in DOMAIN Tail(w) : j > i - 1 => Tail(w)[j].event # "confirmation-required"
      BY <1>1, <1>2
    <3> QED
      BY <1>2, <3>1, <3>2 DEF Clears
  <2> QED
    BY <2>1, <2>2
<1>3. ASSUME shown = 0, \A j \in DOMAIN w : w[j].event # "confirmation-required"
      PROVE  Clears(Tail(w), next)
  BY <1>1, <1>3 DEF Clears
<1> QED
  BY <1>2, <1>3 DEF Clears

\* Frames of an agent that stays at rest, or that comes to rest with the last.
LEMMA ClearsOn ==
    ASSUME NEW w \in Seq(DownFrames), NEW f \in Seq(DownFrames), NEW shown,
           \/ Clears(w, shown) /\ \A j \in DOMAIN f : f[j].event # "confirmation-required"
           \/ /\ f # << >>
              /\ f[Len(f)].event = "agent-state" /\ f[Len(f)].x \in Resting
    PROVE  Clears(w \o f, shown)
<1> DEFINE c == w \o f
<1>1. /\ Len(w) \in Nat /\ Len(f) \in Nat
      /\ DOMAIN w = 1..Len(w) /\ DOMAIN f = 1..Len(f) /\ DOMAIN c = 1..(Len(w) + Len(f))
      /\ \A i \in 1..(Len(w) + Len(f)) : c[i] = IF i <= Len(w) THEN w[i] ELSE f[i - Len(w)]
  BY ConcatProperties
<1> HIDE DEF c
<1>2. CASE Clears(w, shown) /\ \A j \in DOMAIN f : f[j].event # "confirmation-required"
  <2>1. \A j \in DOMAIN c : j \notin DOMAIN w => j - Len(w) \in DOMAIN f /\ c[j] = f[j - Len(w)]
    BY <1>1
  <2>2. \A j \in DOMAIN w : j \in DOMAIN c /\ c[j] = w[j]
    BY <1>1
  <2> QED
    BY <1>2, <2>1, <2>2 DEF Clears
<1>3. CASE f # << >> /\ f[Len(f)].event = "agent-state" /\ f[Len(f)].x \in Resting
  <2>1. Len(w) + Len(f) \in DOMAIN c /\ c[Len(w) + Len(f)] = f[Len(f)]
    BY <1>1, <1>3
  <2> QED
    BY <1>1, <1>3, <2>1 DEF Clears
<1> QED
  BY <1>2, <1>3 DEF c
-----------------------------------------------------------------------------
(* The induction *)

\* Before the first connection nothing has happened.
NotBegun ==
    /\ csAgent.state = "idle" /\ csAgent.todo = 0 /\ csAgent.prompt = 0
    /\ csPage.prompt = 0
DownTells ==
    /\ Leads(csDown, StateKinds, csPage.state, csAgent.state)
    /\ Leads(csDown, QueueKinds, csPage.queue, csAgent.queue)
    /\ csDrops = 0 /\ csAgent.state \in Resting => Clears(csDown, csPage.prompt)
YesFirst ==
    \A i \in DOMAIN csUp :
      csUp[i].type = "confirmation-response" /\ csUp[i].ok => csUp[i].x \in csYes
SessionInv ==
    /\ SessionTypeOK
    /\ ~csOpen => csUp = << >> /\ csDown = << >> /\ (csDrops = 0 => NotBegun)
    /\ csOpen => DownTells
    /\ YesFirst /\ RanWasApproved

\* The invariant holds before the page has connected.
LEMMA SessionInitInv == SessionInit => SessionInv
<1> SUFFICES ASSUME SessionInit PROVE SessionInv
  OBVIOUS
<1>1. SessionTypeOK
  <2>1. << >> \in Seq(UpFrames) /\ << >> \in Seq(DownFrames) /\ "idle" \in AgentStates
    BY DEF AgentStates, Resting
  <2> QED
    BY <2>1 DEF SessionInit, SessionTypeOK
<1>2. NotBegun
  BY DEF SessionInit, NotBegun
<1>3. YesFirst /\ RanWasApproved
  BY DEF SessionInit, YesFirst, RanWasApproved
<1> QED
  BY <1>1, <1>2, <1>3 DEF SessionInit, SessionInv

\* The frames an action sends keep what those under way lead to.
LEMMA BroadcastLeads ==
    ASSUME SessionInv, NEW f \in Seq(DownFrames), Broadcast(f),
           csPage' = csPage, csOpen' = csOpen, csDrops' = csDrops,
           csAgent' \in [state : AgentStates, todo : Nat, prompt : Nat, asked : Nat, queue : Nat],
           Leads(f, StateKinds, csAgent.state, csAgent'.state),
           Leads(f, QueueKinds, csAgent.queue, csAgent'.queue),
           csAgent'.state \in Resting =>
             \/ csAgent.state \in Resting /\ \A j \in DOMAIN f : f[j].event # "confirmation-required"
             \/ f # << >> /\ f[Len(f)].event = "agent-state" /\ f[Len(f)].x \in Resting,
           ~csOpen /\ csDrops = 0 => NotBegun'
    PROVE  /\ csDown' \in Seq(DownFrames)
           /\ csOpen' => DownTells'
           /\ ~csOpen' => csDown' = << >> /\ (csDrops' = 0 => NotBegun')
<1>1. csDown \in Seq(DownFrames)
  BY DEF SessionInv, SessionTypeOK
<1>2. CASE csOpen
  <2>1. csDown' = csDown \o f
    BY <1>2 DEF Broadcast
  <2>2. csDown' \in Seq(DownFrames)
    BY <1>1, <2>1
  <2>3. /\ Leads(csDown, StateKinds, csPage.state, csAgent.state)
        /\ Leads(csDown, QueueKinds, csPage.queue, csAgent.queue)
        /\ csDrops = 0 /\ csAgent.state \in Resting => Clears(csDown, csPage.prompt)
    BY <1>2 DEF SessionInv, DownTells
  <2>4. Leads(csDown', StateKinds, csPage.state, csAgent'.state)
    BY <1>1, <2>1, <2>3, LeadsOn
  <2>5. Leads(csDown', QueueKinds, csPage.queue, csAgent'.queue)
    BY <1>1, <2>1, <2>3, LeadsOn
  <2>6. ASSUME csDrops = 0, csAgent'.state \in Resting PROVE Clears(csDown', csPage.prompt)
    BY <1>1, <2>1, <2>3, <2>6, ClearsOn
  <2>7. DownTells'
    BY <2>4, <2>5, <2>6 DEF DownTells
  <2> QED
    BY <1>2, <2>2, <2>7
<1>3. CASE ~csOpen
  BY <1>1, <1>3 DEF SessionInv, SessionTypeOK, Broadcast
<1> QED
  BY <1>2, <1>3

\* The page handles the first frame under way to it.
LEMMA PageReads ==
    ASSUME SessionInv,
           ReceiveConnected \/ ReceiveState \/ ReceivePrompt \/ ReceiveTask \/ ReceiveSnapshot
    PROVE  SessionInv'
<1> DEFINE h == Head(csDown)
<1>1. /\ csDown \in Seq(DownFrames) /\ csDown # << >> /\ csDown' = Tail(csDown) /\ csOpen
      /\ UNCHANGED <<csOpen, csUp, csAgent, csYes, csRan, csDrops>>
  BY DEF ReceiveConnected, ReceiveState, ReceivePrompt, ReceiveTask, ReceiveSnapshot, Receives,
         SessionInv, SessionTypeOK
<1>2. h \in DownFrames /\ csDown' \in Seq(DownFrames)
  BY <1>1
<1>3. /\ csPage \in [state : AgentStates, prompt : Nat, task : BOOLEAN, queue : Nat]
      /\ DownTells
  BY <1>1 DEF SessionInv, SessionTypeOK
<1>4. /\ csPage' \in [state : AgentStates, prompt : Nat, task : BOOLEAN, queue : Nat]
      /\ csPage'.state = IF h.event \in StateKinds THEN h.x ELSE csPage.state
      /\ csPage'.queue = IF h.event \in QueueKinds THEN h.x ELSE csPage.queue
      /\ h.event # "confirmation-required" =>
           csPage'.prompt = IF h.event = "agent-state" /\ h.x \in Resting THEN 0 ELSE csPage.prompt
  <2> USE DEF Receives, StateKinds, QueueKinds
  <2>1. CASE ReceiveConnected
    <3>1. h.event = "connected" /\ h.x \in AgentStates
      BY <1>2, <2>1 DEF ReceiveConnected, DownFrames
    <3>2. csPage' = [[csPage EXCEPT !.state = h.x] EXCEPT !.task = FALSE]
      BY <2>1 DEF ReceiveConnected
    <3> QED
      BY <1>3, <3>1, <3>2
  <2>2. CASE ReceiveState
    <3>1. h.event = "agent-state" /\ h.x \in AgentStates
      BY <1>2, <2>2 DEF ReceiveState, DownFrames
    <3> QED
      BY <1>3, <2>2, <3>1 DEF ReceiveState
  <2>3. CASE ReceivePrompt \/ ReceiveSnapshot
    <3>1. h.event \in {"confirmation-required", "queue-updated"} /\ h.x \in Nat
      BY <1>2, <2>3 DEF ReceivePrompt, ReceiveSnapshot, DownFrames
    <3> QED
      BY <1>3, <2>3, <3>1 DEF ReceivePrompt, ReceiveSnapshot
  <2>4. CASE ReceiveTask
    BY <1>3, <2>4 DEF ReceiveTask
  <2> QED
    BY <2>1, <2>2, <2>3, <2>4
<1> HIDE DEF h
<1>5. Leads(csDown', StateKinds, csPage'.state, csAgent.state)
  BY <1>1, <1>3, <1>4, LeadsTail DEF DownTells, h
<1>6. Leads(csDown', QueueKinds, csPage'.queue, csAgent.queue)
  BY <1>1, <1>3, <1>4, LeadsTail DEF DownTells, h
<1>7. csDrops = 0 /\ csAgent.state \in Resting => Clears(csDown', csPage'.prompt)
  BY <1>1, <1>3, <1>4, ClearsTail DEF DownTells, h
<1>8. DownTells'
  BY <1>1, <1>5, <1>6, <1>7 DEF DownTells
<1> QED
  BY <1>1, <1>2, <1>4, <1>8 DEF SessionInv, SessionTypeOK, YesFirst, RanWasApproved
\* The connection is made, and lost with what was under way.
LEMMA SocketMoves ==
    ASSUME SessionInv, SocketConnects \/ Drop
    PROVE  SessionInv'
<1>1. CASE SocketConnects
  <2> DEFINE q == Frame("queue-updated", csAgent.queue)
             k == Frame("connected", csAgent.state)
  <2>1. /\ csOpen' = TRUE /\ csUp' = << >> /\ csDown' = <<q, k>> /\ ~csOpen
        /\ UNCHANGED <<csAgent, csPage, csYes, csRan, csDrops>>
    BY <1>1 DEF SocketConnects, Snapshots
  <2>2. /\ q.event = "queue-updated" /\ q.x = csAgent.queue
        /\ k.event = "connected" /\ k.x = csAgent.state
        /\ q \in DownFrames /\ k \in DownFrames
    BY DEF SessionInv, SessionTypeOK, DownFrames, Frame
  <2> HIDE DEF q, k
  <2>3. Leads(csDown', StateKinds, csPage.state, csAgent.state)
    BY <2>1, <2>2 DEF Leads, StateKinds
  <2>4. Leads(csDown', QueueKinds, csPage.queue, csAgent.queue)
    BY <2>1, <2>2 DEF Leads, QueueKinds
  <2>5. csDrops = 0 => Clears(csDown', csPage.prompt)
    BY <2>1, <2>2 DEF Clears, SessionInv, NotBegun
  <2>6. DownTells'
    BY <2>1, <2>3, <2>4, <2>5 DEF DownTells
  <2>7. SessionTypeOK'
    BY <2>1, <2>2 DEF SessionInv, SessionTypeOK
  <2> QED
    BY <2>1, <2>6, <2>7 DEF SessionInv, YesFirst, RanWasApproved
<1>2. CASE Drop
  <2>1. /\ csOpen' = FALSE /\ csUp' = << >> /\ csDown' = << >> /\ csDrops' = csDrops + 1
        /\ UNCHANGED <<csAgent, csPage, csYes, csRan>>
    BY <1>2 DEF Drop
  <2>2. << >> \in Seq(UpFrames) /\ << >> \in Seq(DownFrames)
    OBVIOUS
  <2>a. csDrops' \in Nat /\ csDrops' # 0
    BY <2>1 DEF SessionInv, SessionTypeOK
  <2>3. SessionTypeOK' /\ csDrops' # 0
    BY <2>1, <2>2, <2>a DEF SessionInv, SessionTypeOK
  <2> QED
    BY <2>1, <2>3 DEF SessionInv, YesFirst, RanWasApproved
<1> QED
  BY <1>1, <1>2

\* What the user sends joins csUp; an approval on the screen comes before its answer.
LEMMA UserActs ==
    ASSUME SessionInv,
           SendMessage \/ PressStop \/ \E approved \in BOOLEAN : AnswerPrompt(approved)
    PROVE  SessionInv'
<1>1. ASSUME NEW type \in {"user-message", "confirmation-response", "stop"}, NEW x \in Nat,
             NEW ok \in BOOLEAN, Send(type, x, ok), csYes \subseteq csYes',
             type = "confirmation-response" /\ ok => x \in csYes',
             csPage' = csPage \/ csPage' = [csPage EXCEPT !.prompt = 0],
             UNCHANGED <<csOpen, csDown, csAgent, csRan, csDrops>>
      PROVE  SessionInv'
  <2> DEFINE m == [type |-> type, x |-> x, ok |-> ok]
  <2>1. m \in UpFrames /\ csUp \in Seq(UpFrames)
    BY DEF UpFrames, SessionInv, SessionTypeOK
  <2>2. csUp' = IF csOpen THEN Append(csUp, m) ELSE csUp
    BY <1>1 DEF Send
  <2>3. m.type = type /\ m.x = x /\ m.ok = ok
    OBVIOUS
  <2> HIDE DEF m
  <2>4. /\ csUp' \in Seq(UpFrames)
        /\ \A i \in DOMAIN csUp' : (i \in DOMAIN csUp /\ csUp'[i] = csUp[i]) \/ csUp'[i] = m
        /\ ~csOpen => csUp' = csUp
    BY <2>1, <2>2
  <2>5. YesFirst'
    BY <1>1, <2>3, <2>4 DEF SessionInv, YesFirst
  <2>6. /\ csPage' \in [state : AgentStates, prompt : Nat, task : BOOLEAN, queue : Nat]
        /\ csPage'.state = csPage.state /\ csPage'.queue = csPage.queue
        /\ csPage'.prompt \in {csPage.prompt, 0}
    BY <1>1 DEF SessionInv, SessionTypeOK
  <2>7. csOpen => DownTells'
    BY <1>1, <2>6 DEF SessionInv, DownTells, Clears
  <2>8. NotBegun => NotBegun'
    BY <1>1, <2>6 DEF NotBegun
  <2> QED
    BY <1>1, <2>4, <2>5, <2>6, <2>7, <2>8 DEF SessionInv, SessionTypeOK, RanWasApproved
<1>2. CASE SendMessage \/ PressStop
  BY <1>1, <1>2 DEF SendMessage, PressStop
<1>3. ASSUME NEW approved \in BOOLEAN, AnswerPrompt(approved) PROVE SessionInv'
  <2>1. csPage.prompt \in Nat
    BY DEF SessionInv, SessionTypeOK
  <2> QED
    BY <1>1, <1>3, <2>1 DEF AnswerPrompt
<1> QED
  BY <1>2, <1>3
AgentType == [state : AgentStates, todo : Nat, prompt : Nat, asked : Nat, queue : Nat]

\* What the agent does becomes frames to the page that tell it.
LEMMA AgentTells ==
    ASSUME SessionInv, NEW agent, NEW f,
           csAgent' = agent, Broadcast(f), agent \in AgentType, f \in Seq(DownFrames),
           UNCHANGED <<csOpen, csPage, csYes, csDrops>>,
           csUp' = csUp \/ (csUp # << >> /\ csUp' = Tail(csUp)),
           csRan' \subseteq csYes,
           Leads(f, StateKinds, csAgent.state, agent.state),
           Leads(f, QueueKinds, csAgent.queue, agent.queue),
           agent.state \in Resting =>
             \/ csAgent.state \in Resting /\ \A j \in DOMAIN f : f[j].event # "confirmation-required"
             \/ f # << >> /\ f[Len(f)].event = "agent-state" /\ f[Len(f)].x \in Resting,
           csUp' # csUp \/ ~(csDrops = 0 /\ NotBegun) \/ NotBegun'
    PROVE  SessionInv'
<1>1. csUp \in Seq(UpFrames) /\ (~csOpen => csUp = << >> /\ csDown = << >>)
  BY DEF SessionInv, SessionTypeOK
<1>2. ~csOpen => csUp' = csUp
  BY <1>1
<1>3. ~csOpen /\ csDrops = 0 => NotBegun'
  BY <1>2 DEF SessionInv
<1>4. /\ csDown' \in Seq(DownFrames)
      /\ csOpen' => DownTells'
      /\ ~csOpen' => csDown' = << >> /\ (csDrops' = 0 => NotBegun')
  BY <1>3, BroadcastLeads DEF AgentType
<1>5. /\ csUp' \in Seq(UpFrames)
      /\ \A i \in DOMAIN csUp' : \E j \in DOMAIN csUp : csUp'[i] = csUp[j]
  <2>1. CASE csUp' = csUp
    BY <1>1, <2>1
  <2>2. CASE csUp # << >> /\ csUp' = Tail(csUp)
    <3>1. \A i \in DOMAIN csUp' : i + 1 \in DOMAIN csUp /\ csUp'[i] = csUp[i + 1]
      BY <1>1, <2>2
    <3> QED
      BY <1>1, <2>2, <3>1
  <2> QED
    BY <2>1, <2>2
<1>6. YesFirst' /\ RanWasApproved'
  BY <1>5 DEF SessionInv, YesFirst, RanWasApproved
<1>7. SessionTypeOK'
  BY <1>4, <1>5 DEF SessionInv, SessionTypeOK, AgentType
<1> QED
  BY <1>1, <1>2, <1>4, <1>6, <1>7 DEF SessionInv

\* One frame of the agent's new state.
LEMMA StateTold ==
    ASSUME SessionInv, NEW s \in AgentStates
    PROVE  LET f == <<StateFrame(s)>> IN
           /\ f \in Seq(DownFrames) /\ f # << >> /\ Len(f) = 1
           /\ f[1].event = "agent-state" /\ f[1].x = s
           /\ \A old : Leads(f, StateKinds, old, s)
           /\ \A old : Leads(f, QueueKinds, old, old)
<1> DEFINE k == StateFrame(s)
<1>1. k \in DownFrames /\ k.event = "agent-state" /\ k.x = s
  BY DEF StateFrame, Frame, DownFrames
<1> HIDE DEF k
<1>2. /\ <<k>> \in Seq(DownFrames) /\ <<k>> # << >> /\ Len(<<k>>) = 1 /\ <<k>>[1] = k
      /\ DOMAIN <<k>> = {1}
  BY <1>1
<1>3. \A old : Leads(<<k>>, StateKinds, old, s) /\ Leads(<<k>>, QueueKinds, old, old)
  BY <1>1, <1>2 DEF Leads, StateKinds, QueueKinds
<1> QED
  BY <1>1, <1>2, <1>3 DEF k
\* Every action of the server and of the agent.
LEMMA AgentActs ==
    ASSUME SessionInv,
           \/ ReadMessage \/ ReadAnswer \/ ReadStop
           \/ AgentBegins \/ AgentAsks \/ PromptTimesOut
           \/ \E st \in {"completed", "error"} : AgentIsDone(st)
    PROVE  SessionInv'
<1>0. /\ csAgent \in AgentType /\ csUp \in Seq(UpFrames) /\ csDown \in Seq(DownFrames)
      /\ csAgent.state \in AgentStates /\ csAgent.prompt \in Nat /\ csAgent.todo \in Nat
      /\ csAgent.asked \in Nat /\ csAgent.queue \in Nat
      /\ csRan \subseteq csYes
  BY DEF SessionInv, SessionTypeOK, AgentType, RanWasApproved
<1> DEFINE one(s) == <<StateFrame(s)>>
<1>1. \A s \in AgentStates :
        /\ one(s) \in Seq(DownFrames) /\ one(s) # << >> /\ Len(one(s)) = 1
        /\ one(s)[1].event = "agent-state" /\ one(s)[1].x = s
        /\ \A old : Leads(one(s), StateKinds, old, s)
        /\ \A old : Leads(one(s), QueueKinds, old, old)
  BY StateTold
<1>2. "executing" \in AgentStates /\ "idle" \in AgentStates /\ "requires-confirmation" \in AgentStates
      /\ "executing" \notin Resting /\ "requires-confirmation" \notin Resting
      /\ "completed" \in AgentStates /\ "error" \in AgentStates
      /\ Resting = {"idle", "completed", "error"}
  BY DEF AgentStates, Resting
<1>3. CASE ReadMessage
  <2> DEFINE k == Frame("queue-updated", csAgent.queue + 1)
             agent == [csAgent EXCEPT !.todo = csAgent.todo + 1, !.queue = csAgent.queue + 1]
  <2>1. /\ csAgent' = agent /\ Broadcast(<<k>>) /\ csUp # << >> /\ csUp' = Tail(csUp)
        /\ UNCHANGED <<csOpen, csPage, csYes, csDrops, csRan>>
    BY <1>3 DEF ReadMessage, AgentBecomes, Reads, csUser
  <2>a. csAgent.todo + 1 \in Nat /\ csAgent.queue + 1 \in Nat
    BY <1>0
  <2>2. agent \in AgentType /\ agent.state = csAgent.state /\ agent.queue = csAgent.queue + 1
    BY <1>0, <2>a DEF AgentType
  <2>3. k \in DownFrames /\ k.event = "queue-updated" /\ k.x = csAgent.queue + 1
    BY <1>0 DEF Frame, DownFrames
  <2> HIDE DEF k, agent
  <2>4. <<k>> \in Seq(DownFrames) /\ DOMAIN <<k>> = {1} /\ <<k>>[1] = k /\ <<k>> # << >>
    BY <2>3
  <2>5. /\ Leads(<<k>>, StateKinds, csAgent.state, agent.state)
        /\ Leads(<<k>>, QueueKinds, csAgent.queue, agent.queue)
        /\ \A j \in DOMAIN <<k>> : <<k>>[j].event # "confirmation-required"
    BY <2>2, <2>3, <2>4 DEF Leads, StateKinds, QueueKinds
  <2>6. csUp' # csUp
    BY <1>0, <2>1
  <2> QED
    BY <1>0, <2>1, <2>2, <2>4, <2>5, <2>6, AgentTells
<1>4. CASE ReadAnswer
  <2> DEFINE m == Head(csUp)
             agent == [csAgent EXCEPT !.prompt = 0, !.state = "executing"]
  <2>1. /\ csUp # << >> /\ csUp' = Tail(csUp) /\ m.type = "confirmation-response"
        /\ UNCHANGED <<csOpen, csPage, csYes, csDrops>>
    BY <1>4 DEF ReadAnswer, Reads, csUser
  <2>2. csUp' # csUp /\ csUp' \in Seq(UpFrames) /\ m = csUp[1] /\ 1 \in DOMAIN csUp
    BY <1>0, <2>1
  <2>3. CASE SettlesPrompt(m)
    <3>1. csAgent' = agent /\ Broadcast(one("executing"))
          /\ csRan' = IF m.ok THEN csRan \cup {csAgent.prompt} ELSE csRan
      BY <1>4, <2>3 DEF ReadAnswer, AgentBecomes
    <3>2. agent \in AgentType /\ agent.state = "executing" /\ agent.queue = csAgent.queue
      BY <1>0, <1>2 DEF AgentType
    <3>3. csRan' \subseteq csYes
      BY <1>0, <2>1, <2>2, <2>3, <3>1 DEF SettlesPrompt, SessionInv, YesFirst
    <3> HIDE DEF agent, one, m
    <3> QED
      BY <1>1, <1>2, <2>1, <2>2, <3>1, <3>2, <3>3, AgentTells
  <2>4. CASE ~SettlesPrompt(m)
    <3>1. UNCHANGED <<csAgent, csDown, csRan>>
      BY <1>4, <2>4 DEF ReadAnswer
    <3>2. \A i \in DOMAIN csUp' : i + 1 \in DOMAIN csUp /\ csUp'[i] = csUp[i + 1]
      BY <1>0, <2>1
    <3> QED
      BY <2>1, <2>2, <3>1, <3>2
      DEF SessionInv, SessionTypeOK, YesFirst, RanWasApproved, DownTells, NotBegun
  <2> QED
    BY <2>3, <2>4
<1>5. CASE ReadStop
  <2> DEFINE agent == [csAgent EXCEPT !.prompt = 0, !.state = "idle"]
             first == IF csAgent.prompt = 0 THEN << >> ELSE one("executing")
  <2>1. /\ csAgent' = agent /\ Broadcast(first \o one("idle")) /\ csUp # << >> /\ csUp' = Tail(csUp)
        /\ UNCHANGED <<csOpen, csPage, csYes, csDrops, csRan>>
    BY <1>5 DEF ReadStop, AgentBecomes, Reads, csUser
  <2>2. agent \in AgentType /\ agent.state = "idle" /\ agent.queue = csAgent.queue
    BY <1>0, <1>2 DEF AgentType
  <2>3. \E s \in AgentStates :
          /\ first \in Seq(DownFrames)
          /\ Leads(first, StateKinds, csAgent.state, s)
          /\ Leads(first, QueueKinds, csAgent.queue, csAgent.queue)
    <3>1. /\ << >> \in Seq(DownFrames)
          /\ \A kinds, old : Leads(<< >>, kinds, old, old)
      BY DEF Leads
    <3> HIDE DEF one
    <3> QED
      BY <1>0, <1>1, <1>2, <3>1
  <2> HIDE DEF agent, one, first
  <2>4. /\ Leads(first \o one("idle"), StateKinds, csAgent.state, "idle")
        /\ Leads(first \o one("idle"), QueueKinds, csAgent.queue, csAgent.queue)
    BY <1>1, <1>2, <2>3, LeadsOn
  <2> DEFINE f == first \o one("idle")
  <2>5. f \in Seq(DownFrames) /\ f # << >> /\ f[Len(f)] = one("idle")[1]
    BY <1>1, <1>2, <2>3
  <2>6. csUp' # csUp
    BY <1>0, <2>1
  <2>7. /\ Leads(f, StateKinds, csAgent.state, agent.state)
        /\ Leads(f, QueueKinds, csAgent.queue, agent.queue)
        /\ f[Len(f)].event = "agent-state" /\ f[Len(f)].x \in Resting
    BY <1>1, <1>2, <2>2, <2>4, <2>5
  <2>8. Broadcast(f) /\ csRan' \subseteq csYes
    BY <1>0, <2>1
  <2> HIDE DEF f
  <2> QED
    BY <2>1, <2>2, <2>5, <2>6, <2>7, <2>8, AgentTells
<1>6. CASE AgentBegins
  <2> DEFINE k == Frame("task-progress", 0)
             x == StateFrame("executing")
             agent == [csAgent EXCEPT !.todo = csAgent.todo - 1, !.state = "executing"]
  <2>1. /\ csAgent' = agent /\ Broadcast(<<x, k>>) /\ csAgent.todo > 0
        /\ UNCHANGED <<csUp, csOpen, csPage, csYes, csDrops, csRan>>
    BY <1>6 DEF AgentBegins, AgentBecomes, AgentWorks
  <2>a. csAgent.todo - 1 \in Nat
    BY <1>0, <2>1
  <2>2. agent \in AgentType /\ agent.state = "executing" /\ agent.queue = csAgent.queue
    BY <1>0, <1>2, <2>a DEF AgentType
  <2>3. /\ k \in DownFrames /\ k.event = "task-progress"
        /\ x \in DownFrames /\ x.event = "agent-state" /\ x.x = "executing"
    BY <1>2 DEF Frame, DownFrames, StateFrame
  <2> HIDE DEF k, x, agent
  <2>4. <<x, k>> \in Seq(DownFrames) /\ DOMAIN <<x, k>> = {1, 2} /\ <<x, k>>[1] = x /\ <<x, k>>[2] = k
    BY <2>3
  <2>5. /\ Leads(<<x, k>>, StateKinds, csAgent.state, agent.state)
        /\ Leads(<<x, k>>, QueueKinds, csAgent.queue, agent.queue)
    BY <2>2, <2>3, <2>4 DEF Leads, StateKinds, QueueKinds
  <2>6. ~NotBegun
    BY <2>1 DEF NotBegun
  <2> QED
    BY <1>0, <1>2, <2>1, <2>2, <2>4, <2>5, <2>6, AgentTells
<1>7. CASE AgentAsks
  <2> DEFINE id == csAgent.asked + 1
             k == Frame("confirmation-required", id)
             x == StateFrame("requires-confirmation")
             agent == [csAgent EXCEPT !.prompt = id, !.asked = id, !.state = "requires-confirmation"]
  <2>1. /\ csAgent' = agent /\ Broadcast(<<k, x>>) /\ csAgent.state = "executing"
        /\ UNCHANGED <<csUp, csOpen, csPage, csYes, csDrops, csRan>>
    BY <1>7 DEF AgentAsks, AgentBecomes, AgentWorks
  <2>a. id \in Nat
    BY <1>0
  <2> HIDE DEF id
  <2>2. agent \in AgentType /\ agent.state = "requires-confirmation" /\ agent.queue = csAgent.queue
    BY <1>0, <1>2, <2>a DEF AgentType
  <2>3. /\ k \in DownFrames /\ k.event = "confirmation-required"
        /\ x \in DownFrames /\ x.event = "agent-state" /\ x.x = "requires-confirmation"
    BY <1>0, <1>2, <2>a DEF Frame, DownFrames, StateFrame
  <2> HIDE DEF k, x, agent
  <2>4. <<k, x>> \in Seq(DownFrames) /\ DOMAIN <<k, x>> = {1, 2} /\ <<k, x>>[1] = k /\ <<k, x>>[2] = x
    BY <2>3
  <2>5. /\ Leads(<<k, x>>, StateKinds, csAgent.state, agent.state)
        /\ Leads(<<k, x>>, QueueKinds, csAgent.queue, agent.queue)
    BY <2>2, <2>3, <2>4 DEF Leads, StateKinds, QueueKinds
  <2>6. ~NotBegun
    BY <2>1 DEF NotBegun
  <2> QED
    BY <1>0, <1>2, <2>1, <2>2, <2>4, <2>5, <2>6, AgentTells
<1>8. CASE PromptTimesOut
  <2> DEFINE agent == [csAgent EXCEPT !.prompt = 0, !.state = "executing"]
  <2>1. /\ csAgent' = agent /\ Broadcast(one("executing")) /\ csAgent.prompt # 0
        /\ UNCHANGED <<csUp, csOpen, csPage, csYes, csDrops, csRan>>
    BY <1>8 DEF PromptTimesOut, AgentBecomes, AgentWorks
  <2>2. agent \in AgentType /\ agent.state = "executing" /\ agent.queue = csAgent.queue
    BY <1>0, <1>2 DEF AgentType
  <2> HIDE DEF agent, one
  <2>3. ~NotBegun
    BY <2>1 DEF NotBegun
  <2> QED
    BY <1>0, <1>1, <1>2, <2>1, <2>2, <2>3, AgentTells
<1>9. ASSUME NEW st \in {"completed", "error"}, AgentIsDone(st) PROVE SessionInv'
  <2> DEFINE agent == [csAgent EXCEPT !.state = st]
  <2>1. /\ csAgent' = agent /\ Broadcast(one(st)) /\ csAgent.state = "executing"
        /\ UNCHANGED <<csUp, csOpen, csPage, csYes, csDrops, csRan>>
    BY <1>9 DEF AgentIsDone, AgentBecomes, AgentWorks
  <2>2. agent \in AgentType /\ agent.state = st /\ agent.queue = csAgent.queue
    BY <1>0, <1>2 DEF AgentType
  <2> HIDE DEF agent, one
  <2>3. ~NotBegun
    BY <2>1 DEF NotBegun
  <2> QED
    BY ZenonT(40), <1>0, <1>1, <1>2, <2>1, <2>2, <2>3, AgentTells
<1> QED
  BY <1>3, <1>4, <1>5, <1>6, <1>7, <1>8, <1>9

\* However often the connection is lost and whatever is answered late: when
\* nothing is in flight the page shows the server's state and queue, a run that
\* ended has taken its prompt along, and what ran had been approved.
THEOREM PageAlwaysTrue == SessionSpec => []PageIsTrue
<1>1. SessionInv /\ [SessionNext]_csVars => SessionInv'
  <2> SUFFICES ASSUME SessionInv, [SessionNext]_csVars PROVE SessionInv'
    OBVIOUS
  <2>1. CASE UNCHANGED csVars
    BY <2>1 DEF csVars, SessionInv, SessionTypeOK, NotBegun, DownTells, YesFirst, RanWasApproved
  <2> QED
    BY <2>1, SocketMoves, PageReads, UserActs, AgentActs DEF SessionNext
<1>2. SessionInv => PageIsTrue
  BY DEF SessionInv, SessionTypeOK, DownTells, PageIsTrue, PageConverges, EndTakesThePrompt,
         NothingUnderWay, Leads, Clears, RanWasApproved
<1> QED
  BY SessionInitInv, <1>1, <1>2, PTL DEF SessionSpec
-----------------------------------------------------------------------------
(* A batch of file operations *)

\* Where files are, and what a batch may be.
Places == Dirs \X Nat

Batches ==
  [op : Ops \cup {"none"}, todo : SUBSET Places, done : SUBSET (Places \X BOOLEAN),
   size : {Cardinality(S) : S \in SUBSET Places} \cup {0},
   verdict : {"none", "success", "failure"}]

BatchTyped ==
  /\ DOMAIN bfFiles \subseteq Places /\ DOMAIN bfBefore \subseteq Places
  /\ bfBatch \in Batches /\ (bfBatch.op = "none" => bfBatch = NoBatch)
  /\ bfCount \in Nat /\ (bfCount = 0 => bfBatch.op = "none")

\* A file the batch has not treated yet is as the batch found it.
TodoUntouched ==
  \A p \in bfBatch.todo :
    /\ p[1] = "top" /\ p \in DOMAIN bfBefore
    /\ Exists(p) /\ bfFiles[p] = bfBefore[p]

\* What SuccessIsComplete says of a file, and that no later item undoes it.
PageSettled(p) ==
  /\ bfBatch.op = "batch_copy" \/ bfBatch.op = "bulk_rename" \/ ~Exists(p)
  /\ bfBatch.op \notin {"batch_delete", "dedupe"} =>
       /\ Exists(Target(p)) /\ bfFiles[Target(p)] = bfBefore[p]
       /\ Target(p) \notin bfBatch.todo

DoneSettled ==
  \A r \in bfBatch.done :
    /\ r[1][1] = "top" /\ r[1] \notin bfBatch.todo
    /\ r[2] => PageSettled(r[1])

\* An extra copy: a file of the directory with one of the same content before it.
ExtraBefore(p) ==
  p[1] = "top" /\ \E q \in DOMAIN bfBefore :
    q[1] = "top" /\ bfBefore[q] = bfBefore[p] /\ q[2] < p[2]

\* Deduplication has only extras to delete, and the others are as they were.
DedupeKeeps ==
  bfBatch.op = "dedupe" =>
    /\ \A p \in bfBatch.todo : ExtraBefore(p)
    /\ \A p \in DOMAIN bfBefore :
         ExtraBefore(p) \/ (Exists(p) /\ bfFiles[p] = bfBefore[p])

\* Success is reported when nothing is left and nothing failed.
VerdictEarned ==
  bfBatch.verdict = "success" => bfBatch.todo = {} /\ \A r \in bfBatch.done : r[2]

BatchInv ==
  BatchTyped /\ TodoUntouched /\ DoneSettled /\ DedupeKeeps /\ VerdictEarned /\ NothingIsLost

-----------------------------------------------------------------------------
\* Of the names of a set of files there is a first one: the file that
\* groupByContent keeps.
LEMMA FirstName ==
  ASSUME NEW S \in SUBSET Nat, S # {}
  PROVE  \E x \in S : \A y \in S : x <= y
<1>1. IsWellFoundedOn(OpToRel(<, Nat), Nat)
  BY NatLessThanWellFounded
<1>2. PICK x \in S : \A y \in S : ~(<<y, x>> \in OpToRel(<, Nat))
  BY <1>1, WFMin
<1>3. \A y \in S : ~(y < x)
  BY <1>2 DEF OpToRel
<1> QED
  BY <1>3

\* What is not the first of its content has a first one before it.
LEMMA ExtrasHaveFirst ==
  ASSUME BatchTyped, NEW p \in DOMAIN bfBefore
  PROVE  \E q \in DOMAIN bfBefore : bfBefore[q] = bfBefore[p] /\ ~ExtraBefore(q)
<1>1. CASE ~ExtraBefore(p)
  BY <1>1
<1>2. CASE ExtraBefore(p)
  <2> DEFINE T == {q \in DOMAIN bfBefore : q[1] = "top" /\ bfBefore[q] = bfBefore[p]}
             N == {q[2] : q \in T}
  <2>1. p \in T
    BY <1>2 DEF ExtraBefore
  <2>2. N \in SUBSET Nat /\ N # {}
    BY <2>1 DEF BatchTyped, Places
  <2> HIDE DEF N
  <2>3. PICK x \in N : \A y \in N : x <= y
    BY <2>2, FirstName
  <2>4. PICK q \in T : q[2] = x
    BY <2>3 DEF N
  <2>5. ASSUME NEW u \in DOMAIN bfBefore, u[1] = "top", bfBefore[u] = bfBefore[q], u[2] < q[2]
        PROVE  FALSE
    <3>1. u \in T
      BY <2>5, <2>4
    <3>2. u[2] \in N
      BY <3>1 DEF N
    <3>3. x <= u[2] /\ x \in Nat /\ u[2] \in Nat
      BY <3>2, <2>3, <2>2
    <3> QED
      BY <3>3, <2>4, <2>5
  <2>6. ~ExtraBefore(q)
    BY <2>5 DEF ExtraBefore
  <2> QED
    BY <2>4, <2>6
<1> QED
  BY <1>1, <1>2

\* Deleting the extras of the directory as it was leaves one file of each content.
LEMMA DedupeLosesNothing ==
  ASSUME BatchTyped, DedupeKeeps, bfBatch.op = "dedupe"
  PROVE  Contents(bfBefore) \subseteq Contents(bfFiles)
<1> SUFFICES ASSUME NEW p \in DOMAIN bfBefore PROVE bfBefore[p] \in Contents(bfFiles)
  BY DEF Contents
<1>1. PICK q \in DOMAIN bfBefore : bfBefore[q] = bfBefore[p] /\ ~ExtraBefore(q)
  BY ExtrasHaveFirst
<1>2. q \in DOMAIN bfFiles /\ bfFiles[q] = bfBefore[q]
  BY <1>1 DEF DedupeKeeps, Exists
<1> QED
  BY <1>1, <1>2 DEF Contents

\* A file moved to a free name: every other file stays, and no content is lost.
LEMMA MovedTree ==
  ASSUME NEW p, NEW q, Exists(p), bfFiles' = WithFile(q, bfFiles[p], WithoutFile(p))
  PROVE  /\ DOMAIN bfFiles' = (DOMAIN bfFiles \ {p}) \cup {q}
         /\ bfFiles'[q] = bfFiles[p]
         /\ \A u \in DOMAIN bfFiles : u # p /\ u # q => bfFiles'[u] = bfFiles[u]
         /\ ~Exists(q) => Contents(bfFiles) \subseteq Contents(bfFiles')
<1> DEFINE W == WithoutFile(p)
<1>1. DOMAIN W = DOMAIN bfFiles \ {p} /\ \A u \in DOMAIN W : W[u] = bfFiles[u]
  BY DEF WithoutFile
<1> HIDE DEF W
<1>2. bfFiles' = [u \in DOMAIN W \cup {q} |-> IF u = q THEN bfFiles[p] ELSE W[u]]
  BY DEF WithFile, W
<1>3. DOMAIN bfFiles' = (DOMAIN bfFiles \ {p}) \cup {q}
  BY <1>1, <1>2
<1>4. bfFiles'[q] = bfFiles[p]
  BY <1>2
<1>5. \A u \in DOMAIN bfFiles : u # p /\ u # q => bfFiles'[u] = bfFiles[u]
  BY <1>1, <1>2
<1>6. ASSUME ~Exists(q), NEW u \in DOMAIN bfFiles PROVE bfFiles[u] \in Contents(bfFiles')
  <2>1. CASE u = p
    BY <2>1, <1>3, <1>4 DEF Contents
  <2>2. CASE u # p
    BY <2>2, <1>6, <1>3, <1>5 DEF Contents, Exists
  <2> QED
    BY <2>1, <2>2
<1> QED
  BY <1>3, <1>4, <1>5, <1>6 DEF Contents

\* A file copied to a free name.
LEMMA CopiedTree ==
  ASSUME NEW p, NEW q, Exists(p), ~Exists(q), bfFiles' = WithFile(q, bfFiles[p], bfFiles)
  PROVE  /\ DOMAIN bfFiles' = DOMAIN bfFiles \cup {q}
         /\ bfFiles'[q] = bfFiles[p]
         /\ \A u \in DOMAIN bfFiles : bfFiles'[u] = bfFiles[u]
         /\ Contents(bfFiles) \subseteq Contents(bfFiles')
  BY DEF WithFile, Exists, Contents

\* A file deleted.
LEMMA DeletedTree ==
  ASSUME NEW p, bfFiles' = WithoutFile(p)
  PROVE  /\ DOMAIN bfFiles' = DOMAIN bfFiles \ {p}
         /\ \A u \in DOMAIN bfFiles : u # p => bfFiles'[u] = bfFiles[u]
  BY DEF WithoutFile

\* What the record of an item does to the batch.
LEMMA ItemDone ==
  ASSUME BatchTyped, NEW p \in bfBatch.todo, NEW ok \in BOOLEAN, DoneWith(p, ok)
  PROVE  /\ bfBatch' \in Batches
         /\ bfBatch'.op = bfBatch.op /\ bfBatch'.verdict = bfBatch.verdict
         /\ bfBatch'.todo = bfBatch.todo \ {p}
         /\ bfBatch'.done = bfBatch.done \cup {<<p, ok>>}
         /\ bfBatch.op # "none" /\ p \in Places
<1>1. bfBatch.op # "none" /\ p \in Places
  BY DEF BatchTyped, NoBatch, Batches
<1>2. bfBatch' = [bfBatch EXCEPT !.todo = @ \ {p}, !.done = @ \cup {<<p, ok>>}]
  BY DEF DoneWith
<1>3. bfBatch \in Batches
  BY DEF BatchTyped
<1>4. bfBatch.todo \ {p} \in SUBSET Places /\ bfBatch.done \cup {<<p, ok>>} \in SUBSET (Places \X BOOLEAN)
  BY <1>1, <1>3 DEF Batches
<1> QED
  BY <1>1, <1>2, <1>3, <1>4 DEF Batches

-----------------------------------------------------------------------------
\* An item that fails leaves the tree alone.
LEMMA FailsKeeps ==
  ASSUME BatchInv, NEW p, Fails(p) PROVE BatchInv'
<1>1. p \in bfBatch.todo /\ DoneWith(p, FALSE) /\ bfFiles' = bfFiles /\ bfBefore' = bfBefore /\ bfCount' = bfCount
  BY DEF Fails
<1>2. BatchTyped
  BY DEF BatchInv
<1>3. /\ bfBatch' \in Batches
      /\ bfBatch'.op = bfBatch.op /\ bfBatch'.verdict = bfBatch.verdict
      /\ bfBatch'.todo = bfBatch.todo \ {p}
      /\ bfBatch'.done = bfBatch.done \cup {<<p, FALSE>>}
      /\ bfBatch.op # "none" /\ p \in Places
  BY <1>1, <1>2, ItemDone
<1>4. BatchTyped'
  BY <1>1, <1>2, <1>3 DEF BatchTyped
<1>5. TodoUntouched' /\ DedupeKeeps' /\ VerdictEarned' /\ NothingIsLost'
  BY <1>1, <1>3 DEF BatchInv, TodoUntouched, DedupeKeeps, VerdictEarned, NothingIsLost, ExtraBefore, Exists
<1>6. DoneSettled'
  <2>1. \A u : Target(u)' = Target(u)
    BY <1>3 DEF Target
  <2>2. p[1] = "top"
    BY <1>1 DEF BatchInv, TodoUntouched
  <2>3. \A u : PageSettled(u) => PageSettled(u)'
    BY <2>1, <1>1, <1>3 DEF PageSettled, Exists
  <2>4. \A r \in bfBatch.done : r[1][1] = "top" /\ r[1] \notin bfBatch.todo /\ (r[2] => PageSettled(r[1])')
    BY <2>3 DEF DoneSettled, BatchInv
  <2>5. \A r \in bfBatch'.done : r \in bfBatch.done \/ r = <<p, FALSE>>
    BY <1>3
  <2>6. ASSUME NEW r \in bfBatch'.done
        PROVE  r[1][1] = "top" /\ r[1] \notin bfBatch'.todo /\ (r[2] => PageSettled(r[1])')
    <3>1. CASE r \in bfBatch.done
      BY <3>1, <2>4, <1>3
    <3>2. CASE r = <<p, FALSE>>
      <4>1. r[1] = p /\ r[2] = FALSE
        BY <3>2
      <4> QED
        BY <4>1, <2>2, <1>3
    <3> QED
      BY <3>1, <3>2, <2>5
  <2> QED
    BY <2>6 DEF DoneSettled
<1> QED
  BY <1>4, <1>5, <1>6 DEF BatchInv

\* An item treated keeps every part: where it was moved is no other item's
\* source or target, and what is deleted was asked for or has a first one.
LEMMA TreatsKeeps ==
  ASSUME BatchInv, NEW p, Treats(p) PROVE BatchInv'
<1> DEFINE q == Target(p)
<1>1. p \in bfBatch.todo /\ DoneWith(p, TRUE) /\ bfBefore' = bfBefore /\ bfCount' = bfCount
  BY DEF Treats, MovesTo, Copies, Deletes
<1>2. BatchTyped /\ TodoUntouched /\ DoneSettled /\ DedupeKeeps /\ VerdictEarned /\ NothingIsLost
  BY DEF BatchInv
<1>3. /\ bfBatch' \in Batches
      /\ bfBatch'.op = bfBatch.op /\ bfBatch'.verdict = bfBatch.verdict
      /\ bfBatch'.todo = bfBatch.todo \ {p}
      /\ bfBatch'.done = bfBatch.done \cup {<<p, TRUE>>}
      /\ bfBatch.op # "none" /\ p \in Places
  BY <1>1, <1>2, ItemDone
<1>4. p[1] = "top" /\ p[2] \in Nat /\ Exists(p) /\ bfFiles[p] = bfBefore[p] /\ p \in DOMAIN bfBefore
  BY <1>1, <1>2, <1>3 DEF TodoUntouched, Places
<1>5. q \in Places /\ (bfBatch.op # "bulk_rename" => q[1] = "sub") /\ q # p
  BY <1>4 DEF Target, Places, Dirs
<1>6. \A u : Target(u)' = Target(u)
  BY <1>3 DEF Target
<1>7. \A u \in Places : u[1] = "top" /\ u # p => Target(u) # q
  <2> SUFFICES ASSUME NEW u \in Places, u[1] = "top", u # p PROVE Target(u) # q
    OBVIOUS
  <2>1. u = <<u[1], u[2]>> /\ p = <<p[1], p[2]>> /\ u[2] \in Nat
    BY <1>3 DEF Places
  <2>2. u[2] # p[2]
    BY <2>1, <1>4
  <2> QED
    BY <2>1, <2>2, <1>4 DEF Target
<1>8. \A r \in bfBatch.done : r[1] \in Places /\ r[1][1] = "top" /\ r[1] \notin bfBatch.todo /\ (r[2] => PageSettled(r[1]))
  BY <1>2 DEF DoneSettled, BatchTyped, Batches
<1> HIDE DEF q
<1>9. VerdictEarned'
  BY <1>1, <1>2, <1>3 DEF VerdictEarned
\* The same for all three ways of treating it, from what they do to the tree.
<1>10. ASSUME DOMAIN bfFiles' \subseteq Places,
              \A u \in DOMAIN bfFiles : u # p /\ u # q => u \in DOMAIN bfFiles' /\ bfFiles'[u] = bfFiles[u],
              \A u : u \in DOMAIN bfFiles' => u \in DOMAIN bfFiles \/ u = q,
              q \notin bfBatch.todo,
              bfBatch.op \notin {"batch_copy", "bulk_rename"} => ~Exists(p)',
              bfBatch.op \notin {"batch_delete", "dedupe"} => q \in DOMAIN bfFiles' /\ bfFiles'[q] = bfFiles[p],
              NothingIsLost',
              bfBatch.op = "dedupe" => ~Exists(q) \/ (q \in DOMAIN bfFiles' /\ bfFiles'[q] = bfFiles[q])
       PROVE  BatchInv'
  <2>1. BatchTyped'
    BY <1>1, <1>2, <1>3, <1>10 DEF BatchTyped
  <2>2. TodoUntouched'
    BY <1>1, <1>2, <1>3, <1>10 DEF TodoUntouched, Exists
  <2>3. DedupeKeeps'
    <3> SUFFICES ASSUME bfBatch.op = "dedupe" PROVE DedupeKeeps'
      BY <1>3 DEF DedupeKeeps
    <3>1. \A u : ExtraBefore(u)' <=> ExtraBefore(u)
      BY <1>1 DEF ExtraBefore
    <3>2. ExtraBefore(p)
      BY <1>1, <1>2 DEF DedupeKeeps
    <3>3. \A u \in bfBatch'.todo : ExtraBefore(u)'
      BY <3>1, <1>2, <1>3 DEF DedupeKeeps
    <3>4. ASSUME NEW u \in DOMAIN bfBefore, ~ExtraBefore(u)
          PROVE  u \in DOMAIN bfFiles' /\ bfFiles'[u] = bfBefore[u]
      <4>1. u \in DOMAIN bfFiles /\ bfFiles[u] = bfBefore[u] /\ u # p
        BY <3>2, <3>4, <1>2 DEF DedupeKeeps, Exists
      <4> QED
        BY <4>1, <1>10 DEF Exists
    <3> QED
      BY <3>1, <3>3, <3>4, <1>1 DEF DedupeKeeps, Exists
  <2>4. PageSettled(p)'
    <3>1. q = Target(p) /\ Target(p)' = q
      BY <1>6 DEF q
    <3> QED
      BY <3>1, <1>1, <1>3, <1>4, <1>10 DEF PageSettled, Exists
  <2>5. ASSUME NEW u \in Places, u[1] = "top", u \notin bfBatch.todo, PageSettled(u) PROVE PageSettled(u)'
    <3>1. u # p /\ Target(u) # q
      BY <2>5, <1>1, <1>7
    <3>2. bfBatch.op \notin {"batch_copy", "bulk_rename"} => ~Exists(u)'
      BY <2>5, <3>1, <1>5, <1>10 DEF PageSettled, Exists
    <3>3. bfBatch.op \notin {"batch_delete", "dedupe"} =>
            Exists(Target(u))' /\ bfFiles'[Target(u)] = bfBefore[u] /\ Target(u) \notin bfBatch'.todo
      BY <2>5, <3>1, <1>1, <1>3, <1>6, <1>10 DEF PageSettled, Exists
    <3> QED
      BY <3>2, <3>3, <1>1, <1>3, <1>6 DEF PageSettled
  <2>6. DoneSettled'
    <3>1. \A r \in bfBatch'.done : r \in bfBatch.done \/ r = <<p, TRUE>>
      BY <1>3
    <3>2. ASSUME NEW r \in bfBatch.done
          PROVE  r[1][1] = "top" /\ r[1] \notin bfBatch'.todo /\ (r[2] => PageSettled(r[1])')
      BY <2>5, <1>3, <1>8
    <3>3. p[1] = "top" /\ p \notin bfBatch'.todo
      BY <1>3, <1>4
    <3>4. ASSUME NEW r \in bfBatch'.done
          PROVE  r[1][1] = "top" /\ r[1] \notin bfBatch'.todo /\ (r[2] => PageSettled(r[1])')
      <4>1. CASE r \in bfBatch.done
        BY <4>1, <3>2
      <4>2. CASE r = <<p, TRUE>>
        <5>1. r[1] = p
          BY <4>2
        <5> QED
          BY <5>1, <2>4, <3>3
      <4> QED
        BY <3>1, <4>1, <4>2
    <3> QED
      BY <3>4 DEF DoneSettled
  <2> QED
    BY <2>1, <2>2, <2>3, <2>6, <1>9, <1>10 DEF BatchInv
<1>11. CASE MovesTo(p)
  <2>1. /\ bfBatch.op \in {"organize", "batch_move", "bulk_rename"}
        /\ bfBatch.op = "organize" \/ ~Exists(q)
        /\ bfFiles' = WithFile(q, bfFiles[p], WithoutFile(p))
    BY <1>11 DEF MovesTo, Taken, q
  <2>2. /\ DOMAIN bfFiles' = (DOMAIN bfFiles \ {p}) \cup {q}
        /\ bfFiles'[q] = bfFiles[p]
        /\ \A u \in DOMAIN bfFiles : u # p /\ u # q => bfFiles'[u] = bfFiles[u]
        /\ ~Exists(q) => Contents(bfFiles) \subseteq Contents(bfFiles')
    BY <2>1, <1>4, MovedTree
  <2>3. q \notin bfBatch.todo
    BY <2>1, <1>2, <1>5 DEF TodoUntouched
  <2>4. NothingIsLost'
    BY <2>1, <2>2, <1>1, <1>2, <1>3 DEF NothingIsLost
  <2>5. DOMAIN bfFiles' \subseteq Places
    BY <2>2, <1>2, <1>5 DEF BatchTyped
  <2>6. ~Exists(p)' /\ q \in DOMAIN bfFiles'
    BY <2>2, <1>5 DEF Exists
  <2> QED
    BY <2>1, <2>2, <2>3, <2>4, <2>5, <2>6, <1>10
<1>12. CASE Copies(p)
  <2>1. /\ bfBatch.op = "batch_copy" /\ ~Exists(q)
        /\ bfFiles' = WithFile(q, bfFiles[p], bfFiles)
    BY <1>12 DEF Copies, Taken, q
  <2>2. /\ DOMAIN bfFiles' = DOMAIN bfFiles \cup {q}
        /\ bfFiles'[q] = bfFiles[p]
        /\ \A u \in DOMAIN bfFiles : bfFiles'[u] = bfFiles[u]
        /\ Contents(bfFiles) \subseteq Contents(bfFiles')
    BY <2>1, <1>4, CopiedTree
  <2>3. q \notin bfBatch.todo
    BY <2>1, <1>2, <1>5 DEF TodoUntouched
  <2>4. NothingIsLost'
    BY <2>1, <2>2, <1>1, <1>2, <1>3 DEF NothingIsLost
  <2>5. DOMAIN bfFiles' \subseteq Places
    BY <2>2, <1>2, <1>5 DEF BatchTyped
  <2>6. q \in DOMAIN bfFiles'
    BY <2>2 DEF Exists
  <2> QED
    BY <2>1, <2>2, <2>3, <2>4, <2>5, <2>6, <1>10
<1>13. CASE Deletes(p)
  <2>1. bfBatch.op \in {"batch_delete", "dedupe"} /\ bfFiles' = WithoutFile(p)
    BY <1>13 DEF Deletes
  <2>2. /\ DOMAIN bfFiles' = DOMAIN bfFiles \ {p}
        /\ \A u \in DOMAIN bfFiles : u # p => bfFiles'[u] = bfFiles[u]
    BY <2>1, DeletedTree
  <2>3. q \notin bfBatch.todo
    BY <2>1, <1>2, <1>5 DEF TodoUntouched
  <2>4. DOMAIN bfFiles' \subseteq Places /\ ~Exists(p)'
    BY <2>2, <1>2 DEF BatchTyped, Exists
  <2>5. NothingIsLost'
    <3>1. CASE bfBatch.op = "batch_delete"
      BY <3>1, <1>3 DEF NothingIsLost
    <3>2. CASE bfBatch.op = "dedupe"
      <4>1. BatchTyped'
        BY <2>4, <1>1, <1>2, <1>3 DEF BatchTyped
      <4>2. ExtraBefore(p) /\ \A u : ExtraBefore(u)' <=> ExtraBefore(u)
        BY <3>2, <1>1, <1>2 DEF DedupeKeeps, ExtraBefore
      <4>3. DedupeKeeps'
        BY <4>2, <3>2, <2>2, <1>1, <1>2, <1>3 DEF DedupeKeeps, Exists
      <4>4. Contents(bfBefore') \subseteq Contents(bfFiles')
        <5>1. (bfBatch.op = "dedupe")'
          BY <3>2, <1>3
        <5>2. (Contents(bfBefore) \subseteq Contents(bfFiles))'
          BY <4>1, <4>3, <5>1, DedupeLosesNothing, PTL
        <5> QED
          BY <5>2
      <4> QED
        BY <4>4 DEF NothingIsLost
    <3> QED
      BY <3>1, <3>2, <2>1
  <2>6. q # p
    BY <1>5
  <2> QED
    BY <2>1, <2>2, <2>3, <2>4, <2>5, <2>6, <1>10 DEF Exists
<1> QED
  BY <1>11, <1>12, <1>13 DEF Treats

-----------------------------------------------------------------------------
\* A batch begins with its files as they are, verified is every one, and it is
\* forgotten when it is returned.
LEMMA BatchKept == BatchInv /\ [BulkNext]_bfVars => BatchInv'
<1> SUFFICES ASSUME BatchInv, [BulkNext]_bfVars PROVE BatchInv'
  OBVIOUS
<1> USE DEF BatchInv
<1>1. ASSUME NEW tree \in Trees, UserWrites(tree) PROVE BatchInv'
  <2>1. bfCount = 0 /\ bfFiles' = tree /\ bfBefore' = tree /\ bfBatch' = bfBatch /\ bfCount' = bfCount
    BY <1>1 DEF UserWrites
  <2>2. bfBatch = NoBatch
    BY <2>1 DEF BatchTyped
  <2>3. PICK S \in SUBSET Paths : tree \in [S -> BfContents \cup {Unreadable}]
    BY DEF Trees
  <2>4. DOMAIN tree \subseteq Places
    <3>1. DOMAIN tree = S
      BY <2>3
    <3>2. Paths \subseteq Places
      BY BfNamesAssumption DEF Paths, Places
    <3> QED
      BY <3>1, <3>2
  <2> QED
    BY <2>1, <2>2, <2>4 DEF BatchTyped, TodoUntouched, DoneSettled, DedupeKeeps, VerdictEarned, NothingIsLost, NoBatch
<1>2. ASSUME NEW op \in Ops, BeginBatch(op) PROVE BatchInv'
  <2>1. Batched(op) \subseteq DOMAIN bfFiles /\ Batched(op) \in SUBSET Places
    BY DEF Batched, ListedFiles, Extras, BatchTyped
  <2>2. /\ bfBatch' = [op |-> op, todo |-> Batched(op), done |-> {}, size |-> Cardinality(Batched(op)), verdict |-> "none"]
        /\ bfBefore' = bfFiles /\ bfFiles' = bfFiles /\ bfCount' = bfCount + 1
    BY <1>2 DEF BeginBatch, NoBatch
  <2>3. BatchTyped'
    <3>1. bfBatch' \in Batches
      BY <2>1, <2>2 DEF Batches
    <3>2. op # "none"
      BY DEF Ops
    <3>3. bfCount' \in Nat /\ bfCount' # 0
      BY <2>2 DEF BatchTyped
    <3> QED
      BY <3>1, <3>2, <3>3, <2>2 DEF BatchTyped
  <2>4. TodoUntouched'
    BY <2>1, <2>2 DEF TodoUntouched, Exists, Batched, ListedFiles, Extras
  <2>5. DedupeKeeps'
    <3> SUFFICES ASSUME op = "dedupe" PROVE DedupeKeeps'
      BY <2>2 DEF DedupeKeeps
    <3>1. \A p \in Extras : ExtraBefore(p)'
      BY <2>2 DEF Extras, Twins, ListedFiles, ExtraBefore
    <3> QED
      BY <3>1, <2>2 DEF DedupeKeeps, Batched, Exists
  <2> QED
    BY <2>2, <2>3, <2>4, <2>5 DEF DoneSettled, VerdictEarned, NothingIsLost
<1>3. ASSUME NEW p \in Paths, Fails(p) \/ Treats(p) PROVE BatchInv'
  BY <1>3, FailsKeeps, TreatsKeeps
<1>4. CASE Aggregate
  <2>1. /\ bfBatch.op # "none" /\ bfBatch.todo = {} /\ bfFiles' = bfFiles /\ bfBefore' = bfBefore /\ bfCount' = bfCount
        /\ bfBatch' = [bfBatch EXCEPT !.verdict = IF BatchVerified THEN "success" ELSE "failure"]
    BY <1>4 DEF Aggregate
  <2>2. /\ bfBatch' \in Batches /\ bfBatch'.op = bfBatch.op /\ bfBatch'.todo = bfBatch.todo
        /\ bfBatch'.done = bfBatch.done /\ (bfBatch'.verdict = "success" => BatchVerified)
    BY <2>1 DEF BatchTyped, Batches
  <2>3. \A u : PageSettled(u)' <=> PageSettled(u)
    BY <2>1, <2>2 DEF PageSettled, Target, Exists
  <2>4. DoneSettled'
    BY <2>2, <2>3 DEF DoneSettled
  <2>5. VerdictEarned'
    BY <2>1, <2>2 DEF VerdictEarned, BatchVerified
  <2> QED
    BY <2>1, <2>2, <2>4, <2>5 DEF BatchTyped, TodoUntouched, DedupeKeeps, ExtraBefore, NothingIsLost, Exists
<1>5. CASE Return
  <2>1. bfBatch' = NoBatch /\ bfFiles' = bfFiles /\ bfBefore' = bfBefore /\ bfCount' = bfCount
    BY <1>5 DEF Return
  <2>2. NoBatch \in Batches
    BY DEF NoBatch, Batches
  <2> QED
    BY <2>1, <2>2 DEF BatchTyped, TodoUntouched, DoneSettled, DedupeKeeps, VerdictEarned, NothingIsLost, NoBatch
<1>6. CASE UNCHANGED bfVars
  BY <1>6 DEF bfVars, BatchTyped, TodoUntouched, DoneSettled, PageSettled, Target, DedupeKeeps, ExtraBefore,
              VerdictEarned, NothingIsLost, Exists
<1> QED
  BY <1>1, <1>2, <1>3, <1>4, <1>5, <1>6 DEF BulkNext

\* Whatever items fail and in whatever order they are treated, no batch but a
\* deletion or organize loses the last file of a content, and a batch that
\* reports success has every file where it was to go (bulk-files.ts aggregate,
\* groupByContent).
THEOREM BatchAlwaysTrue == BulkSpec => []BatchIsTrue
<1>1. BulkInit => BatchInv
  <2> SUFFICES ASSUME BulkInit PROVE BatchInv
    OBVIOUS
  <2>1. bfBatch = NoBatch /\ bfCount = 0 /\ DOMAIN bfFiles = {} /\ bfBefore = bfFiles
    BY DEF BulkInit, NoFiles
  <2>2. NoBatch \in Batches
    BY DEF NoBatch, Batches
  <2> QED
    BY <2>1, <2>2 DEF BatchInv, BatchTyped, TodoUntouched, DoneSettled, DedupeKeeps, VerdictEarned, NothingIsLost, NoBatch
<1>2. BatchInv => BatchIsTrue
  BY DEF BatchInv, BatchIsTrue, SuccessIsComplete, VerdictEarned, DoneSettled, PageSettled
<1> QED
  BY <1>1, <1>2, BatchKept, PTL DEF BulkSpec
-----------------------------------------------------------------------------
(* Cloud deployments *)

\* The control points of a machine, the states of a record, and the types of
\* records, machines and the provider's instances.
Pcs == {"validate", "lookup", "list", "create", "answer", "poll", "unwind", "over",
        "INSTALLING_RUNTIME", "DOWNLOADING_MODEL", "VERIFYING_MODEL", "STARTING_SERVER",
        "HEALTH_CHECK", "INFERENCE_TEST", "CONNECTING_BRAIN"}
RecordStates == {"none", "gone", "VALIDATING", "PREPARING", "READY", "FAILED", "CANCELLED",
           "INSTALLING_RUNTIME", "DOWNLOADING_MODEL", "VERIFYING_MODEL", "STARTING_SERVER",
           "HEALTH_CHECK", "INFERENCE_TEST", "CONNECTING_BRAIN"}
Records == [state : RecordStates, inst : Nat]
Machines == [of : DpIds, pc : Pcs, inst : Nat]
Instances == [token : DpIds, state : {"provisioning", "running", "terminated"}]
\* The points at which a machine polls or installs on its instance, and the
\* moments of a cancel that a READY may follow.
Driving == Pcs \ {"validate", "lookup", "list", "create", "answer", "unwind", "over"}
LateAsks == {"no", "INFERENCE_TEST", "CONNECTING_BRAIN"}

\* A deployment's instances, and those of them that are paid for.
InstancesOf(d) == {i \in DOMAIN dpCloud : dpCloud[i].token = d}
LiveOf(d) == {i \in InstancesOf(d) : dpCloud[i].state # "terminated"}

DeploymentTyped ==
  /\ dpMach \in Seq(Machines) /\ dpCloud \in Seq(Instances)
  /\ dpRec \in [DpIds -> Records] /\ dpAsked \in [DpIds -> RecordStates \cup {"no"}]
  /\ \A m \in DOMAIN dpMach : dpRec[Mine(m)].state # "none"

\* What a record of this state and instance says of the cloud.
RecordGood(d, st, inst) ==
  /\ st \in {"none", "VALIDATING"} => inst = 0 /\ InstancesOf(d) = {}
  /\ inst # 0 => inst \in InstancesOf(d)
  /\ st = "READY" => dpAsked[d] \in LateAsks
  /\ st = "CANCELLED" => LiveOf(d) \subseteq dpLeaked

\* What the machine that drives a deployment knows, where it stands.
MachineGood(d, st, stored, pc, inst) ==
  /\ st \notin Terminal \cup {"none"}
  /\ st = "VALIDATING" => pc \in {"validate", "unwind"}
  /\ pc = "validate" => inst = 0 /\ InstancesOf(d) = {}
  /\ pc = "create" => LiveOf(d) = {}
  /\ pc = "answer" => inst \in InstancesOf(d)
  /\ pc \in Driving \cup {"lookup"} => inst = stored /\ inst # 0
  /\ pc \in Driving \cup {"answer", "unwind"} => LiveOf(d) \subseteq {inst}
  /\ pc \in {"INFERENCE_TEST", "CONNECTING_BRAIN"} =>
       st \in {pc, "gone"} /\ dpAsked[d] \in LateAsks

\* A deployment that one machine at a time has driven.
DrivenWell(d) ==
  /\ \A m, n \in MachinesOf(d) : m = n
  /\ \A i, j \in LiveOf(d) : i = j
  /\ RecordGood(d, dpRec[d].state, dpRec[d].inst)
  /\ \A m \in MachinesOf(d) :
       MachineGood(d, dpRec[d].state, dpRec[d].inst, dpMach[m].pc, dpMach[m].inst)

DeploymentInv ==
  DeploymentTyped /\ \A d \in DpIds : d \notin dpMixed => DrivenWell(d)

-----------------------------------------------------------------------------
\* A step of a machine: its deployment's record and itself, and nothing else.
Moves(m, st, stored, pc, inst) ==
  /\ dpRec' \in [DpIds -> Records] /\ dpMach' \in Seq(Machines) /\ DOMAIN dpMach' = DOMAIN dpMach
  /\ dpRec'[Mine(m)] = [state |-> st, inst |-> stored]
  /\ \A d \in DpIds : d # Mine(m) => dpRec'[d] = dpRec[d]
  /\ dpMach'[m] = [of |-> Mine(m), pc |-> pc, inst |-> inst]
  /\ \A n \in DOMAIN dpMach : n # m => dpMach'[n] = dpMach[n]

\* A step to a record and a place that are as they should be.
GoodMove(m) ==
  \E st \in RecordStates \ {"none"}, stored \in Nat, pc \in Pcs, inst \in Nat :
    /\ Moves(m, st, stored, pc, inst)
    /\ Mine(m) \notin dpMixed =>
         /\ RecordGood(Mine(m), st, stored)
         /\ pc # "over" => MachineGood(Mine(m), st, stored, pc, inst)

\* A machine, its deployment and its record have their types.
LEMMA MachineTyped ==
  ASSUME DeploymentTyped, NEW m \in DOMAIN dpMach
  PROVE  /\ dpMach[m] \in Machines /\ dpMach[m].of = Mine(m) /\ Mine(m) \in DpIds
         /\ dpRec[Mine(m)] \in Records /\ dpRec[Mine(m)].state # "none"
<1>1. m \in 1..Len(dpMach) /\ dpMach \in Seq(Machines)
  BY LenProperties DEF DeploymentTyped
<1>2. dpMach[m] \in Machines
  BY <1>1, ElementOfSeq
<1> QED
  BY <1>2 DEF DeploymentTyped, Machines, Mine

\* A machine in a sequence of machines gets another place and instance.
LEMMA MachineChanged ==
  ASSUME DeploymentTyped, NEW m \in DOMAIN dpMach, NEW pc \in Pcs, NEW inst \in Nat,
         \/ dpMach' = [dpMach EXCEPT ![m].pc = pc, ![m].inst = inst]
         \/ dpMach' = [dpMach EXCEPT ![m].pc = pc] /\ inst = dpMach[m].inst
  PROVE  /\ dpMach' \in Seq(Machines) /\ DOMAIN dpMach' = DOMAIN dpMach
         /\ dpMach'[m] = [of |-> Mine(m), pc |-> pc, inst |-> inst]
         /\ \A n \in DOMAIN dpMach : n # m => dpMach'[n] = dpMach[n]
<1> DEFINE x == [of |-> Mine(m), pc |-> pc, inst |-> inst]
<1>1. dpMach[m] \in Machines /\ x \in Machines
  BY MachineTyped DEF Machines
<1>2. dpMach \in Seq(Machines) /\ dpMach \in [1..Len(dpMach) -> Machines] /\ DOMAIN dpMach = 1..Len(dpMach)
  BY LenProperties DEF DeploymentTyped
<1>3. dpMach' = [dpMach EXCEPT ![m] = x]
  BY <1>1, <1>2 DEF Machines, Mine
<1> HIDE DEF x
<1>4. [dpMach EXCEPT ![m] = x] \in Seq(Machines)
  BY <1>1, <1>2, ExceptSeq
<1>5. DOMAIN dpMach' = DOMAIN dpMach /\ dpMach'[m] = x /\ \A n \in DOMAIN dpMach : n # m => dpMach'[n] = dpMach[n]
  BY <1>2, <1>3
<1> QED
  BY <1>3, <1>4, <1>5 DEF x

\* A machine's step leaves every other deployment as it was, and its own well
\* driven if what it moved to is good in the cloud as it is then.
LEMMA MachineStepKeeps ==
  ASSUME DeploymentInv, NEW m \in DOMAIN dpMach, dpMach[m].pc # "over",
         NEW d \in DpIds, d = Mine(m),
         NEW st, NEW stored, NEW pc, NEW inst, Moves(m, st, stored, pc, inst), st # "none",
         dpCloud' \in Seq(Instances), dpAsked' = dpAsked, dpMixed' = dpMixed, dpLeaked \subseteq dpLeaked',
         \A e \in DpIds : e # d => InstancesOf(e)' = InstancesOf(e) /\ LiveOf(e)' \subseteq LiveOf(e),
         d \notin dpMixed =>
           /\ \A i, j \in LiveOf(d)' : i = j
           /\ RecordGood(d, st, stored)'
           /\ pc # "over" => MachineGood(d, st, stored, pc, inst)'
  PROVE  DeploymentInv'
<1> USE DEF DeploymentInv
<1>1. /\ DOMAIN dpMach' = DOMAIN dpMach
      /\ dpRec'[d] = [state |-> st, inst |-> stored]
      /\ \A e \in DpIds : e # d => dpRec'[e] = dpRec[e]
      /\ dpMach'[m] = [of |-> d, pc |-> pc, inst |-> inst]
      /\ \A n \in DOMAIN dpMach : n # m => dpMach'[n] = dpMach[n]
      /\ dpRec' \in [DpIds -> Records] /\ dpMach' \in Seq(Machines)
  BY DEF Moves
<1>2. \A n \in DOMAIN dpMach : dpMach'[n].of = dpMach[n].of /\ dpMach[n].of \in DpIds
  BY <1>1, MachineTyped DEF Mine
<1>3. DeploymentTyped'
  <2>1. \A n \in DOMAIN dpMach' : dpRec'[dpMach'[n].of].state # "none"
    <3> SUFFICES ASSUME NEW n \in DOMAIN dpMach' PROVE dpRec'[dpMach'[n].of].state # "none"
      OBVIOUS
    <3>1. dpRec[dpMach[n].of].state # "none" /\ dpMach'[n].of = dpMach[n].of /\ dpMach[n].of \in DpIds
      BY <1>1, <1>2 DEF DeploymentTyped, Mine
    <3> QED
      BY <3>1, <1>1
  <2> QED
    BY <1>1, <2>1 DEF DeploymentTyped, Mine
<1>4. ASSUME NEW e \in DpIds, e # d, e \notin dpMixed' PROVE DrivenWell(e)'
  <2>1. DrivenWell(e)
    BY <1>4
  <2>2. \A n \in DOMAIN dpMach : dpMach[n].of = e => n # m
    BY <1>4 DEF Mine
  <2>3. MachinesOf(e)' = MachinesOf(e) /\ \A n \in MachinesOf(e) : dpMach'[n] = dpMach[n]
    BY <2>2, <1>1, <1>2 DEF MachinesOf
  <2>4. dpRec'[e] = dpRec[e] /\ InstancesOf(e)' = InstancesOf(e) /\ LiveOf(e)' \subseteq LiveOf(e)
    BY <1>4, <1>1
  <2>5. \A i, j \in LiveOf(e)' : i = j
    BY <2>1, <2>4 DEF DrivenWell
  <2>6. RecordGood(e, dpRec[e].state, dpRec[e].inst)'
    BY <2>1, <2>4 DEF DrivenWell, RecordGood
  <2>7. \A n \in MachinesOf(e)' : MachineGood(e, dpRec[e].state, dpRec[e].inst, dpMach[n].pc, dpMach[n].inst)'
    BY <2>1, <2>3, <2>4 DEF DrivenWell, MachineGood
  <2> QED
    BY <2>1, <2>3, <2>5, <2>6, <2>7 DEF DrivenWell
<1>5. ASSUME d \notin dpMixed' PROVE DrivenWell(d)'
  <2>1. DrivenWell(d)
    BY <1>5
  <2>2. \A n \in MachinesOf(d) : n = m
    BY <2>1 DEF DrivenWell, MachinesOf, Mine
  <2>3. \A n \in MachinesOf(d)' : n = m /\ pc # "over"
    BY <2>2, <1>1, <1>2 DEF MachinesOf
  <2>4. dpRec'[d].state = st /\ dpRec'[d].inst = stored /\ dpMach'[m].pc = pc /\ dpMach'[m].inst = inst
    BY <1>1
  <2>5. RecordGood(d, dpRec[d].state, dpRec[d].inst)'
    BY <1>5, <2>4 DEF RecordGood
  <2>6. \A n \in MachinesOf(d)' : MachineGood(d, dpRec[d].state, dpRec[d].inst, dpMach[n].pc, dpMach[n].inst)'
    BY <1>5, <2>3, <2>4 DEF MachineGood
  <2> QED
    BY <1>5, <2>3, <2>5, <2>6 DEF DrivenWell
<1> QED
  BY <1>3, <1>4, <1>5

\* The steps that leave the cloud alone.
LEMMA QuietMoveKeeps ==
  ASSUME DeploymentInv, NEW m \in DOMAIN dpMach, dpMach[m].pc # "over", GoodMove(m),
         UNCHANGED <<dpAsked, dpCloud, dpMixed, dpLeaked>>
  PROVE  DeploymentInv'
<1>1. PICK st \in RecordStates \ {"none"}, stored \in Nat, pc \in Pcs, inst \in Nat :
        /\ Moves(m, st, stored, pc, inst)
        /\ Mine(m) \notin dpMixed =>
             /\ RecordGood(Mine(m), st, stored)
             /\ pc # "over" => MachineGood(Mine(m), st, stored, pc, inst)
  BY DEF GoodMove
<1>2. PICK d \in DpIds : d = Mine(m)
  BY MachineTyped DEF DeploymentInv
<1>3. \A e : InstancesOf(e)' = InstancesOf(e) /\ LiveOf(e)' = LiveOf(e)
  BY DEF InstancesOf, LiveOf
<1>4. ASSUME d \notin dpMixed
      PROVE  /\ \A i, j \in LiveOf(d)' : i = j
             /\ RecordGood(d, st, stored)'
             /\ pc # "over" => MachineGood(d, st, stored, pc, inst)'
  <2>1. \A i, j \in LiveOf(d)' : i = j
    BY <1>3, <1>4 DEF DeploymentInv, DrivenWell
  <2>2. RecordGood(d, st, stored)'
    BY <1>1, <1>2, <1>3, <1>4 DEF RecordGood
  <2>3. pc # "over" => MachineGood(d, st, stored, pc, inst)'
    BY <1>1, <1>2, <1>3, <1>4 DEF MachineGood
  <2> QED
    BY <2>1, <2>2, <2>3
<1>5. dpCloud' \in Seq(Instances)
  BY DEF DeploymentInv, DeploymentTyped
<1> QED
  BY <1>1, <1>2, <1>3, <1>4, <1>5, MachineStepKeeps

\* patch writes the record and moves on, or halts on a record that vanished.
LEMMA PatchGood ==
  ASSUME DeploymentInv, NEW m \in DOMAIN dpMach, dpMach[m].pc # "over",
         NEW st \in RecordStates \ {"none"}, NEW inst \in Nat, NEW pc \in Pcs, Patch(m, st, inst, pc),
         Mine(m) \notin dpMixed /\ dpRec[Mine(m)].state # "gone" =>
           /\ RecordGood(Mine(m), st, inst)
           /\ pc # "over" => MachineGood(Mine(m), st, inst, pc, inst)
  PROVE  GoodMove(m)
<1> DEFINE d == Mine(m)
<1>1. /\ d \in DpIds /\ dpMach[m] \in Machines /\ dpRec \in [DpIds -> Records]
      /\ dpRec[d] \in Records /\ dpRec[d].state # "none" /\ dpMach[m].of = d /\ DeploymentTyped
  BY MachineTyped DEF DeploymentInv, DeploymentTyped
<1>2. CASE dpRec[d].state \in NotStored
  <2>1. dpMach' = [dpMach EXCEPT ![m].pc = "over"] /\ dpRec' = dpRec /\ dpRec[d].state = "gone"
    BY <1>2, <1>1 DEF Patch, NotStored
  <2>2. "over" \in Pcs /\ dpMach[m].inst \in Nat
    BY <1>1 DEF Machines, Pcs
  <2>3. /\ dpMach' \in Seq(Machines) /\ DOMAIN dpMach' = DOMAIN dpMach
        /\ dpMach'[m] = [of |-> d, pc |-> "over", inst |-> dpMach[m].inst]
        /\ \A n \in DOMAIN dpMach : n # m => dpMach'[n] = dpMach[n]
    BY <2>1, <2>2, <1>1, MachineChanged
  <2>4. dpRec[d] = [state |-> dpRec[d].state, inst |-> dpRec[d].inst]
    BY <1>1 DEF Records
  <2>5. Moves(m, "gone", dpRec[d].inst, "over", dpMach[m].inst)
    BY <2>1, <2>2, <2>3, <2>4, <1>1 DEF Moves
  <2>6. d \notin dpMixed => RecordGood(d, "gone", dpRec[d].inst)
    BY <2>1, <1>1 DEF DeploymentInv, DrivenWell, RecordGood
  <2>7. dpRec[d].inst \in Nat /\ dpMach[m].inst \in Nat
    BY <1>1 DEF Records, Machines
  <2> QED
    BY <2>5, <2>6, <2>7 DEF GoodMove, RecordStates, Pcs
<1>3. CASE dpRec[d].state \notin NotStored
  <2>1. /\ dpRec' = [dpRec EXCEPT ![d] = [state |-> st, inst |-> inst]]
        /\ dpMach' = [dpMach EXCEPT ![m].pc = pc, ![m].inst = inst] /\ dpRec[d].state # "gone"
    BY <1>3 DEF Patch, NotStored
  <2>2. [state |-> st, inst |-> inst] \in Records
    BY <1>1 DEF Records
  <2>3. /\ dpMach' \in Seq(Machines) /\ DOMAIN dpMach' = DOMAIN dpMach
        /\ dpMach'[m] = [of |-> d, pc |-> pc, inst |-> inst]
        /\ \A n \in DOMAIN dpMach : n # m => dpMach'[n] = dpMach[n]
    BY <2>1, <1>1, MachineChanged
  <2>4. Moves(m, st, inst, pc, inst)
    BY <2>1, <2>2, <2>3, <1>1 DEF Moves
  <2> QED
    BY <2>1, <2>4 DEF GoodMove
<1> QED
  BY <1>2, <1>3

\* Waiting elsewhere leaves the record alone.
LEMMA WaitGood ==
  ASSUME DeploymentInv, NEW m \in DOMAIN dpMach, dpMach[m].pc # "over",
         NEW pc \in Pcs \ {"over"}, Wait(m, pc),
         Mine(m) \notin dpMixed =>
           MachineGood(Mine(m), dpRec[Mine(m)].state, Stored(m), pc, dpMach[m].inst)
  PROVE  GoodMove(m)
<1> DEFINE d == Mine(m)
<1>1. /\ d \in DpIds /\ dpMach[m] \in Machines /\ dpRec \in [DpIds -> Records]
      /\ dpRec[d] \in Records /\ dpRec[d].state # "none" /\ dpMach[m].of = d /\ DeploymentTyped
  BY MachineTyped DEF DeploymentInv, DeploymentTyped
<1>2. dpMach' = [dpMach EXCEPT ![m].pc = pc] /\ dpRec' = dpRec
  BY DEF Wait
<1>3. dpMach[m].inst \in Nat
  BY <1>1 DEF Machines
<1>4. /\ dpMach' \in Seq(Machines) /\ DOMAIN dpMach' = DOMAIN dpMach
      /\ dpMach'[m] = [of |-> d, pc |-> pc, inst |-> dpMach[m].inst]
      /\ \A n \in DOMAIN dpMach : n # m => dpMach'[n] = dpMach[n]
  BY <1>1, <1>2, <1>3, MachineChanged
<1>5. dpRec[d] = [state |-> dpRec[d].state, inst |-> dpRec[d].inst]
  BY <1>1 DEF Records
<1>6. Moves(m, dpRec[d].state, dpRec[d].inst, pc, dpMach[m].inst)
  BY <1>1, <1>2, <1>3, <1>4, <1>5 DEF Moves
<1>7. d \notin dpMixed => RecordGood(d, dpRec[d].state, dpRec[d].inst)
  BY <1>1 DEF DeploymentInv, DrivenWell
<1>8. dpRec[d].inst \in Nat /\ dpMach[m].inst \in Nat /\ dpRec[d].state \in RecordStates \ {"none"}
  BY <1>1 DEF Records, Machines
<1> QED
  BY <1>6, <1>7, <1>8 DEF GoodMove, Stored

\* The instance is known: it is the only live one.
LEMMA KnownGood ==
  ASSUME DeploymentInv, NEW m \in DOMAIN dpMach, dpMach[m].pc # "over",
         NEW inst \in Nat, NEW running \in BOOLEAN, KnownAs(m, inst, running),
         Mine(m) \notin dpMixed =>
           /\ inst # 0 /\ inst \in InstancesOf(Mine(m)) /\ LiveOf(Mine(m)) \subseteq {inst}
           /\ dpRec[Mine(m)].state \notin Terminal \cup {"none", "VALIDATING"}
  PROVE  GoodMove(m)
<1>1. CASE ~running
  <2>1. Patch(m, "PREPARING", inst, "poll")
    BY <1>1 DEF KnownAs
  <2>2. "PREPARING" \in RecordStates \ {"none"} /\ "poll" \in Pcs
    BY DEF RecordStates, Pcs
  <2>3. Mine(m) \notin dpMixed =>
          RecordGood(Mine(m), "PREPARING", inst) /\ MachineGood(Mine(m), "PREPARING", inst, "poll", inst)
    BY DEF RecordGood, MachineGood, Terminal, Driving, Pcs
  <2> QED
    BY <2>1, <2>2, <2>3, PatchGood
<1>2. CASE running /\ dpAsked[Mine(m)] # "no"
  <2>1. Patch(m, dpRec[Mine(m)].state, inst, "unwind")
    BY <1>2 DEF KnownAs
  <2>2. dpRec[Mine(m)].state \in RecordStates \ {"none"} /\ "unwind" \in Pcs
    BY MachineTyped DEF DeploymentInv, Records, Pcs
  <2>3. Mine(m) \notin dpMixed =>
          /\ RecordGood(Mine(m), dpRec[Mine(m)].state, inst)
          /\ MachineGood(Mine(m), dpRec[Mine(m)].state, inst, "unwind", inst)
    BY DEF RecordGood, MachineGood, Terminal, Driving, Pcs
  <2> QED
    BY <2>1, <2>2, <2>3, PatchGood
<1>3. CASE running /\ dpAsked[Mine(m)] = "no"
  <2>1. Patch(m, "INSTALLING_RUNTIME", inst, "INSTALLING_RUNTIME")
    BY <1>3 DEF KnownAs
  <2>2. "INSTALLING_RUNTIME" \in RecordStates \ {"none"} /\ "INSTALLING_RUNTIME" \in Pcs
    BY DEF RecordStates, Pcs
  <2>3. Mine(m) \notin dpMixed =>
          /\ RecordGood(Mine(m), "INSTALLING_RUNTIME", inst)
          /\ MachineGood(Mine(m), "INSTALLING_RUNTIME", inst, "INSTALLING_RUNTIME", inst)
    BY DEF RecordGood, MachineGood, Terminal, Driving, Pcs
  <2> QED
    BY <2>1, <2>2, <2>3, PatchGood
<1> QED
  BY <1>1, <1>2, <1>3

\* What a machine at an await knows of its deployment.
LEMMA MachineKnows ==
  ASSUME DeploymentInv, NEW m \in DOMAIN dpMach, dpMach[m].pc # "over"
  PROVE  /\ Stored(m) \in Nat /\ dpMach[m].inst \in Nat /\ dpMach[m].pc \in Pcs
         /\ dpRec[Mine(m)].state \in RecordStates
         /\ Mine(m) \notin dpMixed =>
              /\ RecordGood(Mine(m), dpRec[Mine(m)].state, Stored(m))
              /\ MachineGood(Mine(m), dpRec[Mine(m)].state, Stored(m), dpMach[m].pc, dpMach[m].inst)
              /\ \A i, j \in LiveOf(Mine(m)) : i = j
<1>1. /\ dpMach[m] \in Machines /\ dpMach[m].of = Mine(m) /\ Mine(m) \in DpIds /\ dpRec[Mine(m)] \in Records
  BY MachineTyped DEF DeploymentInv
<1>2. m \in MachinesOf(Mine(m))
  BY <1>1 DEF MachinesOf
<1> QED
  BY <1>1, <1>2 DEF DeploymentInv, DrivenWell, Stored, Machines, Records

\* Every step of a machine that leaves the cloud alone is a good move.
LEMMA MachineStepsGood ==
  ASSUME DeploymentInv, NEW m \in DOMAIN dpMach, MachineSteps(m)
  PROVE  dpMach[m].pc # "over" /\ GoodMove(m)
<1> DEFINE d == Mine(m)
           st == dpRec[d].state
           inst == dpMach[m].inst
<1>0. dpMach[m].pc # "over"
  BY DEF MachineSteps, CredentialsValidated, LookedUp, InstancesListed, InstanceLaunched, InstancePolled,
         TunnelProbed, WaitBroken, Inferred, Connected, Failed, MachineAt, After
<1>1. /\ Stored(m) \in Nat /\ inst \in Nat /\ dpMach[m].pc \in Pcs /\ st \in RecordStates
      /\ d \notin dpMixed =>
           /\ RecordGood(d, st, Stored(m))
           /\ MachineGood(d, st, Stored(m), dpMach[m].pc, inst)
           /\ \A i, j \in LiveOf(d) : i = j
  BY <1>0, MachineKnows
<1>2. dpAsked[d] \in RecordStates \cup {"no"} /\ dpCloud \in Seq(Instances)
  BY MachineTyped DEF DeploymentInv, DeploymentTyped
<1> HIDE DEF d, st, inst
<1>3. CASE CredentialsValidated(m)
  <2>1. dpMach[m].pc = "validate" /\ "lookup" \in Pcs \ {"over"} /\ "unwind" \in Pcs \ {"over"} /\ "list" \in Pcs
    BY <1>3 DEF CredentialsValidated, MachineAt, Pcs
  <2>2. d \notin dpMixed => inst = 0 /\ InstancesOf(d) = {} /\ LiveOf(d) = {}
    BY <1>1, <2>1 DEF MachineGood, LiveOf
  <2>3. CASE dpAsked[d] # "no"
    <3>1. Wait(m, "unwind")
      BY <1>3, <2>3 DEF CredentialsValidated, Checked, d
    <3>2. d \notin dpMixed => MachineGood(d, st, Stored(m), "unwind", inst)
      BY <1>1, <2>1, <2>2 DEF MachineGood, Driving, Pcs
    <3> QED
      BY <3>1, <3>2, <2>1, <1>0, WaitGood DEF d, st, inst
  <2>4. CASE dpAsked[d] = "no" /\ inst # 0
    <3>1. Wait(m, "lookup")
      BY <1>3, <2>4 DEF CredentialsValidated, Checked, d, inst
    <3>2. d \in dpMixed
      BY <2>4, <2>2
    <3> QED
      BY <3>1, <3>2, <2>1, <1>0, WaitGood DEF d, st, inst
  <2>5. CASE dpAsked[d] = "no" /\ inst = 0
    <3>1. Patch(m, "PREPARING", Stored(m), "list")
      BY <1>3, <2>5 DEF CredentialsValidated, Checked, d, inst
    <3>2. d \notin dpMixed => RecordGood(d, "PREPARING", Stored(m))
                              /\ MachineGood(d, "PREPARING", Stored(m), "list", Stored(m))
      BY <1>1 DEF RecordGood, MachineGood, Driving, Pcs, Terminal
    <3>3. "PREPARING" \in RecordStates \ {"none"}
      BY DEF RecordStates
    <3> QED
      BY <3>1, <3>2, <3>3, <2>1, <1>0, <1>1, PatchGood DEF d, st, inst
  <2> QED
    BY <2>3, <2>4, <2>5
<1>4. CASE LookedUp(m)
  <2>1. dpMach[m].pc = "lookup"
    BY <1>4 DEF LookedUp, MachineAt
  <2>2. CASE dpCloud[inst].state = "terminated"
    <3>1. Patch(m, "PREPARING", Stored(m), "list")
      BY <1>4, <2>2 DEF LookedUp, inst
    <3>2. d \notin dpMixed => RecordGood(d, "PREPARING", Stored(m))
                              /\ MachineGood(d, "PREPARING", Stored(m), "list", Stored(m))
      BY <1>1 DEF RecordGood, MachineGood, Driving, Pcs, Terminal
    <3>3. "PREPARING" \in RecordStates \ {"none"} /\ "list" \in Pcs
      BY DEF RecordStates, Pcs
    <3> QED
      BY <3>1, <3>2, <3>3, <1>0, <1>1, PatchGood DEF d, st, inst
  <2>3. CASE dpCloud[inst].state # "terminated"
    <3>1. KnownAs(m, Stored(m), dpCloud[inst].state = "running")
      BY <1>4, <2>3 DEF LookedUp, inst
    <3>2. d \notin dpMixed => inst = Stored(m) /\ inst # 0 /\ inst \in InstancesOf(d)
                              /\ st \notin Terminal \cup {"none", "VALIDATING"}
      BY <1>1, <2>1 DEF MachineGood, RecordGood, Driving, Pcs
    <3>3. d \notin dpMixed => LiveOf(d) \subseteq {Stored(m)}
      BY <3>2, <2>3, <1>1 DEF LiveOf
    <3>4. (dpCloud[inst].state = "running") \in BOOLEAN
      OBVIOUS
    <3> QED
      BY <3>1, <3>2, <3>3, <3>4, <1>0, <1>1, KnownGood DEF d, st
  <2> QED
    BY <2>2, <2>3
<1>5. CASE InstancesListed(m)
  <2>1. dpMach[m].pc = "list"
    BY <1>5 DEF InstancesListed, MachineAt
  <2> DEFINE mine == {i \in DOMAIN dpCloud : dpCloud[i].token = Mine(m) /\ dpCloud[i].state # "terminated"}
  <2>2. mine = LiveOf(d)
    BY DEF LiveOf, InstancesOf, d
  <2>3. d \notin dpMixed => st \notin Terminal \cup {"none", "VALIDATING"}
    BY <1>1, <2>1 DEF MachineGood
  <2>4. CASE mine = {}
    <3>1. Wait(m, "create")
      BY <1>5, <2>4 DEF InstancesListed
    <3>2. d \notin dpMixed => MachineGood(d, st, Stored(m), "create", inst)
      BY <2>2, <2>3, <2>4 DEF MachineGood, Driving, Pcs
    <3> QED
      BY <3>1, <3>2, <1>0, WaitGood DEF d, st, inst, Pcs
  <2>5. CASE mine # {}
    <3>1. PICK i \in mine : KnownAs(m, i, dpCloud[i].state = "running")
      BY <1>5, <2>5 DEF InstancesListed
    <3>2. i \in Nat /\ i # 0
      BY <1>2, LenProperties
    <3>3. d \notin dpMixed => i \in InstancesOf(d) /\ LiveOf(d) \subseteq {i}
      BY <1>1, <2>2 DEF LiveOf
    <3>4. (dpCloud[i].state = "running") \in BOOLEAN
      OBVIOUS
    <3> QED
      BY <3>1, <3>2, <3>3, <3>4, <2>3, <1>0, KnownGood DEF d, st
  <2> QED
    BY <2>4, <2>5
<1>6. CASE InstanceLaunched(m)
  <2>1. dpMach[m].pc = "answer" /\ KnownAs(m, inst, FALSE)
    BY <1>6 DEF InstanceLaunched, MachineAt, inst
  <2>2. d \notin dpMixed => inst \in InstancesOf(d) /\ LiveOf(d) \subseteq {inst}
                            /\ st \notin Terminal \cup {"none", "VALIDATING"}
    BY <1>1, <2>1 DEF MachineGood
  <2>3. d \notin dpMixed => inst # 0
    BY <2>2, <1>2, LenProperties DEF InstancesOf
  <2> QED
    BY <2>1, <2>2, <2>3, <1>0, <1>1, KnownGood DEF d, st
\* What holds at every await of the drive, from the poll to the inference test.
<1>7. ASSUME dpMach[m].pc \in Driving, d \notin dpMixed
      PROVE  /\ inst = Stored(m) /\ inst # 0 /\ inst \in InstancesOf(d) /\ LiveOf(d) \subseteq {inst}
             /\ st \notin Terminal \cup {"none", "VALIDATING"}
  <2>1. dpMach[m].pc \notin {"validate", "unwind"}
    BY <1>7 DEF Driving
  <2> QED
    BY <1>1, <1>7, <2>1 DEF MachineGood, RecordGood
<1>8. ASSUME dpMach[m].pc \in Driving, Wait(m, "unwind") PROVE GoodMove(m)
  <2>1. d \notin dpMixed => MachineGood(d, st, Stored(m), "unwind", inst)
    BY <1>7, <1>8 DEF MachineGood, Driving, Pcs
  <2> QED
    BY <2>1, <1>8, <1>0, WaitGood DEF d, st, inst, Pcs
<1>9. CASE InstancePolled(m)
  <2>1. dpMach[m].pc = "poll" /\ dpMach[m].pc \in Driving
    BY <1>9 DEF InstancePolled, MachineAt, Driving, Pcs
  <2>2. CASE dpAsked[d] # "no" /\ Wait(m, "unwind")
    BY <2>1, <2>2, <1>0, <1>8
  <2>3. CASE KnownAs(m, Stored(m), TRUE)
    BY <2>1, <2>3, <1>0, <1>1, <1>7, KnownGood DEF d, st
  <2> QED
    BY <1>9, <2>2, <2>3 DEF InstancePolled, Checked, d
\* The next stage of the drive, when no cancel was seen before it.
<1>10. ASSUME dpMach[m].pc \in Driving, NEW next \in Driving \cap RecordStates, Patch(m, next, Stored(m), next),
              d \notin dpMixed /\ next \in {"INFERENCE_TEST", "CONNECTING_BRAIN"} => dpAsked[d] \in LateAsks
       PROVE  GoodMove(m)
  <2>1. next \in RecordStates \ {"none"} /\ next \in Pcs /\ next \notin Terminal \cup {"none", "VALIDATING", "over"}
    BY <1>10 DEF Driving, RecordStates, Pcs, Terminal
  <2>2. d \notin dpMixed => RecordGood(d, next, Stored(m)) /\ MachineGood(d, next, Stored(m), next, Stored(m))
    <3> SUFFICES ASSUME d \notin dpMixed
                 PROVE  RecordGood(d, next, Stored(m)) /\ MachineGood(d, next, Stored(m), next, Stored(m))
      OBVIOUS
    <3>1. RecordGood(d, next, Stored(m))
      BY <1>7, <1>10, <2>1 DEF RecordGood, Terminal
    <3>2. next \notin {"validate", "create", "answer", "unwind", "lookup"}
      BY <1>10 DEF Driving
    <3>3. MachineGood(d, next, Stored(m), next, Stored(m))
      BY <1>7, <1>10, <2>1, <3>2 DEF MachineGood
    <3> QED
      BY <3>1, <3>3
  <2> QED
    BY <2>1, <2>2, <1>0, <1>1, <1>10, PatchGood DEF d
<1>11. CASE TunnelProbed(m)
  <2>1. dpMach[m].pc \in DOMAIN After /\ dpMach[m].pc \in Driving /\ After[dpMach[m].pc] \in Driving \cap RecordStates
    BY <1>11 DEF TunnelProbed, After, Driving, Pcs, RecordStates
  <2>2. CASE dpAsked[d] # "no"
    <3>1. Wait(m, "unwind")
      BY <1>11, <2>2 DEF TunnelProbed, Checked, d
    <3> QED
      BY <3>1, <2>1, <1>0, <1>8
  <2>3. CASE dpAsked[d] = "no"
    <3>1. Patch(m, After[dpMach[m].pc], Stored(m), After[dpMach[m].pc])
      BY <1>11, <2>3 DEF TunnelProbed, Checked, d
    <3>2. dpAsked[d] \in LateAsks
      BY <2>3 DEF LateAsks
    <3> QED
      BY <3>1, <3>2, <2>1, <1>0, <1>10
  <2> QED
    BY <2>2, <2>3
<1>12. CASE WaitBroken(m)
  <2>1. dpMach[m].pc \in Driving /\ Wait(m, "unwind")
    BY <1>12 DEF WaitBroken, MachineAt, Checked, Driving, Pcs
  <2> QED
    BY <2>1, <1>0, <1>8
<1>13. CASE Inferred(m)
  <2>1. dpMach[m].pc = "INFERENCE_TEST" /\ dpMach[m].pc \in Driving
        /\ Patch(m, "CONNECTING_BRAIN", Stored(m), "CONNECTING_BRAIN")
        /\ "CONNECTING_BRAIN" \in Driving \cap RecordStates
    BY <1>13 DEF Inferred, MachineAt, Driving, Pcs, RecordStates
  <2>2. d \notin dpMixed => dpAsked[d] \in LateAsks
    BY <2>1, <1>1 DEF MachineGood
  <2> QED
    BY <2>1, <2>2, <1>10
<1>14. CASE Connected(m)
  <2>1. dpMach[m].pc = "CONNECTING_BRAIN" /\ dpMach[m].pc \in Driving /\ Patch(m, "READY", Stored(m), "over")
    BY <1>14 DEF Connected, MachineAt, Driving, Pcs
  <2>2. d \notin dpMixed => RecordGood(d, "READY", Stored(m))
    BY <2>1, <1>1, <1>7 DEF MachineGood, RecordGood
  <2>3. "READY" \in RecordStates \ {"none"} /\ "over" \in Pcs
    BY DEF RecordStates, Pcs
  <2> QED
    BY <2>1, <2>2, <2>3, <1>0, <1>1, PatchGood DEF d
<1>15. CASE Failed(m)
  <2>1. Patch(m, "FAILED", Stored(m), "over")
    BY <1>15 DEF Failed
  <2>2. d \notin dpMixed => RecordGood(d, "FAILED", Stored(m))
    BY <1>1 DEF RecordGood
  <2>3. "FAILED" \in RecordStates \ {"none"} /\ "over" \in Pcs
    BY DEF RecordStates, Pcs
  <2> QED
    BY <2>1, <2>2, <2>3, <1>0, <1>1, PatchGood DEF d
<1> QED
  BY <1>0, <1>3, <1>4, <1>5, <1>6, <1>9, <1>11, <1>12, <1>13, <1>14, <1>15 DEF MachineSteps

\* The cloud got one more instance.
LEMMA InstanceAdded ==
  ASSUME DeploymentTyped, NEW d \in DpIds,
         dpCloud' = Append(dpCloud, [token |-> d, state |-> "provisioning"])
  PROVE  /\ dpCloud' \in Seq(Instances) /\ Len(dpCloud) + 1 \in Nat \ {0}
         /\ \A e \in DpIds : e # d => InstancesOf(e)' = InstancesOf(e) /\ LiveOf(e)' = LiveOf(e)
         /\ InstancesOf(d)' = InstancesOf(d) \cup {Len(dpCloud) + 1}
         /\ LiveOf(d)' = LiveOf(d) \cup {Len(dpCloud) + 1}
<1> DEFINE x == [token |-> d, state |-> "provisioning"]
           n == Len(dpCloud) + 1
<1>1. x \in Instances /\ dpCloud \in Seq(Instances) /\ x.token = d /\ x.state # "terminated"
  BY DEF Instances, DeploymentTyped
<1> HIDE DEF x
<1>2. Len(dpCloud) \in Nat /\ DOMAIN dpCloud = 1..Len(dpCloud)
  BY <1>1, LenProperties
<1>3. dpCloud' = Append(dpCloud, x)
  BY DEF x
<1>4. /\ dpCloud' \in Seq(Instances) /\ Len(dpCloud') = n
      /\ \A i \in 1..Len(dpCloud) : dpCloud'[i] = dpCloud[i]
      /\ dpCloud'[n] = x
  BY <1>1, <1>3, AppendProperties
<1>5. DOMAIN dpCloud' = (DOMAIN dpCloud) \cup {n} /\ n \notin DOMAIN dpCloud
  <2>1. DOMAIN dpCloud' = 1..n
    BY <1>4, LenProperties
  <2> QED
    BY <2>1, <1>2
<1>6. \A i \in DOMAIN dpCloud : dpCloud'[i] = dpCloud[i]
  BY <1>2, <1>4
<1> HIDE DEF n
<1>7. \A e \in DpIds : e # d => InstancesOf(e)' = InstancesOf(e) /\ LiveOf(e)' = LiveOf(e)
  BY <1>1, <1>4, <1>5, <1>6 DEF InstancesOf, LiveOf
<1>8. InstancesOf(d)' = InstancesOf(d) \cup {n} /\ LiveOf(d)' = LiveOf(d) \cup {n}
  BY <1>1, <1>4, <1>5, <1>6 DEF InstancesOf, LiveOf
<1>9. n \in Nat \ {0}
  BY <1>2 DEF n
<1> QED
  BY <1>4, <1>7, <1>8, <1>9 DEF n

\* An instance changes its state: the tokens stay, and only it can be live anew.
LEMMA InstanceChanged ==
  ASSUME DeploymentTyped, NEW i, NEW st \in {"running", "terminated"},
         dpCloud' = [dpCloud EXCEPT ![i].state = st]
  PROVE  /\ dpCloud' \in Seq(Instances)
         /\ \A e : InstancesOf(e)' = InstancesOf(e)
         /\ \A e : LiveOf(e)' \subseteq LiveOf(e) \cup {i}
         /\ st = "terminated" => \A e : LiveOf(e)' = LiveOf(e) \ {i}
         /\ i \in DOMAIN dpCloud /\ dpCloud[i].state # "terminated" => \A e : LiveOf(e)' \subseteq LiveOf(e)
<1>1. dpCloud \in Seq(Instances) /\ dpCloud \in [1..Len(dpCloud) -> Instances] /\ DOMAIN dpCloud = 1..Len(dpCloud)
  BY LenProperties DEF DeploymentTyped
<1>2. CASE i \notin DOMAIN dpCloud
  <2>1. dpCloud' = dpCloud
    BY <1>1, <1>2
  <2> QED
    BY <2>1, <1>1, <1>2 DEF InstancesOf, LiveOf
<1>3. CASE i \in DOMAIN dpCloud
  <2> DEFINE x == [dpCloud[i] EXCEPT !.state = st]
  <2>1. x \in Instances /\ x.token = dpCloud[i].token /\ x.state = st
    BY <1>1, <1>3 DEF Instances
  <2>2. dpCloud' = [dpCloud EXCEPT ![i] = x]
    BY <1>1, <1>3
  <2> HIDE DEF x
  <2>3. [dpCloud EXCEPT ![i] = x] \in Seq(Instances)
    BY <1>1, <1>3, <2>1, ExceptSeq
  <2>4. DOMAIN dpCloud' = DOMAIN dpCloud /\ dpCloud'[i] = x /\ \A j \in DOMAIN dpCloud : j # i => dpCloud'[j] = dpCloud[j]
    BY <1>1, <1>3, <2>2
  <2>5. \A e : InstancesOf(e)' = InstancesOf(e)
    BY <2>1, <2>4 DEF InstancesOf
  <2>6. \A j \in DOMAIN dpCloud : j # i => (dpCloud'[j].state # "terminated" <=> dpCloud[j].state # "terminated")
    BY <2>4
  <2>7. \A e : LiveOf(e)' = {j \in InstancesOf(e) : dpCloud'[j].state # "terminated"}
    BY <2>5 DEF LiveOf
  <2>8. \A e : LiveOf(e)' \subseteq LiveOf(e) \cup {i}
    BY <2>6, <2>7 DEF LiveOf, InstancesOf
  <2>9. ASSUME st = "terminated" PROVE \A e : LiveOf(e)' = LiveOf(e) \ {i}
    BY <2>1, <2>4, <2>6, <2>7, <2>9 DEF LiveOf, InstancesOf
  <2>10. ASSUME dpCloud[i].state # "terminated" PROVE \A e : LiveOf(e)' \subseteq LiveOf(e)
    BY <2>6, <2>7, <2>10 DEF LiveOf, InstancesOf
  <2> QED
    BY <2>2, <2>3, <2>5, <2>8, <2>9, <2>10
<1> QED
  BY <1>2, <1>3

\* A creation is asked for only when the deployment has no live instance.
LEMMA CreatedKeeps ==
  ASSUME DeploymentInv, NEW m \in DOMAIN dpMach, Created(m)
  PROVE  DeploymentInv'
<1>1. /\ dpMach[m].pc = "create" /\ dpMach[m].pc # "over"
      /\ dpMach' = [dpMach EXCEPT ![m].pc = "answer", ![m].inst = Len(dpCloud) + 1]
      /\ dpCloud' = Append(dpCloud, [token |-> Mine(m), state |-> "provisioning"])
      /\ UNCHANGED <<dpRec, dpAsked, dpMixed, dpLeaked>>
  BY DEF Created, MachineAt
<1>2. DeploymentTyped /\ Mine(m) \in DpIds /\ dpRec[Mine(m)] \in Records /\ dpRec[Mine(m)].state # "none"
      /\ dpRec \in [DpIds -> Records]
  BY MachineTyped DEF DeploymentInv, DeploymentTyped
<1>3. PICK d, n, st, stored : d \in DpIds /\ d = Mine(m) /\ n = Len(dpCloud) + 1 /\ st = dpRec[d].state /\ stored = Stored(m)
  BY <1>2
<1>4. /\ dpCloud' \in Seq(Instances) /\ n \in Nat \ {0}
      /\ \A e \in DpIds : e # d => InstancesOf(e)' = InstancesOf(e) /\ LiveOf(e)' = LiveOf(e)
      /\ InstancesOf(d)' = InstancesOf(d) \cup {n}
      /\ LiveOf(d)' = LiveOf(d) \cup {n}
  BY <1>1, <1>2, <1>3, InstanceAdded
<1>5. "answer" \in Pcs
  BY DEF Pcs
<1>6. /\ dpMach' \in Seq(Machines) /\ DOMAIN dpMach' = DOMAIN dpMach
      /\ dpMach'[m] = [of |-> d, pc |-> "answer", inst |-> n]
      /\ \A k \in DOMAIN dpMach : k # m => dpMach'[k] = dpMach[k]
  <2>1. dpMach' = [dpMach EXCEPT ![m].pc = "answer", ![m].inst = n] /\ n \in Nat
    BY <1>1, <1>3, <1>4
  <2>2. /\ dpMach' \in Seq(Machines) /\ DOMAIN dpMach' = DOMAIN dpMach
        /\ dpMach'[m] = [of |-> Mine(m), pc |-> "answer", inst |-> n]
        /\ \A k \in DOMAIN dpMach : k # m => dpMach'[k] = dpMach[k]
    BY <2>1, <1>2, <1>5, MachineChanged
  <2> QED
    BY <2>2, <1>3
<1>7. Moves(m, st, stored, "answer", n)
  <2>1. dpRec[d] = [state |-> st, inst |-> stored]
    BY <1>2, <1>3 DEF Records, Stored
  <2> QED
    BY <1>1, <1>2, <1>3, <1>6, <2>1 DEF Moves
<1>8. ASSUME d \notin dpMixed
      PROVE  /\ \A i, j \in LiveOf(d)' : i = j
             /\ RecordGood(d, st, stored)'
             /\ MachineGood(d, st, stored, "answer", n)'
  <2>1. RecordGood(d, st, stored) /\ MachineGood(d, st, stored, "create", dpMach[m].inst)
    BY <1>1, <1>3, <1>8, MachineKnows
  <2>2. LiveOf(d)' = {n} /\ st \notin Terminal \cup {"none", "VALIDATING"}
    BY <2>1, <1>4 DEF MachineGood
  <2>3. RecordGood(d, st, stored)'
    BY <2>1, <2>2, <1>1, <1>4 DEF RecordGood, Terminal
  <2>4. MachineGood(d, st, stored, "answer", n)'
    BY <2>2, <1>4 DEF MachineGood, Driving, Pcs
  <2> QED
    BY <2>2, <2>3, <2>4
<1> QED
  BY SMTT(30), <1>1, <1>2, <1>3, <1>4, <1>7, <1>8, MachineStepKeeps

\* The clean-up terminates the one instance there is, or leaks it.
LEMMA UnwoundKeeps ==
  ASSUME DeploymentInv, NEW m \in DOMAIN dpMach, NEW done \in BOOLEAN, Unwound(m, done)
  PROVE  DeploymentInv'
<1>1. /\ dpMach[m].pc = "unwind" /\ dpMach[m].pc # "over" /\ (dpMach[m].inst = 0 => done)
      /\ UNCHANGED <<dpAsked, dpMixed>> /\ Patch(m, "CANCELLED", Stored(m), "over")
      /\ dpCloud' = (IF dpMach[m].inst # 0 /\ done
                     THEN [dpCloud EXCEPT ![dpMach[m].inst].state = "terminated"] ELSE dpCloud)
      /\ dpLeaked' = (IF done THEN dpLeaked ELSE dpLeaked \cup {dpMach[m].inst})
  BY DEF Unwound, MachineAt
<1>2. DeploymentTyped /\ Mine(m) \in DpIds /\ dpCloud \in Seq(Instances)
  BY MachineTyped DEF DeploymentInv, DeploymentTyped
<1>3. PICK d, i : d \in DpIds /\ d = Mine(m) /\ i = dpMach[m].inst
  BY <1>2
<1>4. /\ dpCloud' \in Seq(Instances)
      /\ \A e : InstancesOf(e)' = InstancesOf(e)
      /\ \A e : LiveOf(e)' = IF i # 0 /\ done THEN LiveOf(e) \ {i} ELSE LiveOf(e)
  <2>1. CASE i # 0 /\ done
    <3>1. dpCloud' = [dpCloud EXCEPT ![i].state = "terminated"]
      BY <1>1, <1>3, <2>1
    <3> QED
      BY <3>1, <2>1, <1>2, InstanceChanged
  <2>2. CASE ~(i # 0 /\ done)
    <3>1. dpCloud' = dpCloud
      BY <1>1, <1>3, <2>2
    <3> QED
      BY <3>1, <2>2, <1>2 DEF InstancesOf, LiveOf
  <2> QED
    BY <2>1, <2>2
<1>5. "CANCELLED" \in RecordStates \ {"none"} /\ "over" \in Pcs /\ Stored(m) \in Nat
  BY <1>1, MachineKnows DEF RecordStates, Pcs
\* What is left after it: nothing live that did not leak.
<1>6. ASSUME d \notin dpMixed
      PROVE  /\ \A j, k \in LiveOf(d)' : j = k
             /\ LiveOf(d)' \subseteq dpLeaked'
             /\ Stored(m) # 0 => Stored(m) \in InstancesOf(d)
  <2>1. RecordGood(d, dpRec[d].state, Stored(m)) /\ LiveOf(d) \subseteq {i}
    BY <1>1, <1>3, <1>6, MachineKnows DEF MachineGood
  <2>2. 0 \notin LiveOf(d)
    BY <1>2, LenProperties DEF LiveOf, InstancesOf
  <2> QED
    BY <2>1, <2>2, <1>1, <1>3, <1>4 DEF RecordGood
\* The record is written, or had vanished.
<1>7. PICK st, stored, inst : st \in RecordStates \ {"none"} /\ Moves(m, st, stored, "over", inst)
                 /\ stored = Stored(m) /\ st \in {"CANCELLED", "gone"}
  <2>1. /\ dpMach[m] \in Machines /\ dpRec \in [DpIds -> Records] /\ dpRec[d] \in Records /\ dpRec[d].state # "none"
    BY <1>3, <1>2, MachineTyped DEF DeploymentTyped
  <2>2. dpMach[m].inst \in Nat
    BY <2>1 DEF Machines
  <2>3. CASE dpRec[d].state \in NotStored
    <3>1. dpMach' = [dpMach EXCEPT ![m].pc = "over"] /\ dpRec' = dpRec /\ dpRec[d].state = "gone"
      BY <2>1, <2>3, <1>1, <1>3 DEF Patch, NotStored
    <3>2. /\ dpMach' \in Seq(Machines) /\ DOMAIN dpMach' = DOMAIN dpMach
          /\ dpMach'[m] = [of |-> Mine(m), pc |-> "over", inst |-> dpMach[m].inst]
          /\ \A n \in DOMAIN dpMach : n # m => dpMach'[n] = dpMach[n]
      BY <3>1, <2>2, <1>2, <1>5, MachineChanged
    <3>3. dpRec[d] = [state |-> "gone", inst |-> Stored(m)]
      BY <2>1, <3>1, <1>3 DEF Records, Stored
    <3>4. Moves(m, "gone", Stored(m), "over", dpMach[m].inst)
      BY <3>1, <3>2, <3>3, <2>1, <1>3 DEF Moves
    <3> QED
      BY <3>4 DEF RecordStates
  <2>4. CASE dpRec[d].state \notin NotStored
    <3>1. /\ dpMach' = [dpMach EXCEPT ![m].pc = "over", ![m].inst = Stored(m)]
          /\ dpRec' = [dpRec EXCEPT ![d] = [state |-> "CANCELLED", inst |-> Stored(m)]]
      BY <2>4, <1>1, <1>3 DEF Patch
    <3>2. /\ dpMach' \in Seq(Machines) /\ DOMAIN dpMach' = DOMAIN dpMach
          /\ dpMach'[m] = [of |-> Mine(m), pc |-> "over", inst |-> Stored(m)]
          /\ \A n \in DOMAIN dpMach : n # m => dpMach'[n] = dpMach[n]
      BY <3>1, <1>2, <1>5, MachineChanged
    <3>3. [state |-> "CANCELLED", inst |-> Stored(m)] \in Records
      BY <1>5 DEF Records
    <3>4. Moves(m, "CANCELLED", Stored(m), "over", Stored(m))
      BY <3>1, <3>2, <3>3, <2>1, <1>3 DEF Moves
    <3> QED
      BY <3>4, <1>5
  <2> QED
    BY <2>3, <2>4
<1>8. ASSUME d \notin dpMixed PROVE RecordGood(d, st, stored)'
  BY <1>4, <1>6, <1>7, <1>8 DEF RecordGood
<1>9. dpLeaked \subseteq dpLeaked'
  BY <1>1
<1> QED
  BY <1>1, <1>3, <1>4, <1>6, <1>7, <1>8, <1>9, MachineStepKeeps

-----------------------------------------------------------------------------
\* An instance that runs or dies on its own.
LEMMA CloudKeeps ==
  ASSUME DeploymentInv, NEW i \in DOMAIN dpCloud, InstanceRuns(i) \/ InstanceDies(i)
  PROVE  DeploymentInv'
<1>1. /\ UNCHANGED <<dpRec, dpMach, dpAsked, dpMixed, dpLeaked>> /\ dpCloud[i].state # "terminated"
      /\ \E st \in {"running", "terminated"} : dpCloud' = [dpCloud EXCEPT ![i].state = st]
  BY DEF InstanceRuns, InstanceDies
<1>2. /\ dpCloud' \in Seq(Instances)
      /\ \A e : InstancesOf(e)' = InstancesOf(e)
      /\ \A e : LiveOf(e)' \subseteq LiveOf(e)
  BY <1>1, InstanceChanged DEF DeploymentInv
<1>3. DeploymentTyped'
  BY <1>1, <1>2 DEF DeploymentInv, DeploymentTyped, Mine
<1>4. ASSUME NEW d \in DpIds, d \notin dpMixed' PROVE DrivenWell(d)'
  <2>1. DrivenWell(d)
    BY <1>1, <1>4 DEF DeploymentInv
  <2>2. MachinesOf(d)' = MachinesOf(d)
    BY <1>1 DEF MachinesOf
  <2>3. RecordGood(d, dpRec[d].state, dpRec[d].inst)'
    BY <2>1, <1>1, <1>2 DEF DrivenWell, RecordGood
  <2>4. \A m \in MachinesOf(d)' : MachineGood(d, dpRec[d].state, dpRec[d].inst, dpMach[m].pc, dpMach[m].inst)'
    <3> SUFFICES ASSUME NEW m \in MachinesOf(d)
                 PROVE  MachineGood(d, dpRec[d].state, dpRec[d].inst, dpMach[m].pc, dpMach[m].inst)'
      BY <2>2
    <3>1. MachineGood(d, dpRec[d].state, dpRec[d].inst, dpMach[m].pc, dpMach[m].inst)
      BY <2>1 DEF DrivenWell
    <3>2. InstancesOf(d)' = InstancesOf(d) /\ LiveOf(d)' \subseteq LiveOf(d)
      BY <1>2
    <3> QED
      BY <3>1, <3>2, <1>1 DEF MachineGood
  <2> QED
    BY <2>1, <2>2, <2>3, <2>4, <1>2 DEF DrivenWell
<1> QED
  BY <1>3, <1>4 DEF DeploymentInv

\* A cancel is acknowledged in the state the record has then.
LEMMA CancelKeeps ==
  ASSUME DeploymentInv, NEW c \in DpIds, DeploymentCancel(c)
  PROVE  DeploymentInv'
<1>1. /\ UNCHANGED <<dpRec, dpMach, dpCloud, dpMixed, dpLeaked>>
      /\ dpRec[c].state \notin Terminal \cup NotStored
      /\ dpAsked' = [dpAsked EXCEPT ![c] = IF @ = "no" THEN dpRec[c].state ELSE @]
  BY DEF DeploymentCancel
<1>2. DeploymentTyped
  BY DEF DeploymentInv
<1>3. dpAsked' \in [DpIds -> RecordStates \cup {"no"}]
  <2>1. dpRec[c].state \in RecordStates /\ dpAsked \in [DpIds -> RecordStates \cup {"no"}]
    BY <1>2 DEF DeploymentTyped, Records
  <2> QED
    BY <2>1, <1>1
<1>4. \A e : InstancesOf(e)' = InstancesOf(e) /\ LiveOf(e)' = LiveOf(e) /\ MachinesOf(e)' = MachinesOf(e)
  BY <1>1 DEF InstancesOf, LiveOf, MachinesOf
<1>5. \A d \in DpIds : d # c => dpAsked'[d] = dpAsked[d]
  BY <1>1, <1>2 DEF DeploymentTyped
<1>6. dpAsked'[c] = IF dpAsked[c] = "no" THEN dpRec[c].state ELSE dpAsked[c]
  BY <1>1, <1>2 DEF DeploymentTyped
<1>7. DeploymentTyped'
  BY <1>1, <1>2, <1>3 DEF DeploymentTyped, Mine
<1>8. ASSUME NEW d \in DpIds, d \notin dpMixed' PROVE DrivenWell(d)'
  <2>1. DrivenWell(d)
    BY <1>1, <1>8 DEF DeploymentInv
  <2>2. d = c => dpRec[d].state \notin {"READY", "gone"}
    BY <1>1 DEF Terminal, NotStored
  <2>3. RecordGood(d, dpRec[d].state, dpRec[d].inst)'
    BY <2>1, <2>2, <1>1, <1>4, <1>5 DEF DrivenWell, RecordGood
  <2>4. ASSUME NEW m \in MachinesOf(d)
        PROVE  MachineGood(d, dpRec[d].state, dpRec[d].inst, dpMach[m].pc, dpMach[m].inst)'
    <3>1. MachineGood(d, dpRec[d].state, dpRec[d].inst, dpMach[m].pc, dpMach[m].inst)
      BY <2>1 DEF DrivenWell
    <3>2. dpMach[m].pc \in {"INFERENCE_TEST", "CONNECTING_BRAIN"} =>
            dpRec[d].state \in {dpMach[m].pc, "gone"} /\ dpAsked'[d] \in LateAsks
      <4>1. CASE d # c
        BY <4>1, <3>1, <1>5 DEF MachineGood
      <4>2. CASE d = c
        BY <4>2, <3>1, <2>2, <1>6 DEF MachineGood, LateAsks
      <4> QED
        BY <4>1, <4>2
    <3> QED
      BY <3>1, <3>2, <1>1, <1>4 DEF MachineGood
  <2> QED
    BY <2>1, <2>3, <2>4, <1>4 DEF DrivenWell
<1> QED
  BY <1>7, <1>8 DEF DeploymentInv

\* A lost store takes a record away; its machine finds out at its next patch.
LEMMA LostKeeps ==
  ASSUME DeploymentInv, NEW c \in DpIds, StoreLost(c)
  PROVE  DeploymentInv'
<1>1. /\ UNCHANGED <<dpMach, dpAsked, dpCloud, dpMixed, dpLeaked>>
      /\ dpRec[c].state \notin NotStored /\ dpRec' = [dpRec EXCEPT ![c].state = "gone"]
  BY DEF StoreLost
<1>2. DeploymentTyped
  BY DEF DeploymentInv
<1>3. dpRec \in [DpIds -> Records] /\ dpRec[c] \in Records
  BY <1>2 DEF DeploymentTyped
<1>4. /\ dpRec' \in [DpIds -> Records] /\ dpRec'[c].state = "gone" /\ dpRec'[c].inst = dpRec[c].inst
      /\ \A d \in DpIds : d # c => dpRec'[d] = dpRec[d]
  BY <1>1, <1>3 DEF Records, RecordStates
<1>5. \A e : InstancesOf(e)' = InstancesOf(e) /\ LiveOf(e)' = LiveOf(e) /\ MachinesOf(e)' = MachinesOf(e)
  BY <1>1 DEF InstancesOf, LiveOf, MachinesOf
<1>6. DeploymentTyped'
  <2>1. \A m \in DOMAIN dpMach : dpRec'[Mine(m)].state # "none"
    BY <1>2, <1>4, MachineTyped
  <2> QED
    BY <1>1, <1>2, <1>4, <2>1 DEF DeploymentTyped, Mine
<1>7. ASSUME NEW d \in DpIds, d \notin dpMixed' PROVE DrivenWell(d)'
  <2>1. DrivenWell(d)
    BY <1>1, <1>7 DEF DeploymentInv
  <2>2. RecordGood(d, dpRec[d].state, dpRec[d].inst)'
    BY <2>1, <1>1, <1>4, <1>5 DEF DrivenWell, RecordGood
  <2>3. ASSUME NEW m \in MachinesOf(d)
        PROVE  MachineGood(d, dpRec[d].state, dpRec[d].inst, dpMach[m].pc, dpMach[m].inst)'
    <3>1. MachineGood(d, dpRec[d].state, dpRec[d].inst, dpMach[m].pc, dpMach[m].inst)
      BY <2>1 DEF DrivenWell
    <3> QED
      BY <3>1, <1>1, <1>4, <1>5 DEF MachineGood, Terminal
  <2> QED
    BY <2>1, <2>2, <2>3, <1>1, <1>5 DEF DrivenWell
<1> QED
  BY <1>6, <1>7 DEF DeploymentInv

\* A crash ends every machine and forgets every cancel; the records stay.
LEMMA CrashKeeps ==
  ASSUME DeploymentInv, DeploymentCrash
  PROVE  DeploymentInv'
<1>1. /\ dpMach' = [m \in DOMAIN dpMach |-> [dpMach[m] EXCEPT !.pc = "over"]]
      /\ dpAsked' = [d \in DpIds |-> "no"]
      /\ UNCHANGED <<dpRec, dpCloud, dpMixed, dpLeaked>>
  BY DEF DeploymentCrash
<1>2. DeploymentTyped
  BY DEF DeploymentInv
<1>3. \A m \in DOMAIN dpMach : [dpMach[m] EXCEPT !.pc = "over"] \in Machines
                              /\ [dpMach[m] EXCEPT !.pc = "over"].of = dpMach[m].of
                              /\ [dpMach[m] EXCEPT !.pc = "over"].pc = "over"
  BY <1>2, MachineTyped DEF Machines, Pcs
<1>4. dpMach' \in Seq(Machines) /\ DOMAIN dpMach' = DOMAIN dpMach
  <2>1. Len(dpMach) \in Nat /\ DOMAIN dpMach = 1..Len(dpMach)
    BY <1>2, LenProperties DEF DeploymentTyped
  <2>2. dpMach' \in [1..Len(dpMach) -> Machines]
    BY <2>1, <1>1, <1>3
  <2> QED
    BY <2>1, <2>2
<1>5. \A m \in DOMAIN dpMach' : dpMach'[m].of = dpMach[m].of /\ dpMach'[m].pc = "over"
  BY <1>1, <1>3, <1>4
<1>6. DeploymentTyped'
  <2>1. dpAsked' \in [DpIds -> RecordStates \cup {"no"}]
    BY <1>1
  <2> QED
    BY SMTT(30), <1>1, <1>2, <1>4, <1>5, <2>1 DEF DeploymentTyped, Mine
<1>7. \A e : InstancesOf(e)' = InstancesOf(e) /\ LiveOf(e)' = LiveOf(e) /\ MachinesOf(e)' = {}
  BY <1>1, <1>5 DEF InstancesOf, LiveOf, MachinesOf
<1>8. ASSUME NEW d \in DpIds, d \notin dpMixed' PROVE DrivenWell(d)'
  <2>1. DrivenWell(d)
    BY <1>1, <1>8 DEF DeploymentInv
  <2>2. dpAsked'[d] \in LateAsks
    BY <1>1 DEF LateAsks
  <2>3. RecordGood(d, dpRec[d].state, dpRec[d].inst)'
    BY <2>1, <2>2, <1>1, <1>7 DEF DrivenWell, RecordGood
  <2> QED
    BY <2>1, <2>3, <1>7 DEF DrivenWell
<1> QED
  BY <1>6, <1>8 DEF DeploymentInv

\* A deployment starts with nothing in the cloud and one machine.
LEMMA StartKeeps ==
  ASSUME DeploymentInv, NEW c \in DpIds, DeploymentStart(c)
  PROVE  DeploymentInv'
<1> DEFINE x == [of |-> c, pc |-> "validate", inst |-> 0]
<1>0. PICK n : n = Len(dpMach) + 1
  OBVIOUS
<1>1. /\ dpRec[c].state = "none" /\ dpRec' = [dpRec EXCEPT ![c].state = "VALIDATING"]
      /\ dpMach' = Append(dpMach, x)
      /\ UNCHANGED <<dpAsked, dpCloud, dpMixed, dpLeaked>>
  BY DEF DeploymentStart
<1>2. DeploymentTyped /\ x \in Machines
  BY DEF DeploymentInv, Machines, Pcs
<1>3. x.of = c /\ x.pc = "validate" /\ x.inst = 0
  OBVIOUS
<1> HIDE DEF x
<1>4. dpMach \in Seq(Machines) /\ Len(dpMach) \in Nat /\ DOMAIN dpMach = 1..Len(dpMach)
  BY <1>2, LenProperties DEF DeploymentTyped
<1>5. /\ dpMach' \in Seq(Machines) /\ Len(dpMach') = n
      /\ \A m \in 1..Len(dpMach) : dpMach'[m] = dpMach[m]
      /\ dpMach'[n] = x
  BY <1>0, <1>1, <1>2, <1>4, AppendProperties
<1>6. DOMAIN dpMach' = (DOMAIN dpMach) \cup {n} /\ n \notin DOMAIN dpMach
  <2>1. DOMAIN dpMach' = 1..n
    BY <1>5, LenProperties
  <2> QED
    BY <2>1, <1>0, <1>4
<1>7. \A m \in DOMAIN dpMach : dpMach'[m] = dpMach[m]
  BY <1>4, <1>5
<1>8. dpRec \in [DpIds -> Records] /\ dpRec[c] \in Records
  BY <1>2 DEF DeploymentTyped
<1>9. /\ dpRec' \in [DpIds -> Records] /\ dpRec'[c].state = "VALIDATING" /\ dpRec'[c].inst = dpRec[c].inst
      /\ \A d \in DpIds : d # c => dpRec'[d] = dpRec[d]
  BY <1>1, <1>8 DEF Records, RecordStates
<1>10. \A m \in DOMAIN dpMach : dpMach[m].of # c /\ dpMach[m].of \in DpIds
  BY <1>1, <1>2, MachineTyped
<1>11. \A d \in DpIds : MachinesOf(d)' = IF d = c THEN {n} ELSE MachinesOf(d)
  BY <1>3, <1>5, <1>6, <1>7, <1>10 DEF MachinesOf
<1>12. \A e : InstancesOf(e)' = InstancesOf(e) /\ LiveOf(e)' = LiveOf(e)
  BY <1>1 DEF InstancesOf, LiveOf
<1>13. DeploymentTyped'
  <2>1. \A m \in DOMAIN dpMach' : dpRec'[dpMach'[m].of].state # "none"
    <3> SUFFICES ASSUME NEW m \in DOMAIN dpMach' PROVE dpRec'[dpMach'[m].of].state # "none"
      OBVIOUS
    <3>1. CASE m = n
      BY <3>1, <1>3, <1>5, <1>9
    <3>2. CASE m \in DOMAIN dpMach
      BY <3>2, <1>2, <1>7, <1>9, <1>10, MachineTyped
    <3> QED
      BY <3>1, <3>2, <1>6
  <2> QED
    BY <2>1, <1>1, <1>2, <1>5, <1>9 DEF DeploymentTyped, Mine
<1>14. ASSUME NEW d \in DpIds, d \notin dpMixed' PROVE DrivenWell(d)'
  <2>1. DrivenWell(d)
    BY <1>1, <1>14 DEF DeploymentInv
  <2>2. CASE d # c
    <3>1. RecordGood(d, dpRec[d].state, dpRec[d].inst)'
      BY <2>1, <2>2, <1>1, <1>9, <1>12 DEF DrivenWell, RecordGood
    <3>2. ASSUME NEW m \in MachinesOf(d)
          PROVE  MachineGood(d, dpRec[d].state, dpRec[d].inst, dpMach[m].pc, dpMach[m].inst)'
      <4>1. MachineGood(d, dpRec[d].state, dpRec[d].inst, dpMach[m].pc, dpMach[m].inst)
        BY <2>1 DEF DrivenWell
      <4>2. dpMach'[m] = dpMach[m]
        BY <1>7 DEF MachinesOf
      <4> QED
        BY <4>1, <4>2, <2>2, <1>1, <1>9, <1>12 DEF MachineGood
    <3> QED
      BY <2>1, <2>2, <3>1, <3>2, <1>11, <1>12 DEF DrivenWell
  <2>3. CASE d = c
    <3>1. dpRec[d].inst = 0 /\ InstancesOf(d) = {} /\ LiveOf(d) = {}
      BY <2>1, <2>3, <1>1 DEF DrivenWell, RecordGood, LiveOf
    <3>2. RecordGood(d, dpRec[d].state, dpRec[d].inst)'
      BY <3>1, <2>3, <1>9, <1>12 DEF RecordGood
    <3>3. dpMach'[n].pc = "validate" /\ dpMach'[n].inst = 0
      BY <1>3, <1>5
    <3>4. MachineGood(d, dpRec[d].state, dpRec[d].inst, dpMach[n].pc, dpMach[n].inst)'
      BY <3>1, <3>3, <2>3, <1>9, <1>12 DEF MachineGood, Terminal, Driving
    <3> QED
      BY <3>1, <3>2, <3>4, <2>3, <1>11, <1>12 DEF DrivenWell
  <2> QED
    BY <2>2, <2>3
<1> QED
  BY <1>13, <1>14 DEF DeploymentInv

\* Boot resumes each open deployment once; one that this process drives already
\* is mixed from then on.
LEMMA BootKeeps ==
  ASSUME DeploymentInv, NEW order, DeploymentBoot(order)
  PROVE  DeploymentInv'
<1> DEFINE open == {d \in DpIds : dpRec[d].state \notin Terminal \cup NotStored}
           more == [k \in DOMAIN order |-> Resumed(order[k])]
           n == Len(dpMach)
           c == Cardinality(open)
<1>1. /\ order \in [1..c -> open] /\ {order[k] : k \in DOMAIN order} = open
      /\ dpMach' = dpMach \o more
      /\ dpMixed' = dpMixed \cup {d \in open : MachinesOf(d) # {}}
      /\ UNCHANGED <<dpRec, dpAsked, dpCloud, dpLeaked>>
  BY DEF DeploymentBoot
<1>2. DeploymentTyped
  BY DEF DeploymentInv
<1>3. IsFiniteSet(open) /\ c \in Nat
  BY DpIdsAssumption, FS_Subset, FS_CardinalityType
<1>4. \A j, k \in 1..c : order[j] = order[k] => j = k
  <2>1. IsFiniteSet(1..c) /\ Cardinality(1..c) = c
    BY <1>3, FS_Interval
  <2>2. order \in Surjection(1..c, open)
    BY <1>1 DEF Surjection
  <2>3. order \in Injection(1..c, open)
    BY <2>1, <2>2, FS_SurjSameCardinalityImpliesInj
  <2> QED
    BY <2>3 DEF Injection, IsInjective
<1>5. \A k \in 1..c : order[k] \in open
  BY <1>1
<1>6. \A d \in open : d \in DpIds /\ dpRec[d] \in Records /\ dpRec[d].state \notin Terminal \cup {"none", "gone"}
  BY <1>2 DEF DeploymentTyped, NotStored
<1> HIDE DEF open, c
<1>7. \A d \in open : Resumed(d) \in Machines
  BY <1>6 DEF Resumed, Machines, Records, Pcs
<1>8. DOMAIN order = 1..c
  BY <1>1
<1>9. more \in Seq(Machines) /\ Len(more) = c /\ \A k \in 1..c : more[k] = Resumed(order[k])
  <2>1. more \in [1..c -> Machines] /\ \A k \in 1..c : more[k] = Resumed(order[k])
    BY <1>5, <1>7, <1>8
  <2> QED
    BY <2>1, <1>3
<1> HIDE DEF more
<1>10. dpMach \in Seq(Machines) /\ n \in Nat /\ DOMAIN dpMach = 1..n
  BY <1>2, LenProperties DEF DeploymentTyped
<1>11. /\ dpMach' \in Seq(Machines) /\ Len(dpMach') = n + c
       /\ \A m \in 1..(n + c) : dpMach'[m] = IF m <= n THEN dpMach[m] ELSE more[m - n]
  BY <1>1, <1>9, <1>10, ConcatProperties
<1>12. DOMAIN dpMach' = 1..(n + c)
  BY <1>11, LenProperties
<1> HIDE DEF n
<1>13. \A m \in DOMAIN dpMach : m \in DOMAIN dpMach' /\ dpMach'[m] = dpMach[m]
  BY <1>3, <1>10, <1>11, <1>12
<1>14. \A m \in DOMAIN dpMach' : m \in DOMAIN dpMach \/
         (m - n \in 1..c /\ order[m - n] \in open /\ dpMach'[m] = Resumed(order[m - n]))
  <2> SUFFICES ASSUME NEW m \in DOMAIN dpMach', m \notin DOMAIN dpMach
               PROVE  m - n \in 1..c /\ order[m - n] \in open /\ dpMach'[m] = Resumed(order[m - n])
    OBVIOUS
  <2>1. m \in 1..(n + c) /\ ~(m <= n) /\ m - n \in 1..c
    BY <1>3, <1>10, <1>12
  <2> QED
    BY <2>1, <1>5, <1>9, <1>11
<1>15. \A d \in open : Resumed(d).of = d /\ Resumed(d).inst = dpRec[d].inst
  BY DEF Resumed
<1>16. DeploymentTyped'
  <2>1. \A m \in DOMAIN dpMach' : dpRec'[dpMach'[m].of].state # "none"
    <3> SUFFICES ASSUME NEW m \in DOMAIN dpMach' PROVE dpRec[dpMach'[m].of].state # "none"
      BY <1>1
    <3>1. CASE m \in DOMAIN dpMach
      BY <3>1, <1>2, <1>13, MachineTyped
    <3>2. CASE m \notin DOMAIN dpMach
      BY <3>2, <1>6, <1>14, <1>15
    <3> QED
      BY <3>1, <3>2
  <2> QED
    BY <2>1, <1>1, <1>2, <1>11 DEF DeploymentTyped, Mine
<1>17. \A e : InstancesOf(e)' = InstancesOf(e) /\ LiveOf(e)' = LiveOf(e)
  BY <1>1 DEF InstancesOf, LiveOf
<1>18. ASSUME NEW d \in DpIds, d \notin dpMixed' PROVE DrivenWell(d)'
  <2>1. DrivenWell(d)
    BY <1>1, <1>18 DEF DeploymentInv
  <2>2. RecordGood(d, dpRec[d].state, dpRec[d].inst)'
    BY <2>1, <1>1, <1>17 DEF DrivenWell, RecordGood
  <2>3. CASE d \notin open
    <3>1. MachinesOf(d)' = MachinesOf(d)
      <4>1. \A m \in DOMAIN dpMach' : dpMach'[m].of = d => m \in DOMAIN dpMach
        BY <2>3, <1>14, <1>15
      <4> QED
        BY <4>1, <1>13 DEF MachinesOf
    <3>2. ASSUME NEW m \in MachinesOf(d)
          PROVE  MachineGood(d, dpRec[d].state, dpRec[d].inst, dpMach[m].pc, dpMach[m].inst)'
      <4>1. MachineGood(d, dpRec[d].state, dpRec[d].inst, dpMach[m].pc, dpMach[m].inst)
        BY <2>1 DEF DrivenWell
      <4>2. dpMach'[m] = dpMach[m]
        BY <1>13 DEF MachinesOf
      <4> QED
        BY <4>1, <4>2, <1>1, <1>17 DEF MachineGood
    <3> QED
      BY <2>1, <2>2, <3>1, <3>2, <1>17 DEF DrivenWell
  <2>4. CASE d \in open
    <3>1. MachinesOf(d) = {}
      BY <2>4, <1>1, <1>18
    <3>2. \A m \in MachinesOf(d)' : m - n \in 1..c /\ order[m - n] = d /\ dpMach'[m] = Resumed(d) /\ m \in Int
      <4> SUFFICES ASSUME NEW m \in MachinesOf(d)'
                   PROVE  m - n \in 1..c /\ order[m - n] = d /\ dpMach'[m] = Resumed(d) /\ m \in Int
        OBVIOUS
      <4>1. m \in DOMAIN dpMach' /\ dpMach'[m].of = d /\ dpMach'[m].pc # "over" /\ m \in Int
        BY <1>12 DEF MachinesOf
      <4>2. m \notin DOMAIN dpMach
        BY <4>1, <3>1, <1>13 DEF MachinesOf
      <4>3. m - n \in 1..c /\ order[m - n] \in open /\ dpMach'[m] = Resumed(order[m - n])
        BY <4>1, <4>2, <1>14
      <4>4. order[m - n] = d
        BY <4>1, <4>3, <1>15
      <4> QED
        BY <4>1, <4>3, <4>4
    <3>3. \A j, k \in MachinesOf(d)' : j = k
      <4> SUFFICES ASSUME NEW j \in MachinesOf(d)', NEW k \in MachinesOf(d)' PROVE j = k
        OBVIOUS
      <4>1. j - n = k - n
        BY <3>2, <1>4
      <4> QED
        BY <4>1, <3>2, <1>10
    <3>4. ASSUME NEW m \in MachinesOf(d)'
          PROVE  MachineGood(d, dpRec[d].state, dpRec[d].inst, dpMach[m].pc, dpMach[m].inst)'
      <4>1. dpMach'[m].inst = dpRec[d].inst /\ dpMach'[m].pc = Resumed(d).pc
        BY <3>2, <2>4, <1>15
      <4>2. Resumed(d).pc = IF dpRec[d].state = "VALIDATING" THEN "validate"
                            ELSE IF dpRec[d].inst # 0 THEN "lookup" ELSE "list"
        BY DEF Resumed
      <4>3. dpRec[d].state \notin Terminal \cup {"none", "gone"}
        BY <2>4, <1>6
      <4>4. RecordGood(d, dpRec[d].state, dpRec[d].inst)
        BY <2>1 DEF DrivenWell
      <4>5. MachineGood(d, dpRec[d].state, dpRec[d].inst, Resumed(d).pc, dpRec[d].inst)
        BY <4>2, <4>3, <4>4 DEF MachineGood, RecordGood, Driving
      <4>6. dpRec' = dpRec /\ dpAsked' = dpAsked /\ InstancesOf(d)' = InstancesOf(d) /\ LiveOf(d)' = LiveOf(d)
        BY <1>1, <1>17
      <4> QED
        BY <4>1, <4>5, <4>6 DEF MachineGood
    <3>5. \A m \in MachinesOf(d)' :
            MachineGood(d, dpRec[d].state, dpRec[d].inst, dpMach[m].pc, dpMach[m].inst)'
      BY <3>4
    <3>6. \A i, j \in LiveOf(d)' : i = j
      BY <2>1, <1>17 DEF DrivenWell
    <3> QED
      BY <2>2, <3>3, <3>5, <3>6 DEF DrivenWell
  <2> QED
    BY <2>3, <2>4
<1> QED
  BY <1>16, <1>18 DEF DeploymentInv

\* Every step keeps the invariant.
LEMMA DeploymentKept == DeploymentInv /\ [DeploymentNext]_dpVars => DeploymentInv'
<1> SUFFICES ASSUME DeploymentInv, [DeploymentNext]_dpVars PROVE DeploymentInv'
  OBVIOUS
<1>1. ASSUME NEW d \in DpIds, DeploymentStart(d) \/ DeploymentCancel(d) \/ StoreLost(d) PROVE DeploymentInv'
  BY <1>1, StartKeeps, CancelKeeps, LostKeeps
<1>2. ASSUME NEW order, DeploymentBoot(order) PROVE DeploymentInv'
  BY <1>2, BootKeeps
<1>3. CASE DeploymentCrash
  BY <1>3, CrashKeeps
<1>4. ASSUME NEW m \in DOMAIN dpMach, MachineSteps(m) PROVE DeploymentInv'
  <2>1. UNCHANGED <<dpAsked, dpCloud, dpMixed, dpLeaked>>
    BY <1>4 DEF MachineSteps
  <2> QED
    BY <2>1, <1>4, MachineStepsGood, QuietMoveKeeps
<1>5. ASSUME NEW m \in DOMAIN dpMach, Created(m) \/ Unwound(m, TRUE) \/ Unwound(m, FALSE) PROVE DeploymentInv'
  BY <1>5, CreatedKeeps, UnwoundKeeps
<1>6. ASSUME NEW i \in DOMAIN dpCloud, InstanceRuns(i) \/ InstanceDies(i) PROVE DeploymentInv'
  BY <1>6, CloudKeeps
<1>7. CASE UNCHANGED dpVars
  BY <1>7 DEF dpVars, DeploymentInv, DeploymentTyped, DrivenWell, RecordGood, MachineGood,
              MachinesOf, InstancesOf, LiveOf, Mine
<1> QED
  BY <1>1, <1>2, <1>3, <1>4, <1>5, <1>6, <1>7 DEF DeploymentNext

\* Over crashes, resumptions, cancels at any await, lost answers and a lost store,
\* a deployment that one machine at a time drove has at most one live instance,
\* none after it was cancelled but one whose termination failed, and is READY over
\* no cancel acknowledged before its inference test (deployment.ts).
THEOREM CloudAlwaysAsAsked == DeploymentSpec => []CloudIsAsAsked
<1>1. DeploymentInit => DeploymentInv
  <2> SUFFICES ASSUME DeploymentInit PROVE DeploymentInv
    OBVIOUS
  <2>1. /\ dpRec \in [DpIds -> Records] /\ dpAsked \in [DpIds -> RecordStates \cup {"no"}]
        /\ dpMach = <<>> /\ dpCloud = <<>> /\ \A d \in DpIds : dpRec[d].state = "none" /\ dpRec[d].inst = 0
    BY DEF DeploymentInit, Records, RecordStates
  <2>2. DOMAIN dpMach = {} /\ DOMAIN dpCloud = {} /\ dpMach \in Seq(Machines) /\ dpCloud \in Seq(Instances)
    BY <2>1
  <2>3. DeploymentTyped
    BY <2>1, <2>2 DEF DeploymentTyped
  <2>4. \A d : MachinesOf(d) = {} /\ InstancesOf(d) = {} /\ LiveOf(d) = {}
    BY <2>2 DEF MachinesOf, InstancesOf, LiveOf
  <2> QED
    BY <2>1, <2>3, <2>4 DEF DeploymentInv, DrivenWell, RecordGood
<1>2. DeploymentInv => CloudIsAsAsked
  <2> SUFFICES ASSUME DeploymentInv PROVE CloudIsAsAsked
    OBVIOUS
  <2>1. EarlyCancelHonoured
    BY DEF EarlyCancelHonoured, DeploymentInv, DrivenWell, RecordGood, LateAsks
  <2>2. OneInstance
    <3> SUFFICES ASSUME NEW d \in DpIds, d \notin dpMixed
                 PROVE  Cardinality({i \in DOMAIN dpCloud : dpCloud[i].token = d /\ dpCloud[i].state # "terminated"}) <= 1
      BY DEF OneInstance
    <3>1. {i \in DOMAIN dpCloud : dpCloud[i].token = d /\ dpCloud[i].state # "terminated"} = LiveOf(d)
      BY DEF LiveOf, InstancesOf
    <3>2. \A i, j \in LiveOf(d) : i = j
      BY DEF DeploymentInv, DrivenWell
    <3>3. CASE LiveOf(d) = {}
      BY <3>1, <3>3, FS_EmptySet
    <3>4. CASE LiveOf(d) # {}
      <4>1. PICK i : LiveOf(d) = {i}
        BY <3>2, <3>4
      <4>2. Cardinality({i}) = 1
        BY FS_Singleton
      <4> QED
        BY <3>1, <4>1, <4>2
    <3> QED
      BY <3>3, <3>4
  <2>3. CancelCleansUp
    BY DEF CancelCleansUp, DeploymentInv, DrivenWell, RecordGood, LiveOf, InstancesOf
  <2> QED
    BY <2>1, <2>2, <2>3 DEF CloudIsAsAsked
<1> QED
  BY <1>1, <1>2, DeploymentKept, PTL DEF DeploymentSpec

-----------------------------------------------------------------------------
(* The page's mirror of the registry: what is on the way to the page, told against a history of    *)
(* the registry that the model itself does not keep.                           *)

\* The types of sockets, frames and the view.
FeedPhases == {"unused", "connecting", "open", "closing", "closed"}
EventTypes == {"body-added", "body-capabilities-updated", "body-status", "body-revoked", "body-removed"}
Bodies == [FeedBodies -> Status]
RegistrySnapshots == [type : {"snapshot"}, ver : Nat, at : Nat, bodies : Bodies]
Events == [type : EventTypes, ver : Nat, at : Nat, body : FeedBodies, status : Status]
AllFrames == RegistrySnapshots \cup Events
Socks == [phase : FeedPhases, frames : Seq(AllFrames)]
Views == [ver : Nat, bodies : Bodies, at : Nat, overtaken : BOOLEAN]

FeedTyped ==
  /\ entries \in Bodies /\ feedVer \in Nat /\ changes \in Nat
  /\ feedDisk.ver \in Nat /\ feedDisk.entries \in Bodies
  /\ feedSock \in [FeedSockets -> Socks] /\ view \in Views /\ mounted \in BOOLEAN
  /\ \A f \in DOMAIN fetches : fetches[f].state = "answered" => fetches[f].snap \in RegistrySnapshots

\* What the registry was after each of its changes, of which the model keeps
\* the present only: its version V and public records B; L is the last change
\* that an event told of, E the one the process started at, M the one the page
\* was opened at.
History(V, B, L, E, M) ==
  /\ V \in [Nat -> Nat] /\ B \in [Nat -> [FeedBodies -> Status]] /\ L \in [Nat -> Nat]
  /\ changes \in Nat /\ E \in 0..changes /\ M \in 0..changes
  /\ V[changes] = feedVer /\ B[changes] = Public(entries, ready)
  /\ \A i \in E..changes : L[i] \in E..i /\ L[L[i]] = L[i]
  /\ \A i, j \in E..changes :
       /\ i <= j => V[i] <= V[j] /\ L[i] <= L[j]
       /\ i < j /\ L[j] = j => V[i] < V[j]
       /\ L[i] = L[j] => B[i] = B[j]

\* A socket that is open, and its frames under way.
Open(s) == feedSock[s].phase = "open"
Frames(s) == feedSock[s].frames

\* A frame under way says what the registry was, or how the change it tells of
\* changed it.
SnapshotOf(frame, V, B) == frame.ver = V[frame.at] /\ frame.bodies = B[frame.at]
NewStatus(e) == IF e.type = "body-removed" THEN "none" ELSE e.status
EventIn(e, V, B, L, E) ==
  /\ e.at > E /\ e.ver = V[e.at] /\ e.body \in FeedBodies
  /\ Ignored(e) <=> L[e.at] # e.at
  /\ ~Ignored(e) => B[e.at] = [B[e.at - 1] EXCEPT ![e.body] = NewStatus(e)]

FramesGood(s, V, B, L, E) ==
  /\ \A k \in DOMAIN Frames(s) : LET frame == Frames(s)[k] IN
       /\ frame.at \in E..changes
       /\ frame.type = "snapshot" => k = 1 /\ SnapshotOf(frame, V, B)
       /\ frame.type # "snapshot" => EventIn(frame, V, B, L, E)
  /\ \A j, k \in DOMAIN Frames(s) : j < k => Frames(s)[j].at < Frames(s)[k].at

\* An answer of this epoch says what the registry was.
AnswersGood(V, B, E) ==
  \A f \in DOMAIN fetches : fetches[f].state = "answered" =>
    /\ fetches[f].snap.at \in 0..changes
    /\ fetches[f].snap.at >= E => SnapshotOf(fetches[f].snap, V, B)

\* The events of the changes after x that were told are under way on the socket.
Covers(s, x, L) ==
  \A i \in (x + 1)..changes : L[i] = i =>
    \E k \in DOMAIN Frames(s) : Frames(s)[k].at = i /\ Frames(s)[k].type # "snapshot"

\* An answer to come is of the registry since the page was opened.
Fetching(M) == \E f \in DOMAIN fetches :
  \/ fetches[f].state = "asked"
  \/ fetches[f].state = "answered" /\ fetches[f].snap.at >= M

\* The socket begins with a snapshot that has all the changes before its frames.
SnapshotFirst(s, L) ==
  1 \in DOMAIN Frames(s) /\ Frames(s)[1].type = "snapshot" /\ Covers(s, Frames(s)[1].at, L)

\* The view is the registry after the change it was told of last.
Synced(V, B, L, E) ==
  /\ view.at >= E /\ view.bodies = B[view.at]
  /\ V[L[view.at]] <= view.ver /\ view.ver <= V[view.at]

\* What is missing in the view is under way on every open socket, or an answer
\* to come has it.
PageCovered(V, B, L, E, M) ==
  \A s \in FeedSockets : Open(s) =>
    /\ \/ SnapshotFirst(s, L)
       \/ view.at >= E /\ Covers(s, view.at, L)
       \/ M >= E /\ Covers(s, M, L) /\ Fetching(M)
    /\ Fetching(M) \/ view.overtaken \/ SnapshotFirst(s, L) \/ Synced(V, B, L, E)

\* A history and what is under way belong together.
Story(V, B, L, E, M) ==
  /\ History(V, B, L, E, M)
  /\ \A s \in FeedSockets : Open(s) => FramesGood(s, V, B, L, E)
  /\ AnswersGood(V, B, E)
  /\ view.at \in 0..changes /\ view.ver \in Nat
  /\ mounted => PageCovered(V, B, L, E, M)

\* There is such a history: the inductive invariant.
FeedInv == FeedTyped /\ \E V, B, L, E, M : Story(V, B, L, E, M)

-----------------------------------------------------------------------------
\* The public record of each Body has a status.
LEMMA PublicTyped ==
  ASSUME NEW e \in Bodies, NEW r PROVE Public(e, r) \in Bodies
<1>1. \A b \in FeedBodies : Public(e, r)[b] \in Status
  BY DEF Public, Bodies, Status
<1> QED
  BY <1>1 DEF Public, Bodies

\* A frame appended to the frames under way.
LEMMA FrameAppended ==
  ASSUME NEW q \in Seq(AllFrames), NEW x \in AllFrames
  PROVE  /\ Append(q, x) \in Seq(AllFrames)
         /\ DOMAIN Append(q, x) = DOMAIN q \cup {Len(q) + 1}
         /\ Append(q, x)[Len(q) + 1] = x
         /\ Len(q) + 1 \in Nat
         /\ \A k \in DOMAIN q : Append(q, x)[k] = q[k] /\ k \in Nat /\ 1 <= k /\ k < Len(q) + 1
<1>1. Len(q) \in Nat /\ DOMAIN q = 1..Len(q)
  BY LenProperties
<1>2. /\ Append(q, x) \in Seq(AllFrames) /\ Len(Append(q, x)) = Len(q) + 1
      /\ \A i \in 1..Len(q) : Append(q, x)[i] = q[i]
      /\ Append(q, x)[Len(q) + 1] = x
  BY AppendProperties
<1>3. DOMAIN Append(q, x) = 1..(Len(q) + 1)
  BY <1>2, LenProperties
<1> QED
  BY <1>1, <1>2, <1>3

\* The first frame taken from the frames under way.
LEMMA FrameTaken ==
  ASSUME NEW q \in Seq(AllFrames), q # <<>>
  PROVE  /\ Tail(q) \in Seq(AllFrames) /\ Head(q) = q[1] /\ 1 \in DOMAIN q /\ q[1] \in AllFrames
         /\ \A k \in DOMAIN Tail(q) : k \in Nat /\ k + 1 \in DOMAIN q /\ Tail(q)[k] = q[k + 1] /\ k + 1 > 1
         /\ \A k \in DOMAIN q : k \in Nat /\ (k # 1 => k - 1 \in DOMAIN Tail(q) /\ Tail(q)[k - 1] = q[k])
<1>1. Len(q) \in Nat /\ DOMAIN q = 1..Len(q) /\ Len(q) # 0
  BY LenProperties, EmptySeq
<1>2. Tail(q) \in Seq(AllFrames) /\ Len(Tail(q)) = Len(q) - 1 /\ \A i \in 1..Len(Tail(q)) : Tail(q)[i] = q[i + 1]
  BY HeadTailProperties
<1>3. DOMAIN Tail(q) = 1..(Len(q) - 1)
  BY <1>2, LenProperties
<1>4. Head(q) = q[1] /\ q[1] \in AllFrames
  BY <1>1, HeadTailProperties
<1> QED
  BY <1>1, <1>2, <1>3, <1>4

\* A change of the registry is one more page of its history.
LEMMA HistoryGrows ==
  ASSUME NEW V, NEW B, NEW L, NEW E, NEW M, History(V, B, L, E, M),
         NEW n, n = changes, changes' = n + 1,
         feedVer' \in Nat, Public(entries', ready') \in Bodies, NEW loud \in BOOLEAN,
         feedVer' >= feedVer, loud => feedVer' > feedVer,
         ~loud => Public(entries', ready') = Public(entries, ready)
  PROVE  \E V2, B2, L2 :
           /\ History(V2, B2, L2, E, M)'
           /\ \A i \in 0..n : V2[i] = V[i] /\ B2[i] = B[i] /\ L2[i] = L[i]
           /\ V2[n + 1] = feedVer' /\ B2[n + 1] = Public(entries', ready')
           /\ L2[n + 1] = n + 1 <=> loud
<1>1. /\ V \in [Nat -> Nat] /\ B \in [Nat -> Bodies] /\ L \in [Nat -> Nat]
      /\ n \in Nat /\ E \in 0..n /\ M \in 0..n
      /\ V[n] = feedVer /\ B[n] = Public(entries, ready)
      /\ \A i \in E..n : L[i] \in E..i /\ L[L[i]] = L[i]
      /\ \A i, j \in E..n :
           /\ i <= j => V[i] <= V[j] /\ L[i] <= L[j]
           /\ i < j /\ L[j] = j => V[i] < V[j]
           /\ L[i] = L[j] => B[i] = B[j]
  BY DEF History, Bodies
<1>2. PICK v, p : v = feedVer' /\ p = Public(entries', ready') /\ v \in Nat /\ p \in Bodies
  OBVIOUS
<1> DEFINE V2 == [V EXCEPT ![n + 1] = v]
           B2 == [B EXCEPT ![n + 1] = p]
           L2 == [L EXCEPT ![n + 1] = IF loud THEN n + 1 ELSE L[n]]
<1>3. n + 1 \in Nat /\ L[n] \in Nat /\ L[n] <= n
  BY <1>1
<1>4. V2 \in [Nat -> Nat] /\ B2 \in [Nat -> Bodies] /\ L2 \in [Nat -> Nat]
  BY <1>1, <1>2, <1>3
<1>5. /\ \A i \in 0..n : V2[i] = V[i] /\ B2[i] = B[i] /\ L2[i] = L[i]
      /\ V2[n + 1] = v /\ B2[n + 1] = p /\ L2[n + 1] = IF loud THEN n + 1 ELSE L[n]
  BY <1>1, <1>3
<1> HIDE DEF V2, B2, L2
<1>6. \A i \in E..(n + 1) : (i \in E..n /\ i \in 0..n) \/ i = n + 1
  BY <1>1
<1>7. \A i \in E..(n + 1) : L2[i] \in E..i /\ L2[L2[i]] = L2[i]
  <2> SUFFICES ASSUME NEW i \in E..(n + 1) PROVE L2[i] \in E..i /\ L2[L2[i]] = L2[i]
    OBVIOUS
  <2>1. CASE i \in E..n
    <3>1. L[i] \in E..i /\ L[L[i]] = L[i] /\ L[i] \in 0..n /\ i \in 0..n
      BY <2>1, <1>1
    <3> QED
      BY <3>1, <1>5
  <2>2. CASE i = n + 1 /\ loud
    BY <2>2, <1>1, <1>3, <1>5
  <2>3. CASE i = n + 1 /\ ~loud
    <3>1. L2[i] = L[n] /\ L[n] \in 0..n /\ n \in E..n
      BY <2>3, <1>1, <1>5
    <3>2. L[n] \in E..n /\ L[L[n]] = L[n]
      BY <3>1, <1>1
    <3>3. L2[L[n]] = L[n]
      BY <3>1, <3>2, <1>5
    <3> QED
      BY <2>3, <3>1, <3>2, <3>3, <1>1
  <2> QED
    BY <2>1, <2>2, <2>3, <1>6
<1>8. \A i \in 0..n : V2[i] \in Nat /\ L2[i] \in Nat
  BY <1>1, <1>5
<1>9. \A i \in E..n : V2[i] <= V2[n + 1] /\ L2[i] <= L2[n + 1] /\ (loud => V2[i] < V2[n + 1])
                      /\ L2[i] <= n
  <2> SUFFICES ASSUME NEW i \in E..n
               PROVE  V2[i] <= V2[n + 1] /\ L2[i] <= L2[n + 1] /\ (loud => V2[i] < V2[n + 1]) /\ L2[i] <= n
    OBVIOUS
  <2>1. n \in E..n /\ i <= n /\ i \in 0..n
    BY <1>1
  <2>2. V[i] <= V[n] /\ L[i] <= L[n] /\ V[i] \in Nat /\ V[n] \in Nat /\ L[i] \in Nat /\ L[n] \in Nat
    BY <2>1, <1>1
  <2> QED
    BY <2>1, <2>2, <1>1, <1>2, <1>3, <1>5
<1>10. \A i \in E..n : L2[i] = L2[n + 1] => B2[i] = B2[n + 1]
  <2> SUFFICES ASSUME NEW i \in E..n, L2[i] = L2[n + 1] PROVE B2[i] = B2[n + 1]
    OBVIOUS
  <2>1. i \in 0..n /\ n \in E..n
    BY <1>1
  <2>2. ~loud
    BY <2>1, <1>3, <1>5, <1>9
  <2>3. L[i] = L[n]
    BY <2>1, <2>2, <1>5
  <2>4. B[i] = B[n]
    BY <2>1, <2>3, <1>1
  <2> QED
    BY <2>1, <2>2, <2>4, <1>1, <1>2, <1>5
<1>11. \A i, j \in E..(n + 1) :
         /\ i <= j => V2[i] <= V2[j] /\ L2[i] <= L2[j]
         /\ i < j /\ L2[j] = j => V2[i] < V2[j]
         /\ L2[i] = L2[j] => B2[i] = B2[j]
  <2> SUFFICES ASSUME NEW i \in E..(n + 1), NEW j \in E..(n + 1)
               PROVE  /\ i <= j => V2[i] <= V2[j] /\ L2[i] <= L2[j]
                      /\ i < j /\ L2[j] = j => V2[i] < V2[j]
                      /\ L2[i] = L2[j] => B2[i] = B2[j]
    OBVIOUS
  <2>1. CASE i \in E..n /\ j \in E..n
    <3>1. i \in 0..n /\ j \in 0..n
      BY <2>1, <1>1
    <3> QED
      BY <2>1, <3>1, <1>1, <1>5
  <2>2. CASE i \in E..n /\ j = n + 1
    <3>1. L2[j] = j => loud
      BY <2>2, <1>1, <1>3, <1>5
    <3> QED
      BY <2>2, <3>1, <1>9, <1>10
  <2>3. CASE i = n + 1 /\ j \in E..n
    BY <2>3, <1>1, <1>10
  <2>4. CASE i = n + 1 /\ j = n + 1
    BY <2>4, <1>1, <1>2, <1>3, <1>4
  <2> QED
    BY <2>1, <2>2, <2>3, <2>4, <1>6
<1>12. History(V2, B2, L2, E, M)'
  <2>1. E \in 0..(n + 1) /\ M \in 0..(n + 1)
    BY <1>1
  <2> QED
    BY <2>1, <1>2, <1>3, <1>4, <1>5, <1>7, <1>11 DEF History, Bodies
<1>13. L2[n + 1] = n + 1 <=> loud
  BY <1>1, <1>3, <1>5
<1> QED
  BY <1>2, <1>5, <1>12, <1>13

\* What the history keeps, the frames, the answers and the view keep.
LEMMA StoryGrows ==
  ASSUME FeedTyped, NEW V, NEW B, NEW L, NEW E, NEW M, Story(V, B, L, E, M),
         NEW n, n = changes, changes' = n + 1, feedVer' \in Nat, Public(entries', ready') \in Bodies,
         NEW loud \in BOOLEAN,
         feedVer' >= feedVer, loud => feedVer' > feedVer,
         ~loud => Public(entries', ready') = Public(entries, ready),
         UNCHANGED <<fetches, mounted, view>>,
         \/ ~loud /\ feedSock' = feedSock
         \/ \E e \in Events :
              /\ Emitted(e) /\ e.at = n + 1 /\ e.ver = feedVer' /\ (Ignored(e) <=> ~loud)
              /\ loud => Public(entries', ready') = [Public(entries, ready) EXCEPT ![e.body] = NewStatus(e)]
  PROVE  \E V2, B2, L2 : Story(V2, B2, L2, E, M)'
<1>1. History(V, B, L, E, M)
  BY DEF Story
<1>2. PICK V2, B2, L2 :
        /\ History(V2, B2, L2, E, M)'
        /\ \A i \in 0..n : V2[i] = V[i] /\ B2[i] = B[i] /\ L2[i] = L[i]
        /\ V2[n + 1] = feedVer' /\ B2[n + 1] = Public(entries', ready')
        /\ L2[n + 1] = n + 1 <=> loud
  BY <1>1, HistoryGrows
<1>3. /\ n \in Nat /\ E \in 0..n /\ M \in 0..n /\ B[n] = Public(entries, ready)
      /\ \A i \in E..n : L[i] \in 0..n
  BY <1>1 DEF History
<1>4. \A s \in FeedSockets : Open(s)' <=> Open(s)
  <2>1. CASE feedSock' = feedSock
    BY <2>1 DEF Open
  <2>2. ASSUME NEW e \in Events, Emitted(e) PROVE \A s \in FeedSockets : Open(s)' <=> Open(s)
    BY <2>2 DEF Open, Emitted, FeedTyped, Socks
  <2> QED
    BY <2>1, <2>2
\* The frames of an open socket: as they were, with the event at their end.
<1>5. ASSUME NEW s \in FeedSockets, Open(s)
      PROVE  /\ \A k \in DOMAIN Frames(s) : k \in Nat /\ 1 <= k /\ k \in DOMAIN Frames(s)' /\ Frames(s)'[k] = Frames(s)[k]
             /\ \/ DOMAIN Frames(s)' = DOMAIN Frames(s) /\ ~loud
                \/ \E z \in Nat : /\ DOMAIN Frames(s)' = DOMAIN Frames(s) \cup {z}
                                  /\ \A k \in DOMAIN Frames(s) : k < z
                                  /\ Frames(s)'[z] \in Events /\ EventIn(Frames(s)'[z], V2, B2, L2, E)
                                  /\ Frames(s)'[z].at = n + 1
  <2>1. Frames(s) \in Seq(AllFrames)
    BY DEF Frames, FeedTyped, Socks
  <2>2. \A k \in DOMAIN Frames(s) : k \in Nat /\ 1 <= k
    BY <2>1, LenProperties
  <2>3. CASE ~loud /\ feedSock' = feedSock
    BY <2>2, <2>3 DEF Frames
  <2>4. ASSUME NEW e \in Events, Emitted(e), e.at = n + 1, e.ver = feedVer', Ignored(e) <=> ~loud,
               loud => Public(entries', ready') = [Public(entries, ready) EXCEPT ![e.body] = NewStatus(e)]
        PROVE  \E z \in Nat : /\ DOMAIN Frames(s)' = DOMAIN Frames(s) \cup {z}
                              /\ \A k \in DOMAIN Frames(s) : k < z /\ Frames(s)'[k] = Frames(s)[k]
                              /\ Frames(s)'[z] \in Events /\ EventIn(Frames(s)'[z], V2, B2, L2, E)
                              /\ Frames(s)'[z].at = n + 1
    <3>1. Frames(s)' = Append(Frames(s), e)
      BY <1>5, <2>4 DEF Open, Frames, Emitted, FeedTyped, Socks
    <3>2. e \in AllFrames
      BY DEF AllFrames
    <3> DEFINE z == Len(Frames(s)) + 1
               q == Append(Frames(s), e)
    <3>3. /\ DOMAIN q = DOMAIN Frames(s) \cup {z} /\ q[z] = e /\ z \in Nat
          /\ \A k \in DOMAIN Frames(s) : q[k] = Frames(s)[k] /\ k < z
      BY <2>1, <3>2, FrameAppended
    <3>4. EventIn(e, V2, B2, L2, E)
      <4>1. e.body \in FeedBodies
        BY DEF Events
      <4>2. e.at - 1 = n /\ e.at > E
        BY <2>4, <1>3
      <4>3. B2[n] = Public(entries, ready)
        BY <1>2, <1>3
      <4> QED
        BY <4>1, <4>2, <4>3, <2>4, <1>2 DEF EventIn
    <3> HIDE DEF z, q
    <3> QED
      BY <3>1, <3>3, <3>4, <2>4 DEF q
  <2> QED
    BY <2>2, <2>3, <2>4
<1>6. ASSUME NEW s \in FeedSockets, Open(s)' PROVE FramesGood(s, V2, B2, L2, E)'
  <2>1. FramesGood(s, V, B, L, E) /\ Open(s)
    BY <1>4, <1>6 DEF Story
  <2>2. ASSUME NEW k \in DOMAIN Frames(s)
        PROVE  LET frame == Frames(s)[k] IN
                 /\ frame.at \in E..(n + 1)
                 /\ frame.type = "snapshot" => k = 1 /\ SnapshotOf(frame, V2, B2)
                 /\ frame.type # "snapshot" => EventIn(frame, V2, B2, L2, E)
    <3> DEFINE frame == Frames(s)[k]
    <3>1. /\ frame.at \in E..n
          /\ frame.type = "snapshot" => k = 1 /\ SnapshotOf(frame, V, B)
          /\ frame.type # "snapshot" => EventIn(frame, V, B, L, E)
      BY <2>1 DEF FramesGood
    <3> HIDE DEF frame
    <3>2. frame.at \in 0..n /\ frame.at \in E..(n + 1) /\ (frame.at > E => frame.at - 1 \in 0..n)
      BY <3>1, <1>3
    <3>3. SnapshotOf(frame, V, B) => SnapshotOf(frame, V2, B2)
      BY <3>2, <1>2 DEF SnapshotOf
    <3>4. EventIn(frame, V, B, L, E) => EventIn(frame, V2, B2, L2, E)
      BY <3>2, <1>2 DEF EventIn
    <3> QED
      BY <3>1, <3>2, <3>3, <3>4 DEF frame
  <2>3. \A k \in DOMAIN Frames(s)' :
          /\ Frames(s)'[k].at \in E..(n + 1)
          /\ Frames(s)'[k].type = "snapshot" => k = 1 /\ SnapshotOf(Frames(s)'[k], V2, B2)
          /\ Frames(s)'[k].type # "snapshot" => EventIn(Frames(s)'[k], V2, B2, L2, E)
    <3> SUFFICES ASSUME NEW k \in DOMAIN Frames(s)'
                 PROVE  /\ Frames(s)'[k].at \in E..(n + 1)
                        /\ Frames(s)'[k].type = "snapshot" => k = 1 /\ SnapshotOf(Frames(s)'[k], V2, B2)
                        /\ Frames(s)'[k].type # "snapshot" => EventIn(Frames(s)'[k], V2, B2, L2, E)
      OBVIOUS
    <3>1. CASE k \in DOMAIN Frames(s)
      <4>1. Frames(s)'[k] = Frames(s)[k]
        BY <3>1, <2>1, <1>5
      <4> QED
        BY <3>1, <4>1, <2>2
    <3>2. CASE k \notin DOMAIN Frames(s)
      <4>1. Frames(s)'[k] \in Events /\ EventIn(Frames(s)'[k], V2, B2, L2, E) /\ Frames(s)'[k].at = n + 1
        <5>1. DOMAIN Frames(s)' # DOMAIN Frames(s)
          BY <3>2
        <5>2. PICK z \in Nat : /\ DOMAIN Frames(s)' = DOMAIN Frames(s) \cup {z}
                               /\ Frames(s)'[z] \in Events /\ EventIn(Frames(s)'[z], V2, B2, L2, E)
                               /\ Frames(s)'[z].at = n + 1
          BY <5>1, <2>1, <1>5
        <5>3. k = z
          BY <3>2, <5>2
        <5> QED
          BY <5>2, <5>3
      <4>2. Frames(s)'[k].type # "snapshot" /\ n + 1 \in E..(n + 1)
        BY <4>1, <1>3 DEF Events, EventTypes
      <4> QED
        BY <4>1, <4>2
    <3> QED
      BY <3>1, <3>2
  <2>4. \A j, k \in DOMAIN Frames(s)' : j < k => Frames(s)'[j].at < Frames(s)'[k].at
    <3> SUFFICES ASSUME NEW j \in DOMAIN Frames(s)', NEW k \in DOMAIN Frames(s)', j < k
                 PROVE  Frames(s)'[j].at < Frames(s)'[k].at
      OBVIOUS
    <3>1. CASE j \in DOMAIN Frames(s) /\ k \in DOMAIN Frames(s)
      <4>1. Frames(s)'[j] = Frames(s)[j] /\ Frames(s)'[k] = Frames(s)[k]
        BY <3>1, <2>1, <1>5
      <4> QED
        BY <3>1, <4>1, <2>1 DEF FramesGood
    <3>2. CASE j \in DOMAIN Frames(s) /\ k \notin DOMAIN Frames(s)
      <4>1. Frames(s)'[j] = Frames(s)[j] /\ Frames(s)'[k].at = n + 1
        <5>1. DOMAIN Frames(s)' # DOMAIN Frames(s)
          BY <3>2
        <5>2. PICK z \in Nat : DOMAIN Frames(s)' = DOMAIN Frames(s) \cup {z} /\ Frames(s)'[z].at = n + 1
          BY <5>1, <2>1, <1>5
        <5>3. k = z
          BY <3>2, <5>2
        <5> QED
          BY <3>2, <5>2, <5>3, <2>1, <1>5
      <4>2. Frames(s)[j].at \in E..n
        BY <3>2, <2>1 DEF FramesGood
      <4> QED
        BY <4>1, <4>2, <1>3
    <3>3. CASE j \notin DOMAIN Frames(s)
      <4>1. PICK z \in Nat : DOMAIN Frames(s)' = DOMAIN Frames(s) \cup {z} /\ \A i \in DOMAIN Frames(s) : i < z
        BY <3>3, <2>1, <1>5
      <4>2. j = z /\ (k = z \/ k < z) /\ k \in Nat
        BY <3>3, <4>1, <2>1, <1>5
      <4> QED
        BY <4>2
    <3> QED
      BY <3>1, <3>2, <3>3
  <2> QED
    BY <2>3, <2>4 DEF FramesGood
<1>7. AnswersGood(V2, B2, E)'
  <2> SUFFICES ASSUME NEW f \in DOMAIN fetches, fetches[f].state = "answered"
               PROVE  /\ fetches[f].snap.at \in 0..(n + 1)
                      /\ fetches[f].snap.at >= E => SnapshotOf(fetches[f].snap, V2, B2)
    BY DEF AnswersGood
  <2>1. /\ fetches[f].snap.at \in 0..n
        /\ fetches[f].snap.at >= E => SnapshotOf(fetches[f].snap, V, B)
    BY DEF Story, AnswersGood
  <2> QED
    BY <2>1, <1>2, <1>3 DEF SnapshotOf
<1>8. view'.at \in 0..(n + 1) /\ view'.ver \in Nat /\ view' = view /\ view.at \in 0..n
  BY <1>3 DEF Story
<1>9. Fetching(M)' <=> Fetching(M)
  BY DEF Fetching
<1>10. ASSUME NEW s \in FeedSockets, Open(s), NEW x \in 0..n, Covers(s, x, L) PROVE Covers(s, x, L2)'
  <2> SUFFICES ASSUME NEW i \in (x + 1)..(n + 1), L2[i] = i
               PROVE  \E k \in DOMAIN Frames(s)' : Frames(s)'[k].at = i /\ Frames(s)'[k].type # "snapshot"
    BY DEF Covers
  <2>1. CASE i \in 0..n
    <3>1. L[i] = i /\ i \in (x + 1)..n
      BY <2>1, <1>2, <1>3
    <3>2. PICK k \in DOMAIN Frames(s) : Frames(s)[k].at = i /\ Frames(s)[k].type # "snapshot"
      BY <3>1, <1>10 DEF Covers
    <3> QED
      BY <3>2, <1>5, <1>10
  <2>2. CASE i = n + 1
    <3>1. loud
      BY <2>2, <1>2
    <3>2. PICK z \in Nat : z \in DOMAIN Frames(s)' /\ Frames(s)'[z] \in Events /\ Frames(s)'[z].at = n + 1
      BY <3>1, <1>5, <1>10
    <3>3. Frames(s)'[z].type # "snapshot"
      BY <3>2 DEF Events, EventTypes
    <3> QED
      BY <2>2, <3>2, <3>3
  <2> QED
    BY <2>1, <2>2, <1>3
<1>11. ASSUME mounted PROVE PageCovered(V2, B2, L2, E, M)'
  <2> SUFFICES ASSUME NEW s \in FeedSockets, Open(s)
               PROVE  /\ \/ SnapshotFirst(s, L2)'
                         \/ view'.at >= E /\ Covers(s, view.at, L2)'
                         \/ M >= E /\ Covers(s, M, L2)' /\ Fetching(M)'
                      /\ Fetching(M)' \/ view'.overtaken \/ SnapshotFirst(s, L2)' \/ Synced(V2, B2, L2, E)'
    BY <1>4 DEF PageCovered
  <2>1. /\ \/ SnapshotFirst(s, L)
           \/ view.at >= E /\ Covers(s, view.at, L)
           \/ M >= E /\ Covers(s, M, L) /\ Fetching(M)
        /\ Fetching(M) \/ view.overtaken \/ SnapshotFirst(s, L) \/ Synced(V, B, L, E)
    BY <1>11 DEF Story, PageCovered
  <2>2. SnapshotFirst(s, L) => SnapshotFirst(s, L2)'
    <3> SUFFICES ASSUME SnapshotFirst(s, L) PROVE SnapshotFirst(s, L2)'
      OBVIOUS
    <3>1. 1 \in DOMAIN Frames(s) /\ Frames(s)[1].type = "snapshot" /\ Covers(s, Frames(s)[1].at, L)
      BY DEF SnapshotFirst
    <3>2. 1 \in DOMAIN Frames(s)' /\ Frames(s)'[1] = Frames(s)[1]
      BY <3>1, <1>5
    <3>3. PICK a : a = Frames(s)[1].at /\ a \in 0..n
      <4>1. FramesGood(s, V, B, L, E)
        BY DEF Story
      <4> QED
        BY <3>1, <4>1, <1>3 DEF FramesGood
    <3>4. Covers(s, a, L2)'
      BY <3>1, <3>3, <1>10
    <3> QED
      BY <3>1, <3>2, <3>3, <3>4 DEF SnapshotFirst, Covers
  <2>3. PICK a : a = view.at /\ a \in 0..n /\ a = view'.at
    BY <1>8
  <2>4. Covers(s, view.at, L) => Covers(s, view.at, L2)'
    <3> SUFFICES ASSUME Covers(s, view.at, L) PROVE Covers(s, view.at, L2)'
      OBVIOUS
    <3>1. Covers(s, a, L2)'
      BY <2>3, <1>10
    <3> QED
      BY <3>1, <2>3 DEF Covers
  <2>5. Covers(s, M, L) => Covers(s, M, L2)'
    BY <1>3, <1>10
  <2>6. Synced(V, B, L, E) => Synced(V2, B2, L2, E)'
    <3> SUFFICES ASSUME Synced(V, B, L, E) PROVE Synced(V2, B2, L2, E)'
      OBVIOUS
    <3>1. a \in E..n /\ view.bodies = B[a] /\ V[L[a]] <= view.ver /\ view.ver <= V[a]
      BY <2>3, <1>3 DEF Synced
    <3>2. L2[a] = L[a] /\ L[a] \in 0..n /\ V2[L[a]] = V[L[a]] /\ V2[a] = V[a] /\ B2[a] = B[a]
      BY <3>1, <2>3, <1>2, <1>3
    <3> QED
      BY <3>1, <3>2, <2>3, <1>8 DEF Synced
  <2> QED
    BY <2>1, <2>2, <2>4, <2>5, <2>6, <1>8, <1>9
<1> QED
  BY <1>2, <1>6, <1>7, <1>8, <1>11 DEF Story

-----------------------------------------------------------------------------
(* The Brain's steps *)

\* A change of one Body changes one public record.
LEMMA PublicAt ==
  ASSUME NEW e \in Bodies, NEW e2 \in Bodies, NEW r, NEW r2, NEW b \in FeedBodies,
         \A c \in FeedBodies : c # b => e2[c] = e[c] /\ (c \in r2 <=> c \in r)
  PROVE  Public(e2, r2) = [Public(e, r) EXCEPT ![b] = Public(e2, r2)[b]]
  BY DEF Public

\* What an event says when it is sent to every open socket.
LEMMA EventTyped ==
  ASSUME NEW type \in EventTypes, NEW b \in FeedBodies, NEW e \in Bodies, NEW r, NEW v \in Nat, NEW n \in Nat
  PROVE  LET x == EventOf(type, b, e, r, v, n) IN
           /\ x \in Events /\ x.at = n /\ x.ver = v /\ x.body = b /\ x.type = type
           /\ x.status = Public(e, r)[b]
<1>1. Public(e, r)[b] \in Status
  BY PublicTyped DEF Bodies
<1> QED
  BY <1>1 DEF EventOf, Events

\* The sockets keep their type when an event is sent.
LEMMA EmittedTyped ==
  ASSUME FeedTyped, NEW x \in Events, Emitted(x)
  PROVE  feedSock' \in [FeedSockets -> Socks]
<1> SUFFICES ASSUME NEW s \in FeedSockets
             PROVE  (IF feedSock[s].phase = "open"
                     THEN [feedSock[s] EXCEPT !.frames = Append(@, x)] ELSE feedSock[s]) \in Socks
  BY DEF Emitted
<1>1. feedSock[s] \in Socks /\ x \in AllFrames
  BY DEF FeedTyped, AllFrames
<1>2. Append(feedSock[s].frames, x) \in Seq(AllFrames)
  BY <1>1, FrameAppended DEF Socks
<1> QED
  BY <1>1, <1>2 DEF Socks

\* A change that is told of: all but the loss of a revoked or removed Body.
LEMMA ToldKeeps ==
  ASSUME FeedInv, NEW b \in FeedBodies, NEW type \in EventTypes,
         entries' \in Bodies, changes' = changes + 1, feedVer' = feedVer + 1,
         feedDisk'.ver \in Nat, feedDisk'.entries \in Bodies,
         \A c \in FeedBodies : c # b => entries'[c] = entries[c] /\ (c \in ready' <=> c \in ready),
         Public(entries', ready')[b] = "none" <=> type = "body-removed",
         Emitted(EventOf(type, b, entries', ready', feedVer', changes')),
         UNCHANGED <<feedPage, fetches, view>>
  PROVE  FeedInv'
<1>1. FeedTyped
  BY DEF FeedInv
<1>2. PICK V, B, L, E, M : Story(V, B, L, E, M)
  BY DEF FeedInv
<1>3. changes' \in Nat /\ feedVer' \in Nat /\ entries \in Bodies
  BY <1>1 DEF FeedTyped
<1>4. PICK x : x = EventOf(type, b, entries', ready', feedVer', changes')
  OBVIOUS
<1>5. /\ x \in Events /\ x.at = changes' /\ x.ver = feedVer' /\ x.body = b /\ x.type = type
      /\ x.status = Public(entries', ready')[b]
  BY <1>3, <1>4, EventTyped
<1>6. FeedTyped'
  <2>1. feedSock' \in [FeedSockets -> Socks]
    BY <1>1, <1>4, <1>5, EmittedTyped
  <2> QED
    BY <2>1, <1>1, <1>3 DEF FeedTyped, feedPage
<1>7. PICK n : n = changes /\ changes' = n + 1
  OBVIOUS
<1>8. Public(entries', ready') \in Bodies
  BY PublicTyped
<1>9. Public(entries', ready') = [Public(entries, ready) EXCEPT ![b] = Public(entries', ready')[b]]
  BY <1>3, PublicAt
<1>10. NewStatus(x) = Public(entries', ready')[b] /\ ~Ignored(x)
  BY <1>5 DEF NewStatus, Ignored
<1>11. feedVer' > feedVer /\ feedVer' >= feedVer
  BY <1>1 DEF FeedTyped
<1>12. Emitted(x) /\ x.at = n + 1
  BY <1>4, <1>5, <1>7
<1>13. Public(entries', ready') = [Public(entries, ready) EXCEPT ![x.body] = NewStatus(x)]
  BY <1>5, <1>9, <1>10
<1>14. \E e \in Events :
         /\ Emitted(e) /\ e.at = n + 1 /\ e.ver = feedVer' /\ (Ignored(e) <=> ~TRUE)
         /\ TRUE => Public(entries', ready') = [Public(entries, ready) EXCEPT ![e.body] = NewStatus(e)]
  BY <1>5, <1>10, <1>12, <1>13
<1>15. UNCHANGED <<fetches, mounted, view>>
  BY DEF feedPage
<1>16. \E V2, B2, L2 : Story(V2, B2, L2, E, M)'
  BY <1>1, <1>2, <1>3, <1>7, <1>8, <1>11, <1>14, <1>15, StoryGrows
<1> QED
  BY <1>6, <1>16 DEF FeedInv

\* What a change that is saved does to the registry.
LEMMA SavedTyped ==
  ASSUME FeedTyped, NEW e \in Bodies, Saved(e, 1)
  PROVE  /\ entries' = e /\ changes' = changes + 1 /\ feedVer' = feedVer + 1
         /\ feedDisk'.ver \in Nat /\ feedDisk'.entries \in Bodies
<1>1. feedVer + 1 \in Nat
  BY DEF FeedTyped
<1> QED
  BY <1>1 DEF Saved, FeedTyped

\* Pairing, coming online, revoking and removing.
LEMMA RegistryKeeps ==
  ASSUME FeedInv, NEW b \in FeedBodies,
         RegisterPair(b) \/ BodyReady(b) \/ RevokeBody(b) \/ RemoveBody(b)
  PROVE  FeedInv'
<1>1. FeedTyped /\ entries \in Bodies
  BY DEF FeedInv, FeedTyped
<1>2. \A st \in Status : [entries EXCEPT ![b] = st] \in Bodies /\ [entries EXCEPT ![b] = st][b] = st
                         /\ \A c \in FeedBodies : c # b => [entries EXCEPT ![b] = st][c] = entries[c]
  BY <1>1 DEF Bodies
<1>3. {"online", "revoked", "none"} \subseteq Status
        /\ {"body-added", "body-capabilities-updated", "body-status", "body-revoked", "body-removed"} \subseteq EventTypes
  BY DEF Status, EventTypes
<1>4. CASE RegisterPair(b)
  <2> DEFINE e == [entries EXCEPT ![b] = "online"]
  <2>1. Saved(e, 1) /\ ready' = ready /\ UNCHANGED <<feedPage, fetches, view>>
    BY <1>4 DEF RegisterPair
  <2>2. PICK type \in {"body-added", "body-capabilities-updated"} : Tell(type, b)
    BY <1>4 DEF RegisterPair
  <2>3. e \in Bodies /\ e[b] = "online" /\ \A c \in FeedBodies : c # b => e[c] = entries[c]
    BY <1>2, <1>3
  <2> HIDE DEF e
  <2>4. /\ entries' = e /\ changes' = changes + 1 /\ feedVer' = feedVer + 1
        /\ feedDisk'.ver \in Nat /\ feedDisk'.entries \in Bodies
    BY <2>1, <2>3, <1>1, SavedTyped
  <2>5. Public(entries', ready')[b] = "online"
    BY <2>3, <2>4 DEF Public
  <2>6. Emitted(EventOf(type, b, entries', ready', feedVer', changes'))
    BY <2>2 DEF Tell
  <2>7. type \in EventTypes /\ type # "body-removed"
    BY <1>3
  <2> QED
    BY <2>1, <2>3, <2>4, <2>5, <2>6, <2>7, ToldKeeps
<1>5. CASE BodyReady(b)
  <2> DEFINE e == [entries EXCEPT ![b] = "online"]
  <2>1. Saved(e, 1) /\ ready' = ready \cup {b} /\ Tell("body-status", b) /\ UNCHANGED <<feedPage, fetches, view>>
    BY <1>5 DEF BodyReady
  <2>2. e \in Bodies /\ e[b] = "online" /\ \A c \in FeedBodies : c # b => e[c] = entries[c] /\ (c \in ready' <=> c \in ready)
    BY <2>1, <1>2, <1>3
  <2> HIDE DEF e
  <2>3. /\ entries' = e /\ changes' = changes + 1 /\ feedVer' = feedVer + 1
        /\ feedDisk'.ver \in Nat /\ feedDisk'.entries \in Bodies
    BY <2>1, <2>2, <1>1, SavedTyped
  <2>4. Public(entries', ready')[b] = "online"
    BY <2>2, <2>3 DEF Public
  <2>5. Emitted(EventOf("body-status", b, entries', ready', feedVer', changes'))
    BY <2>1 DEF Tell
  <2> QED
    BY <2>1, <2>2, <2>3, <2>4, <2>5, <1>3, ToldKeeps
<1>6. CASE RevokeBody(b)
  <2> DEFINE e == [entries EXCEPT ![b] = "revoked"]
  <2>1. Saved(e, 1) /\ ready' = ready /\ Tell("body-revoked", b) /\ UNCHANGED <<feedPage, fetches, view>>
    BY <1>6 DEF RevokeBody
  <2>2. e \in Bodies /\ e[b] = "revoked" /\ \A c \in FeedBodies : c # b => e[c] = entries[c]
    BY <1>2, <1>3
  <2> HIDE DEF e
  <2>3. /\ entries' = e /\ changes' = changes + 1 /\ feedVer' = feedVer + 1
        /\ feedDisk'.ver \in Nat /\ feedDisk'.entries \in Bodies
    BY <2>1, <2>2, <1>1, SavedTyped
  <2>4. Public(entries', ready')[b] = "revoked"
    BY <2>2, <2>3 DEF Public
  <2>5. Emitted(EventOf("body-revoked", b, entries', ready', feedVer', changes'))
    BY <2>1 DEF Tell
  <2> QED
    BY <2>1, <2>2, <2>3, <2>4, <2>5, <1>3, ToldKeeps
<1>7. CASE RemoveBody(b)
  <2> DEFINE e == [entries EXCEPT ![b] = "none"]
  <2>1. Saved(e, 1) /\ ready' = ready /\ Tell("body-removed", b) /\ UNCHANGED <<feedPage, fetches, view>>
    BY <1>7 DEF RemoveBody
  <2>2. e \in Bodies /\ e[b] = "none" /\ \A c \in FeedBodies : c # b => e[c] = entries[c]
    BY <1>2, <1>3
  <2> HIDE DEF e
  <2>3. /\ entries' = e /\ changes' = changes + 1 /\ feedVer' = feedVer + 1
        /\ feedDisk'.ver \in Nat /\ feedDisk'.entries \in Bodies
    BY <2>1, <2>2, <1>1, SavedTyped
  <2>4. Public(entries', ready')[b] = "none"
    BY <2>2, <2>3 DEF Public
  <2>5. Emitted(EventOf("body-removed", b, entries', ready', feedVer', changes'))
    BY <2>1 DEF Tell
  <2> QED
    BY <2>1, <2>2, <2>3, <2>4, <2>5, <1>3, ToldKeeps
<1> QED
  BY <1>4, <1>5, <1>6, <1>7

\* A Body that is lost: told of as a change, told of in vain, or not at all.
LEMMA BodyLostKeeps ==
  ASSUME FeedInv, NEW b \in FeedBodies, BodyLost(b)
  PROVE  FeedInv'
<1>1. FeedTyped /\ entries \in Bodies /\ entries[b] \in Status /\ changes \in Nat /\ feedVer \in Nat
  BY DEF FeedInv, FeedTyped, Bodies
<1>2. PICK V, B, L, E, M : Story(V, B, L, E, M)
  BY DEF FeedInv
<1>3. ready' = ready \ {b} /\ UNCHANGED <<feedPage, fetches, view>> /\ UNCHANGED <<fetches, mounted, view>>
  BY DEF BodyLost, feedPage
<1>4. \A c \in FeedBodies : c # b => (c \in ready' <=> c \in ready)
  BY <1>3
<1>5. CASE entries[b] \in {"online", "offline"}
  <2> DEFINE e == IF entries[b] = "online" THEN [entries EXCEPT ![b] = "offline"] ELSE entries
  <2>1. Saved(e, 1) /\ Tell("body-status", b)
    BY <1>5 DEF BodyLost
  <2>2. e \in Bodies /\ e[b] = "offline" /\ \A c \in FeedBodies : c # b => e[c] = entries[c]
    BY <1>1, <1>5 DEF Bodies, Status
  <2> HIDE DEF e
  <2>3. /\ entries' = e /\ changes' = changes + 1 /\ feedVer' = feedVer + 1
        /\ feedDisk'.ver \in Nat /\ feedDisk'.entries \in Bodies
    BY <2>1, <2>2, <1>1, SavedTyped
  <2>4. Public(entries', ready')[b] = "offline"
    BY <2>2, <2>3, <1>3 DEF Public
  <2>5. Emitted(EventOf("body-status", b, entries', ready', feedVer', changes'))
    BY <2>1 DEF Tell
  <2>6. "body-status" \in EventTypes
    BY DEF EventTypes
  <2> QED
    BY <2>2, <2>3, <2>4, <2>5, <2>6, <1>3, <1>4, ToldKeeps
\* A removed or revoked Body has the same public record, connected or not.
<1>6. ASSUME entries[b] \in {"none", "revoked"}, entries' = entries
      PROVE  Public(entries', ready') = Public(entries, ready)
  BY <1>4, <1>6 DEF Public
<1>7. CASE entries[b] = "revoked"
  <2>1. Saved(entries, 1) /\ feedSock' = feedSock
    BY <1>7 DEF BodyLost
  <2>2. /\ entries' = entries /\ changes' = changes + 1 /\ feedVer' = feedVer + 1
        /\ feedDisk'.ver \in Nat /\ feedDisk'.entries \in Bodies
    BY <2>1, <1>1, SavedTyped
  <2>3. FeedTyped'
    BY <2>1, <2>2, <1>1, <1>3 DEF FeedTyped
  <2>4. PICK n : n = changes
    OBVIOUS
  <2>5. feedVer' \in Nat /\ feedVer' >= feedVer /\ Public(entries', ready') \in Bodies
    BY <2>2, <1>1, PublicTyped
  <2>6. \E V2, B2, L2 : Story(V2, B2, L2, E, M)'
    BY <2>1, <2>2, <2>4, <2>5, <1>1, <1>2, <1>3, <1>6, <1>7, StoryGrows
  <2> QED
    BY <2>3, <2>6 DEF FeedInv
<1>8. CASE entries[b] = "none"
  <2>1. changes' = changes + 1 /\ UNCHANGED <<entries, feedVer, feedDisk>> /\ Tell("body-status", b)
    BY <1>8 DEF BodyLost
  <2>2. PICK x : x = EventOf("body-status", b, entries', ready', feedVer', changes')
    OBVIOUS
  <2>3. /\ x \in Events /\ x.at = changes' /\ x.ver = feedVer' /\ x.type = "body-status"
        /\ x.status = Public(entries', ready')[b]
    <3>1. changes' \in Nat /\ feedVer' \in Nat
      BY <2>1, <1>1
    <3>2. entries' \in Bodies
      BY <2>1, <1>1
    <3>3. "body-status" \in EventTypes
      BY DEF EventTypes
    <3>4. PICK type, e, r, v, n : /\ type = "body-status" /\ e = entries' /\ r = ready'
                                  /\ v = feedVer' /\ n = changes'
      OBVIOUS
    <3>5. x = EventOf(type, b, e, r, v, n)
      BY <2>2, <3>4
    <3>6. type \in EventTypes /\ e \in Bodies /\ v \in Nat /\ n \in Nat
      BY <3>1, <3>2, <3>3, <3>4
    <3>7. /\ x \in Events /\ x.at = n /\ x.ver = v /\ x.type = type /\ x.status = Public(e, r)[b]
      <4>1. b \in FeedBodies
        OBVIOUS
      <4> QED
        BY ONLY <3>5, <3>6, <4>1, EventTyped
    <3> QED
      BY ONLY <3>4, <3>7
  <2>4. Emitted(x) /\ Ignored(x)
    <3>1. Public(entries', ready')[b] = "none"
      BY <2>1, <1>8 DEF Public
    <3> QED
      BY <3>1, <2>1, <2>2, <2>3 DEF Tell, Ignored
  <2>5. FeedTyped'
    <3>1. feedSock' \in [FeedSockets -> Socks]
      BY <2>3, <2>4, <1>1, EmittedTyped
    <3> QED
      BY <3>1, <2>1, <1>1, <1>3 DEF FeedTyped
  <2>6. PICK n : n = changes /\ changes' = n + 1
    BY <2>1
  <2>7. feedVer' \in Nat /\ feedVer' >= feedVer /\ Public(entries', ready') \in Bodies
    BY <2>1, <1>1, PublicTyped
  <2>8. \E e \in Events :
         /\ Emitted(e) /\ e.at = n + 1 /\ e.ver = feedVer' /\ (Ignored(e) <=> ~FALSE)
         /\ FALSE => Public(entries', ready') = [Public(entries, ready) EXCEPT ![e.body] = NewStatus(e)]
    BY <2>3, <2>4, <2>6
  <2>9. Public(entries', ready') = Public(entries, ready)
    BY <2>1, <1>6, <1>8
  <2>10. \E V2, B2, L2 : Story(V2, B2, L2, E, M)'
    BY <2>6, <2>7, <2>8, <2>9, <1>1, <1>2, <1>3, StoryGrows
  <2> QED
    BY <2>5, <2>10 DEF FeedInv
<1> QED
  BY <1>1, <1>5, <1>7, <1>8 DEF Status

\* The process starts again: a new epoch, with no socket open and no request
\* under way.
LEMMA RestartKeeps ==
  ASSUME FeedInv, BrainRestart
  PROVE  FeedInv'
<1>1. FeedTyped
  BY DEF FeedInv
<1>2. PICK V, B, L, E, M : Story(V, B, L, E, M)
  BY DEF FeedInv
<1>3. /\ changes' = changes + 1 /\ entries' = feedDisk.entries /\ feedVer' = feedDisk.ver
      /\ feedSock' = [s \in FeedSockets |->
           IF feedSock[s].phase \in {"connecting", "open"}
           THEN [phase |-> "closing", frames |-> <<>>] ELSE feedSock[s]]
      /\ fetches' = [f \in DOMAIN fetches |->
           IF fetches[f].state = "asked" THEN [state |-> "done"] ELSE fetches[f]]
      /\ UNCHANGED <<feedDisk, feedPage, view>>
  BY DEF BrainRestart
<1>4. DOMAIN fetches' = DOMAIN fetches /\ \A f \in DOMAIN fetches : fetches'[f].state = "answered" =>
        fetches[f].state = "answered" /\ fetches'[f] = fetches[f]
  BY <1>3
<1>5. FeedTyped'
  <2>1. feedSock' \in [FeedSockets -> Socks]
    <3>1. [phase |-> "closing", frames |-> <<>>] \in Socks
      BY DEF Socks, FeedPhases
    <3> QED
      BY <3>1, <1>1, <1>3 DEF FeedTyped
  <2>2. changes' \in Nat
    BY <1>1, <1>3 DEF FeedTyped
  <2> QED
    BY <2>1, <2>2, <1>1, <1>3, <1>4 DEF FeedTyped, feedPage
<1>6. \A s \in FeedSockets : ~Open(s)'
  BY <1>3 DEF Open
<1>7. PICK n, v, p : n = changes /\ changes' = n + 1 /\ v = feedVer' /\ p = Public(entries', ready')
                     /\ n \in Nat /\ v \in Nat /\ p \in Bodies
  BY <1>1, <1>3, PublicTyped DEF FeedTyped
<1> DEFINE V2 == [V EXCEPT ![n + 1] = v]
           B2 == [B EXCEPT ![n + 1] = p]
           L2 == [L EXCEPT ![n + 1] = n + 1]
<1>8. /\ V2 \in [Nat -> Nat] /\ B2 \in [Nat -> Bodies] /\ L2 \in [Nat -> Nat]
      /\ V2[n + 1] = v /\ B2[n + 1] = p /\ L2[n + 1] = n + 1 /\ M \in 0..n
  BY <1>2, <1>7 DEF Story, History, Bodies
<1> HIDE DEF V2, B2, L2
<1>9. History(V2, B2, L2, n + 1, M)'
  <2>1. \A i \in (n + 1)..(n + 1) : i = n + 1
    BY <1>7
  <2>2. n + 1 \in 0..(n + 1) /\ M \in 0..(n + 1) /\ n + 1 \in (n + 1)..(n + 1) /\ n + 1 \in Nat
    BY <1>7, <1>8
  <2> QED
    BY <2>1, <2>2, <1>7, <1>8 DEF History, Bodies
<1>10. AnswersGood(V2, B2, n + 1)'
  <2> SUFFICES ASSUME NEW f \in DOMAIN fetches', fetches'[f].state = "answered"
               PROVE  fetches'[f].snap.at \in 0..n
    BY <1>7 DEF AnswersGood
  <2> QED
    BY <1>2, <1>4, <1>7 DEF Story, AnswersGood
<1>11. view'.at \in 0..(n + 1) /\ view'.ver \in Nat
  BY <1>2, <1>3, <1>7 DEF Story
<1>12. PageCovered(V2, B2, L2, n + 1, M)'
  BY <1>6 DEF PageCovered
<1>13. Story(V2, B2, L2, n + 1, M)'
  BY <1>6, <1>7, <1>9, <1>10, <1>11, <1>12 DEF Story
<1> QED
  BY <1>5, <1>13 DEF FeedInv

-----------------------------------------------------------------------------
(* The page's steps *)

\* What the registry is now, as a snapshot.
LEMMA SnapshotNow ==
  ASSUME FeedTyped, NEW V, NEW B, NEW L, NEW E, NEW M, History(V, B, L, E, M)
  PROVE  /\ Snapshot \in RegistrySnapshots /\ Snapshot \in AllFrames
         /\ Snapshot.type = "snapshot" /\ Snapshot.at = changes
         /\ SnapshotOf(Snapshot, V, B)
<1>1. entries \in Bodies /\ feedVer \in Nat /\ changes \in Nat
  BY DEF FeedTyped
<1>2. Public(entries, ready) \in Bodies
  BY <1>1, PublicTyped
<1> QED
  BY <1>1, <1>2 DEF Snapshot, RegistrySnapshots, AllFrames, SnapshotOf, History

\* The registry and the view as they were: open sockets are those of before or
\* begin with a snapshot of now, answers those of before or of now.
LEMMA ViewKept ==
  ASSUME FeedTyped, NEW V, NEW B, NEW L, NEW E, NEW M, Story(V, B, L, E, M),
         UNCHANGED <<feedBrain, view>>, mounted' => mounted,
         \A s \in FeedSockets : Open(s)' => \/ Open(s) /\ Frames(s)' = Frames(s)
                                         \/ Frames(s)' = <<Snapshot>>,
         \A f \in DOMAIN fetches' : fetches'[f].state = "answered" =>
            \/ f \in DOMAIN fetches /\ fetches[f].state = "answered" /\ fetches'[f].snap = fetches[f].snap
            \/ fetches'[f].snap = Snapshot,
         mounted' /\ Fetching(M) => Fetching(M)'
  PROVE  Story(V, B, L, E, M)'
<1>1. History(V, B, L, E, M) /\ changes \in Nat /\ E \in 0..changes /\ M \in 0..changes
  BY DEF Story, History
<1>2. /\ changes' = changes /\ view' = view /\ entries' = entries /\ ready' = ready /\ feedVer' = feedVer
  BY DEF feedBrain
<1>3. History(V, B, L, E, M)'
  BY <1>1, <1>2 DEF History
<1>4. Snapshot.type = "snapshot" /\ Snapshot.at = changes /\ SnapshotOf(Snapshot, V, B)
  BY <1>1, SnapshotNow
<1>5. PICK sn : sn = Snapshot
  OBVIOUS
<1>6. DOMAIN <<sn>> = {1} /\ <<sn>>[1] = sn
  OBVIOUS
<1>7. ASSUME NEW s \in FeedSockets, Open(s)' PROVE FramesGood(s, V, B, L, E)'
  <2>1. CASE Open(s) /\ Frames(s)' = Frames(s)
    BY <2>1, <1>2 DEF Story, FramesGood
  <2>2. CASE Frames(s)' = <<sn>>
    BY <2>2, <1>1, <1>2, <1>4, <1>5, <1>6 DEF FramesGood
  <2> QED
    BY <2>1, <2>2, <1>5, <1>7
<1>8. AnswersGood(V, B, E)'
  <2> SUFFICES ASSUME NEW f \in DOMAIN fetches', fetches'[f].state = "answered"
               PROVE  /\ fetches'[f].snap.at \in 0..changes
                      /\ fetches'[f].snap.at >= E => SnapshotOf(fetches'[f].snap, V, B)
    BY <1>2 DEF AnswersGood
  <2>1. CASE f \in DOMAIN fetches /\ fetches[f].state = "answered" /\ fetches'[f].snap = fetches[f].snap
    BY <2>1 DEF Story, AnswersGood
  <2>2. CASE fetches'[f].snap = Snapshot
    BY <2>2, <1>1, <1>4
  <2> QED
    BY <2>1, <2>2
<1>9. mounted' => PageCovered(V, B, L, E, M)'
  <2> SUFFICES ASSUME mounted', NEW s \in FeedSockets, Open(s)'
               PROVE  /\ \/ SnapshotFirst(s, L)'
                         \/ view.at >= E /\ Covers(s, view.at, L)'
                         \/ M >= E /\ Covers(s, M, L)' /\ Fetching(M)'
                      /\ Fetching(M)' \/ view.overtaken \/ SnapshotFirst(s, L)' \/ Synced(V, B, L, E)'
    BY <1>2 DEF PageCovered, Covers
  <2>1. CASE Open(s) /\ Frames(s)' = Frames(s)
    <3>1. SnapshotFirst(s, L)' <=> SnapshotFirst(s, L)
      BY <2>1, <1>2 DEF SnapshotFirst, Covers
    <3>2. Synced(V, B, L, E)' <=> Synced(V, B, L, E)
      BY <1>2 DEF Synced
    <3>3. Covers(s, view.at, L)' <=> Covers(s, view.at, L)
      BY <2>1, <1>2 DEF Covers
    <3>4. Covers(s, M, L)' <=> Covers(s, M, L)
      BY <2>1, <1>2 DEF Covers
    <3> QED
      BY <2>1, <3>1, <3>2, <3>3, <3>4, <1>2 DEF Story, PageCovered
  <2>2. CASE Frames(s)' = <<sn>>
    <3>1. SnapshotFirst(s, L)'
      BY <2>2, <1>1, <1>2, <1>4, <1>5, <1>6 DEF SnapshotFirst, Covers
    <3> QED
      BY <3>1
  <2> QED
    BY <2>1, <2>2, <1>5
<1> QED
  BY <1>2, <1>3, <1>7, <1>8, <1>9 DEF Story

\* A socket that is closed, or dialled, has no say yet; the others stay.
LEMMA SocketMoved ==
  ASSUME FeedTyped, NEW r \in FeedSockets, NEW x \in Socks, x.phase # "open",
         feedSock' = [feedSock EXCEPT ![r] = x]
  PROVE  /\ feedSock' \in [FeedSockets -> Socks]
         /\ \A s \in FeedSockets : Open(s)' => Open(s) /\ Frames(s)' = Frames(s)
  BY DEF FeedTyped, Open, Frames

\* Dialling leaves the open sockets alone.
LEMMA SocketDialled ==
  ASSUME FeedTyped, ConnectAdminWs
  PROVE  /\ feedSock' \in [FeedSockets -> Socks]
         /\ \A s \in FeedSockets : Open(s)' => Open(s) /\ Frames(s)' = Frames(s)
<1>1. CASE feedSock' = feedSock
  BY <1>1 DEF FeedTyped, Open, Frames
<1>2. CASE \E s \in FeedSockets : feedSock' = [feedSock EXCEPT ![s].phase = "connecting"]
  <2>1. PICK r \in FeedSockets : feedSock' = [feedSock EXCEPT ![r].phase = "connecting"]
    BY <1>2
  <2>2. feedSock[r] \in Socks
    BY DEF FeedTyped
  <2>3. PICK x : x = [feedSock[r] EXCEPT !.phase = "connecting"]
    OBVIOUS
  <2>4. x \in Socks /\ x.phase # "open"
    BY <2>2, <2>3 DEF Socks, FeedPhases
  <2>5. feedSock' = [feedSock EXCEPT ![r] = x]
    BY <2>1, <2>3
  <2> QED
    BY <2>4, <2>5, SocketMoved
<1> QED
  BY <1>1, <1>2 DEF ConnectAdminWs

\* Sockets that are cut, closed or dialled, and a page that is closed.
LEMMA SocketsKeep ==
  ASSUME FeedInv,
         \/ AdminReconnect \/ UnmountBrainPage
         \/ \E s \in FeedSockets : AdminCut(s) \/ AdminClosed(s)
  PROVE  FeedInv'
<1>1. FeedTyped
  BY DEF FeedInv
<1>2. PICK V, B, L, E, M : Story(V, B, L, E, M)
  BY DEF FeedInv
<1>3. /\ UNCHANGED <<feedBrain, view>> /\ mounted' \in BOOLEAN /\ (mounted' => mounted)
      /\ mounted' => fetches' = fetches
      /\ \/ fetches' = fetches
         \/ fetches' = [f \in DOMAIN fetches |->
               IF fetches[f].state \in {"asked", "answered"} THEN [state |-> "done"] ELSE fetches[f]]
  <2>1. mounted \in BOOLEAN
    BY <1>1 DEF FeedTyped
  <2>2. CASE AdminReconnect
    BY <2>1, <2>2 DEF AdminReconnect
  <2>3. CASE UnmountBrainPage
    BY <2>1, <2>3 DEF UnmountBrainPage
  <2>4. CASE \E s \in FeedSockets : AdminCut(s)
    BY <2>1, <2>4 DEF AdminCut, feedPage
  <2>5. CASE \E s \in FeedSockets : AdminClosed(s)
    BY <2>1, <2>5 DEF AdminClosed
  <2> QED
    BY <2>2, <2>3, <2>4, <2>5
<1>4. \A f \in DOMAIN fetches' : fetches'[f].state = "answered" =>
        f \in DOMAIN fetches /\ fetches[f].state = "answered" /\ fetches'[f].snap = fetches[f].snap
  <2>1. CASE fetches' = fetches
    BY <2>1
  <2>2. CASE fetches' = [f \in DOMAIN fetches |->
               IF fetches[f].state \in {"asked", "answered"} THEN [state |-> "done"] ELSE fetches[f]]
    BY <2>2
  <2> QED
    BY <1>3, <2>1, <2>2
<1>5. /\ feedSock' \in [FeedSockets -> Socks]
      /\ \A s \in FeedSockets : Open(s)' => Open(s) /\ Frames(s)' = Frames(s)
  <2>1. CASE feedSock' = feedSock
    BY <1>1, <2>1 DEF FeedTyped, Open, Frames
  <2>2. CASE AdminReconnect
    BY <1>1, <2>2, SocketDialled DEF AdminReconnect
  <2>3. ASSUME NEW r \in FeedSockets, feedSock' = [feedSock EXCEPT ![r] = [phase |-> "closing", frames |-> <<>>]]
        PROVE  /\ feedSock' \in [FeedSockets -> Socks]
               /\ \A s \in FeedSockets : Open(s)' => Open(s) /\ Frames(s)' = Frames(s)
    <3>1. PICK x : x = [phase |-> "closing", frames |-> <<>>]
      OBVIOUS
    <3>2. x \in Socks /\ x.phase # "open"
      BY <3>1 DEF Socks, FeedPhases
    <3> QED
      BY <3>1, <3>2, <2>3, <1>1, SocketMoved
  <2>4. CASE UnmountBrainPage
    <3>1. CASE feedRef \in FeedSockets
      BY <3>1, <2>1, <2>3, <2>4 DEF UnmountBrainPage
    \* A socket of no page cannot be the one in its ref.
    <3>2. CASE feedRef \notin FeedSockets
      BY <3>2, <2>1, <2>4, <1>1 DEF UnmountBrainPage, FeedTyped
    <3> QED
      BY <3>1, <3>2
  <2>5. ASSUME NEW r \in FeedSockets, AdminCut(r)
        PROVE  /\ feedSock' \in [FeedSockets -> Socks]
               /\ \A s \in FeedSockets : Open(s)' => Open(s) /\ Frames(s)' = Frames(s)
    BY <2>3, <2>5 DEF AdminCut
  <2>6. ASSUME NEW r \in FeedSockets, AdminClosed(r)
        PROVE  /\ feedSock' \in [FeedSockets -> Socks]
               /\ \A s \in FeedSockets : Open(s)' => Open(s) /\ Frames(s)' = Frames(s)
    <3>1. PICK x : x = [feedSock[r] EXCEPT !.phase = "closed"]
      OBVIOUS
    <3>2. feedSock[r] \in Socks
      BY <1>1 DEF FeedTyped
    <3>3. x \in Socks /\ x.phase # "open"
      BY <3>1, <3>2 DEF Socks, FeedPhases
    <3>4. feedSock' = [feedSock EXCEPT ![r] = x]
      BY <2>6, <3>1 DEF AdminClosed
    <3> QED
      BY <3>3, <3>4, <1>1, SocketMoved
  <2> QED
    BY <2>2, <2>4, <2>5, <2>6
<1>6. FeedTyped'
  <2>1. \A f \in DOMAIN fetches' : fetches'[f].state = "answered" => fetches'[f].snap \in RegistrySnapshots
    BY <1>1, <1>4 DEF FeedTyped
  <2> QED
    BY <2>1, <1>1, <1>3, <1>5 DEF FeedTyped, feedBrain
<1>7. mounted' /\ Fetching(M) => Fetching(M)'
  BY <1>3 DEF Fetching
<1>8. Story(V, B, L, E, M)'
  BY <1>1, <1>2, <1>3, <1>4, <1>5, <1>7, ViewKept
<1> QED
  BY <1>6, <1>8 DEF FeedInv

\* A socket that opens, a GET that is sent, and one that is answered.
LEMMA RequestsKeep ==
  ASSUME FeedInv,
         \/ RefreshDevices
         \/ \E f \in DOMAIN fetches : AnswerDevices(f)
         \/ \E s \in FeedSockets : AdminOpened(s)
  PROVE  FeedInv'
<1>1. FeedTyped
  BY DEF FeedInv
<1>2. PICK V, B, L, E, M : Story(V, B, L, E, M)
  BY DEF FeedInv
<1>3. /\ Snapshot \in RegistrySnapshots /\ Snapshot \in AllFrames /\ Snapshot.at = changes
      /\ M \in 0..changes
  <2>1. History(V, B, L, E, M)
    BY <1>2 DEF Story
  <2>2. M \in 0..changes
    BY <2>1 DEF History
  <2> QED
    BY <1>1, <2>1, <2>2, SnapshotNow
<1>4. UNCHANGED <<feedBrain, view>> /\ mounted' = mounted
  BY DEF RefreshDevices, AnswerDevices, AdminOpened, feedPage
<1>5. PICK sn : sn = Snapshot
  OBVIOUS
<1>6. \/ fetches' = fetches
      \/ \E f \in DOMAIN fetches : fetches' = [fetches EXCEPT ![f] = [state |-> "asked"]]
      \/ \E f \in DOMAIN fetches : fetches[f].state = "asked"
                               /\ fetches' = [fetches EXCEPT ![f] = [state |-> "answered", snap |-> sn]]
  BY <1>5 DEF RefreshDevices, LoadDevices, AnswerDevices, AdminOpened
<1>7. /\ \A f \in DOMAIN fetches' : fetches'[f].state = "answered" =>
           \/ f \in DOMAIN fetches /\ fetches[f].state = "answered" /\ fetches'[f].snap = fetches[f].snap
           \/ fetches'[f].snap = sn
      /\ Fetching(M) => Fetching(M)'
  <2>1. CASE fetches' = fetches
    BY <2>1 DEF Fetching
  <2>2. CASE \E f \in DOMAIN fetches : fetches' = [fetches EXCEPT ![f] = [state |-> "asked"]]
    BY <2>2 DEF Fetching
  <2>3. ASSUME NEW f \in DOMAIN fetches, fetches[f].state = "asked",
               fetches' = [fetches EXCEPT ![f] = [state |-> "answered", snap |-> sn]]
        PROVE  /\ \A g \in DOMAIN fetches' : fetches'[g].state = "answered" =>
                    \/ g \in DOMAIN fetches /\ fetches[g].state = "answered" /\ fetches'[g].snap = fetches[g].snap
                    \/ fetches'[g].snap = sn
               /\ Fetching(M)'
    <3>1. sn.at >= M
      BY <1>3, <1>5 DEF Story, History
    <3>2. f \in DOMAIN fetches' /\ fetches'[f].state = "answered" /\ fetches'[f].snap = sn
      BY <2>3
    <3>3. \A g \in DOMAIN fetches' : g # f => g \in DOMAIN fetches /\ fetches'[g] = fetches[g]
      BY <2>3
    <3> QED
      BY <3>1, <3>2, <3>3 DEF Fetching
  <2> QED
    BY <1>6, <2>1, <2>2, <2>3
<1>8. /\ feedSock' \in [FeedSockets -> Socks]
      /\ \A s \in FeedSockets : Open(s)' => (Open(s) /\ Frames(s)' = Frames(s)) \/ Frames(s)' = <<sn>>
  <2>1. CASE feedSock' = feedSock
    BY <1>1, <2>1 DEF FeedTyped, Open, Frames
  <2>2. ASSUME NEW r \in FeedSockets, feedSock' = [feedSock EXCEPT ![r] = [phase |-> "open", frames |-> <<sn>>]]
        PROVE  /\ feedSock' \in [FeedSockets -> Socks]
               /\ \A s \in FeedSockets : Open(s)' => (Open(s) /\ Frames(s)' = Frames(s)) \/ Frames(s)' = <<sn>>
    <3>1. <<sn>> \in Seq(AllFrames)
      BY <1>3, <1>5
    <3>2. PICK x : x = [phase |-> "open", frames |-> <<sn>>]
      OBVIOUS
    <3>3. x \in Socks /\ x.frames = <<sn>>
      BY <3>1, <3>2 DEF Socks, FeedPhases
    <3> QED
      BY <3>2, <3>3, <2>2, <1>1 DEF FeedTyped, Open, Frames
  <2> QED
    BY <2>1, <2>2, <1>5 DEF RefreshDevices, AnswerDevices, AdminOpened
<1>9. FeedTyped'
  <2>1. \A f \in DOMAIN fetches' : fetches'[f].state = "answered" => fetches'[f].snap \in RegistrySnapshots
    BY <1>1, <1>3, <1>5, <1>7 DEF FeedTyped
  <2> QED
    BY <2>1, <1>1, <1>4, <1>8 DEF FeedTyped, feedBrain
<1>10. Story(V, B, L, E, M)'
  BY <1>1, <1>2, <1>4, <1>5, <1>7, <1>8, ViewKept
<1> QED
  BY <1>9, <1>10 DEF FeedInv

\* A page that is opened asks for the registry of now.
LEMMA MountKeeps ==
  ASSUME FeedInv, MountBrainPage
  PROVE  FeedInv'
<1>1. FeedTyped
  BY DEF FeedInv
<1>2. PICK V, B, L, E, M : Story(V, B, L, E, M)
  BY DEF FeedInv
<1>3. PICK n : n = changes
  OBVIOUS
<1>4. /\ UNCHANGED feedBrain /\ ConnectAdminWs
      /\ view' = [ver |-> 0, bodies |-> [b \in FeedBodies |-> "none"], at |-> 0, overtaken |-> FALSE]
      /\ mounted' = TRUE
  BY DEF MountBrainPage
<1>5. /\ changes' = n /\ entries' = entries /\ ready' = ready /\ feedVer' = feedVer /\ feedDisk' = feedDisk
  BY <1>3, <1>4 DEF feedBrain
<1>6. /\ feedSock' \in [FeedSockets -> Socks]
      /\ \A s \in FeedSockets : Open(s)' => Open(s) /\ Frames(s)' = Frames(s)
  BY <1>1, <1>4, SocketDialled
<1>7. PICK f \in DOMAIN fetches : fetches' = [fetches EXCEPT ![f] = [state |-> "asked"]]
  BY DEF MountBrainPage, LoadDevices
<1>8. /\ Fetching(n)'
      /\ DOMAIN fetches' = DOMAIN fetches
      /\ \A g \in DOMAIN fetches' : fetches'[g].state = "answered" =>
             fetches[g].state = "answered" /\ fetches'[g].snap = fetches[g].snap
  <2>1. f \in DOMAIN fetches' /\ fetches'[f].state = "asked"
    BY <1>7
  <2> QED
    BY <1>7, <2>1 DEF Fetching
<1>9. n \in Nat /\ E \in 0..n /\ n \in 0..n
  BY <1>2, <1>3 DEF Story, History
<1>10. FeedTyped'
  <2>1. [b \in FeedBodies |-> "none"] \in Bodies
    BY DEF Bodies, Status
  <2>2. view' \in Views
    BY <2>1, <1>4 DEF Views
  <2>3. \A g \in DOMAIN fetches' : fetches'[g].state = "answered" => fetches'[g].snap \in RegistrySnapshots
    BY <1>1, <1>8 DEF FeedTyped
  <2> QED
    BY <2>2, <2>3, <1>1, <1>3, <1>4, <1>5, <1>6 DEF FeedTyped
<1>11. History(V, B, L, E, n)'
  BY <1>2, <1>3, <1>5, <1>9 DEF Story, History
<1>12. \A s \in FeedSockets : Open(s)' => FramesGood(s, V, B, L, E)'
  BY <1>2, <1>3, <1>5, <1>6 DEF Story, FramesGood
<1>13. AnswersGood(V, B, E)'
  BY <1>2, <1>3, <1>5, <1>8 DEF Story, AnswersGood
<1>14. \A s \in FeedSockets : Covers(s, n, L)'
  BY <1>5, <1>9 DEF Covers
<1>15. PageCovered(V, B, L, E, n)'
  BY <1>8, <1>9, <1>14 DEF PageCovered
<1>16. view'.at \in 0..n /\ view'.ver \in Nat
  BY <1>4, <1>9
<1>17. Story(V, B, L, E, n)'
  BY <1>5, <1>11, <1>12, <1>13, <1>15, <1>16 DEF Story
<1> QED
  BY <1>10, <1>17 DEF FeedInv

\* What is under way of the changes after x covers those after a later y.
LEMMA CoversLater ==
  ASSUME NEW s, NEW L, NEW x \in Nat, NEW y \in Nat, x <= y, changes \in Nat, Covers(s, x, L)
  PROVE  Covers(s, y, L)
  BY DEF Covers

\* A snapshot that is not older than what the page was told of.
LEMMA ReplacedTyped ==
  ASSUME FeedTyped, NEW x \in RegistrySnapshots
  PROVE  /\ Replaced(x) \in Views
         /\ Replaced(x).overtaken <=> x.at < view.at
         /\ Replaced(x).at >= view.at /\ Replaced(x).at >= x.at
         /\ Replaced(x).at \in {x.at, view.at}
         /\ ~(x.at < view.at) => Replaced(x).at = x.at
         /\ Replaced(x).bodies = x.bodies /\ Replaced(x).ver = x.ver
<1>1. view.at \in Nat /\ x.at \in Nat /\ x.ver \in Nat /\ x.bodies \in Bodies
  BY DEF FeedTyped, Views, RegistrySnapshots
<1>2. PICK late, at : late = (x.at < view.at) /\ at = IF x.at < view.at THEN view.at ELSE x.at
  BY Zenon
<1>3. Replaced(x) = [ver |-> x.ver, bodies |-> x.bodies, overtaken |-> late, at |-> at]
  BY <1>2, Zenon DEF Replaced
<1>4. late <=> x.at < view.at
  BY <1>2, Zenon
<1>5. late \in BOOLEAN
  BY <1>1, <1>2, SMT
<1>6. at >= view.at /\ at >= x.at /\ at \in {x.at, view.at} /\ (~(x.at < view.at) => at = x.at)
  BY <1>1, <1>2
<1>7. at \in Nat
  BY <1>1, <1>6
<1>8. Replaced(x) \in Views
  BY <1>1, <1>3, <1>5, <1>7 DEF Views
<1> QED
  BY <1>3, <1>4, <1>6, <1>8

\* A view that is a snapshot of the epoch.
LEMMA SnapshotSynced ==
  ASSUME NEW V, NEW B, NEW L, NEW E, NEW M, History(V, B, L, E, M),
         view'.at \in E..changes, view'.bodies = B[view'.at], view'.ver = V[view'.at]
  PROVE  Synced(V, B, L, E)'
<1>1. PICK k, n : k = view'.at /\ n = changes
  OBVIOUS
<1>2. /\ k \in E..n /\ E \in 0..n /\ n \in Nat /\ V \in [Nat -> Nat]
      /\ L[k] \in E..k
      /\ \A i, j \in E..n : i <= j => V[i] <= V[j]
  BY <1>1 DEF History
<1>3. L[k] \in E..n /\ L[k] <= k /\ k \in Nat /\ k >= E
  BY <1>2
<1>4. V[L[k]] <= V[k] /\ V[k] \in Nat
  BY <1>2, <1>3
<1>5. view'.bodies = B[k] /\ view'.ver = V[k]
  BY <1>1
<1>6. V[k] <= V[k]
  BY <1>4
<1> QED
  BY <1>1, <1>3, <1>4, <1>5, <1>6 DEF Synced

\* An answer taken into the view.
LEMMA LoadedKeeps ==
  ASSUME FeedInv, NEW f \in DOMAIN fetches, DevicesLoaded(f)
  PROVE  FeedInv'
<1>1. FeedTyped
  BY DEF FeedInv
<1>2. PICK V, B, L, E, M : Story(V, B, L, E, M)
  BY DEF FeedInv
<1>3. PICK x, n, a : x = fetches[f].snap /\ n = changes /\ a = view.at
  OBVIOUS
<1>4. /\ fetches[f].state = "answered" /\ fetches' = [fetches EXCEPT ![f] = [state |-> "done"]]
      /\ view' = Replaced(x) /\ UNCHANGED <<feedBrain, feedPage, feedSock>>
  BY <1>3 DEF DevicesLoaded, Reconciled
<1>5. x \in RegistrySnapshots
  BY <1>1, <1>3, <1>4 DEF FeedTyped
<1>6. /\ view' \in Views /\ (view'.overtaken <=> x.at < a)
      /\ view'.at >= a /\ view'.at >= x.at /\ view'.at \in {x.at, a}
      /\ ~(x.at < a) => view'.at = x.at
      /\ view'.bodies = x.bodies /\ view'.ver = x.ver
  BY <1>1, <1>3, <1>4, <1>5, ReplacedTyped
<1>7. /\ changes' = n /\ entries' = entries /\ ready' = ready /\ feedVer' = feedVer /\ feedDisk' = feedDisk
      /\ feedSock' = feedSock /\ mounted' = mounted
  BY <1>3, <1>4 DEF feedBrain, feedPage
<1>8. /\ DOMAIN fetches' = DOMAIN fetches
      /\ \A g \in DOMAIN fetches : g # f => fetches'[g] = fetches[g]
      /\ fetches'[f].state = "done"
  BY <1>4
<1>9. \A g \in DOMAIN fetches' : fetches'[g].state = "answered" =>
        g \in DOMAIN fetches /\ fetches[g].state = "answered" /\ fetches'[g] = fetches[g]
  BY <1>8
<1>10. FeedTyped'
  BY <1>1, <1>3, <1>6, <1>7, <1>9 DEF FeedTyped
<1>11. /\ History(V, B, L, E, M) /\ n \in Nat /\ E \in 0..n /\ M \in 0..n
  BY <1>2, <1>3 DEF Story, History
<1>12. History(V, B, L, E, M)'
  BY <1>3, <1>7, <1>11 DEF History
<1>13. /\ x.at \in 0..n /\ a \in 0..n /\ (x.at >= E => x.ver = V[x.at] /\ x.bodies = B[x.at])
  <2>1. AnswersGood(V, B, E) /\ a \in 0..n
    BY <1>2, <1>3 DEF Story
  <2>2. /\ fetches[f].snap.at \in 0..changes
        /\ fetches[f].snap.at >= E => SnapshotOf(fetches[f].snap, V, B)
    BY <2>1, <1>4 DEF AnswersGood
  <2> QED
    BY <2>1, <2>2, <1>3 DEF SnapshotOf
<1>14. view'.at \in 0..n /\ view'.ver \in Nat
  BY <1>6, <1>13 DEF Views
<1>15. \A s \in FeedSockets : Open(s)' => FramesGood(s, V, B, L, E)'
  BY <1>2, <1>3, <1>7 DEF Story, FramesGood, Open, Frames
<1>16. AnswersGood(V, B, E)'
  BY <1>2, <1>3, <1>7, <1>9 DEF Story, AnswersGood
<1>17. Fetching(M) => Fetching(M)' \/ x.at >= M
  <2> SUFFICES ASSUME NEW g \in DOMAIN fetches,
                      \/ fetches[g].state = "asked"
                      \/ fetches[g].state = "answered" /\ fetches[g].snap.at >= M
               PROVE  Fetching(M)' \/ x.at >= M
    BY DEF Fetching
  <2>1. CASE g = f
    BY <2>1, <1>3, <1>4
  <2>2. CASE g # f
    <3>1. g \in DOMAIN fetches' /\ fetches'[g] = fetches[g]
      BY <2>2, <1>8
    <3> QED
      BY <3>1 DEF Fetching
  <2> QED
    BY <2>1, <2>2
<1>18. ASSUME mounted', NEW s \in FeedSockets, Open(s)'
       PROVE  /\ \/ SnapshotFirst(s, L)'
                 \/ view'.at >= E /\ Covers(s, view.at, L)'
                 \/ M >= E /\ Covers(s, M, L)' /\ Fetching(M)'
              /\ Fetching(M)' \/ view'.overtaken \/ SnapshotFirst(s, L)' \/ Synced(V, B, L, E)'
  <2>1. /\ \/ SnapshotFirst(s, L)
           \/ a >= E /\ Covers(s, a, L)
           \/ M >= E /\ Covers(s, M, L) /\ Fetching(M)
    BY <1>2, <1>3, <1>7, <1>18 DEF Story, PageCovered, Open
  <2>2. \A y : Covers(s, y, L) => Covers(s, y, L)'
    BY <1>3, <1>7 DEF Covers, Frames
  <2>3. SnapshotFirst(s, L) => SnapshotFirst(s, L)'
    BY <1>3, <1>7 DEF SnapshotFirst, Frames, Covers
  <2>4. \A y \in Nat : Covers(s, y, L) /\ y <= view'.at => Covers(s, view.at, L)'
    <3> SUFFICES ASSUME NEW y \in Nat, Covers(s, y, L), y <= view'.at PROVE Covers(s, view.at, L)'
      OBVIOUS
    <3>1. PICK z : z = view'.at /\ z \in Nat /\ y <= z
      BY <1>14
    <3>2. changes \in Nat
      BY <1>3, <1>11
    <3>3. Covers(s, z, L)
      BY <3>1, <3>2, CoversLater
    <3>4. Covers(s, z, L)'
      BY <2>2, <3>3
    <3> QED
      BY <3>1, <3>4 DEF Covers
  \* A late answer that was to cover the socket is of the page's time.
  <2>5. \/ SnapshotFirst(s, L)'
        \/ view'.at >= E /\ Covers(s, view.at, L)'
        \/ M >= E /\ Covers(s, M, L)' /\ Fetching(M)'
    <3>1. CASE a >= E /\ Covers(s, a, L)
      <4>1. a \in Nat /\ a <= view'.at /\ view'.at >= E
        BY <3>1, <1>6, <1>11, <1>13, <1>14
      <4> QED
        BY <3>1, <4>1, <2>4
    <3>2. CASE M >= E /\ Covers(s, M, L) /\ x.at >= M
      <4>1. M \in Nat /\ M <= view'.at /\ view'.at >= E
        BY <3>2, <1>6, <1>11, <1>13, <1>14
      <4> QED
        BY <3>2, <4>1, <2>4
    <3> QED
      BY <2>1, <2>2, <2>3, <3>1, <3>2, <1>17
  <2>6. Fetching(M)' \/ view'.overtaken \/ SnapshotFirst(s, L)' \/ Synced(V, B, L, E)'
    <3>1. CASE x.at < a
      BY <3>1, <1>6
    <3>2. CASE ~(x.at < a) /\ x.at >= E
      <4>1. view'.at \in E..changes
        BY <3>2, <1>3, <1>6, <1>11, <1>14
      <4>2. view'.bodies = B[view'.at] /\ view'.ver = V[view'.at]
        BY <3>2, <1>6, <1>13
      <4> QED
        BY <4>1, <4>2, <1>11, SnapshotSynced
    <3>3. CASE ~(x.at < a) /\ ~(x.at >= E)
      <4>1. ~(a >= E) /\ (M >= E => ~(x.at >= M))
        BY <3>3, <1>11, <1>13
      <4> QED
        BY <4>1, <2>1, <2>3, <1>17
    <3> QED
      BY <3>1, <3>2, <3>3
  <2> QED
    BY <2>5, <2>6
<1>19. mounted' => PageCovered(V, B, L, E, M)'
  BY <1>18 DEF PageCovered
<1>20. Story(V, B, L, E, M)'
  BY <1>7, <1>12, <1>14, <1>15, <1>16, <1>19 DEF Story
<1> QED
  BY <1>10, <1>20 DEF FeedInv

\* What an event does to the view.
LEMMA AppliedTyped ==
  ASSUME FeedTyped, NEW e \in Events
  PROVE  /\ Applied(e) \in Views
         /\ Applied(e).overtaken = view.overtaken
         /\ Applied(e).at = IF e.at < view.at THEN view.at ELSE e.at
         /\ e.ver <= view.ver \/ Ignored(e) => Applied(e).ver = view.ver /\ Applied(e).bodies = view.bodies
         /\ ~(e.ver <= view.ver \/ Ignored(e)) =>
              Applied(e).ver = e.ver /\ Applied(e).bodies = [view.bodies EXCEPT ![e.body] = NewStatus(e)]
<1>1. view \in Views /\ view.at \in Nat /\ e.at \in Nat /\ e.ver \in Nat /\ e.status \in Status
      /\ e.body \in FeedBodies
  BY DEF FeedTyped, Views, Events
<1>2. PICK m : m = IF e.at < view.at THEN view.at ELSE e.at
  OBVIOUS
<1>3. m \in Nat
  BY <1>1, <1>2
<1>4. Seen(e) = [view EXCEPT !.at = m]
  BY <1>2 DEF Seen
<1>5. /\ Seen(e) \in Views /\ Seen(e).at = m /\ Seen(e).overtaken = view.overtaken
      /\ Seen(e).ver = view.ver /\ Seen(e).bodies = view.bodies
  BY <1>1, <1>3, <1>4 DEF Views
<1>6. PICK z : z = Seen(e)
  OBVIOUS
<1>7. NewStatus(e) \in Status
  BY <1>1 DEF NewStatus, Status
<1>8. PICK t : t = NewStatus(e) /\ t \in Status
  BY <1>7
<1>9. AppliedTo(e) = [z EXCEPT !.ver = e.ver, !.bodies = [z.bodies EXCEPT ![e.body] = t]]
  BY <1>1, <1>5, <1>6, <1>8 DEF AppliedTo, NewStatus, Views, Bodies
<1>10. [z.bodies EXCEPT ![e.body] = t] \in Bodies
  BY <1>1, <1>5, <1>6, <1>8 DEF Views, Bodies
<1>11. /\ AppliedTo(e) \in Views /\ AppliedTo(e).at = m /\ AppliedTo(e).overtaken = view.overtaken
       /\ AppliedTo(e).ver = e.ver /\ AppliedTo(e).bodies = [view.bodies EXCEPT ![e.body] = t]
  BY <1>1, <1>5, <1>6, <1>9, <1>10 DEF Views
<1>12. CASE e.ver <= view.ver \/ Ignored(e)
  BY <1>2, <1>5, <1>12 DEF Applied
<1>13. CASE ~(e.ver <= view.ver \/ Ignored(e))
  BY <1>2, <1>8, <1>11, <1>13 DEF Applied
<1> QED
  BY <1>12, <1>13

\* A view that was the registry after its change is the registry after the
\* event, when no change between them was told of.
LEMMA EventSynced ==
  ASSUME FeedTyped, NEW V, NEW B, NEW L, NEW E, NEW M, History(V, B, L, E, M),
         Synced(V, B, L, E), view.at \in 0..changes,
         NEW e \in Events, EventIn(e, V, B, L, E), e.at \in E..changes,
         \A i \in (view.at + 1)..(e.at - 1) : L[i] # i,
         view' = Applied(e)
  PROVE  Synced(V, B, L, E)'
<1>1. PICK a, j, n, v, c : /\ a = view.at /\ j = e.at /\ n = changes /\ v = view.ver
                          /\ c = view.bodies
  OBVIOUS
<1>2. /\ V \in [Nat -> Nat] /\ L \in [Nat -> Nat] /\ n \in Nat /\ E \in 0..n
      /\ \A i \in E..n : L[i] \in E..i /\ L[L[i]] = L[i]
      /\ \A i, k \in E..n :
           /\ i <= k => V[i] <= V[k] /\ L[i] <= L[k]
           /\ i < k /\ L[k] = k => V[i] < V[k]
           /\ L[i] = L[k] => B[i] = B[k]
  BY <1>1 DEF History
<1>3. /\ a \in E..n /\ c = B[a] /\ V[L[a]] <= v /\ v <= V[a] /\ v \in Nat
  BY <1>1, <1>2 DEF Synced, FeedTyped, Views
<1>4. /\ j \in E..n /\ j > E /\ e.ver = V[j] /\ j - 1 \in E..n /\ (Ignored(e) <=> L[j] # j)
      /\ ~Ignored(e) => B[j] = [B[j - 1] EXCEPT ![e.body] = NewStatus(e)]
  BY <1>1, <1>2 DEF EventIn
<1>5. /\ view'.at = (IF j < a THEN a ELSE j)
      /\ V[j] <= v \/ Ignored(e) => view'.ver = v /\ view'.bodies = c
      /\ ~(V[j] <= v \/ Ignored(e)) => view'.ver = V[j] /\ view'.bodies = [c EXCEPT ![e.body] = NewStatus(e)]
  BY <1>1, <1>4, AppliedTyped
\* An old event is a change the view has.
<1>6. CASE j <= a
  <2>1. V[j] <= v \/ Ignored(e)
    <3> SUFFICES ASSUME L[j] = j PROVE V[j] <= v
      BY <1>4
    <3>1. j <= L[a] /\ L[a] \in E..n /\ L[a] \in Nat /\ j \in Nat
      BY <1>2, <1>3, <1>4, <1>6
    <3>2. V[j] <= V[L[a]] /\ V[j] \in Nat /\ V[L[a]] \in Nat
      BY <3>1, <1>2, <1>4
    <3> QED
      BY <3>2, <1>3
  <2>2. view'.at = a
    BY <1>3, <1>4, <1>5, <1>6
  <2> QED
    BY <2>1, <2>2, <1>3, <1>5 DEF Synced
<1>7. CASE j > a
  <2>1. view'.at = j
    BY <1>3, <1>4, <1>5, <1>7
  <2>2. L[j - 1] = L[a]
    <3>1. PICK m : m = L[j - 1]
      OBVIOUS
    <3>2. m \in E..n /\ m <= j - 1 /\ L[m] = m
      <4>1. L[j - 1] \in E..(j - 1) /\ L[L[j - 1]] = L[j - 1]
        BY <1>2, <1>4
      <4> QED
        BY <4>1, <3>1, <1>2, <1>4
    <3>3. m <= a
      BY <3>2, <1>1, <1>2, <1>3, <1>4
    <3>4. L[m] <= L[a] /\ L[a] <= L[j - 1] /\ L[a] \in Nat /\ m \in Nat
      BY <3>2, <3>3, <1>2, <1>3, <1>4, <1>7
    <3> QED
      BY <3>1, <3>2, <3>4
  <2>3. B[j - 1] = c /\ V[a] <= V[j - 1] /\ V[j - 1] <= V[j]
    <3>1. B[j - 1] = B[a]
      BY <2>2, <1>2, <1>3, <1>4
    <3>2. a <= j - 1 /\ j - 1 <= j
      BY <1>2, <1>3, <1>4, <1>7
    <3> QED
      BY <3>1, <3>2, <1>2, <1>3, <1>4
  <2>4. V[a] \in Nat /\ V[j - 1] \in Nat /\ V[j] \in Nat
    BY <1>2, <1>3, <1>4
  <2>5. v <= V[j - 1] /\ v <= V[j]
    BY <2>3, <2>4, <1>3
  <2>6. j >= E
    BY <1>2, <1>4
  <2>7. CASE Ignored(e)
    <3>1. L[j] = L[j - 1]
      <4>1. L[j] \in E..j /\ L[L[j]] = L[j] /\ L[j] # j /\ L[j] \in Nat /\ j \in Nat
        BY <2>7, <1>2, <1>4
      <4>2. L[j] <= j - 1 /\ L[j] \in E..n
        <5>1. PICK l : l = L[j]
          OBVIOUS
        <5>2. l \in E..j /\ l # j /\ j \in E..n /\ E \in Nat /\ n \in Nat
          BY <4>1, <5>1, <1>2, <1>4
        <5>3. l <= j - 1 /\ l \in E..n
          BY <5>2
        <5> QED
          BY <5>1, <5>3
      <4>3. L[j - 1] <= L[j] /\ L[L[j]] <= L[j - 1] /\ L[j - 1] \in Nat
        BY <4>2, <1>2, <1>4
      <4> QED
        BY <4>1, <4>3
    <3>2. B[j] = B[j - 1]
      BY <3>1, <1>2, <1>4
    <3>3. view'.ver = v /\ view'.bodies = c
      BY <2>7, <1>5
    <3>4. V[L[j]] <= v
      BY <3>1, <2>2, <1>3
    <3> QED
      BY <3>2, <3>3, <3>4, <2>1, <2>3, <2>5, <2>6 DEF Synced
  <2>8. CASE ~Ignored(e)
    <3>1. L[j] = j /\ j - 1 < j
      BY <2>8, <1>2, <1>4
    <3>2. V[j - 1] < V[j]
      BY <3>1, <1>2, <1>4
    <3>3. ~(V[j] <= v)
      BY <3>2, <2>4, <2>5, <1>3
    <3>4. view'.ver = V[j] /\ view'.bodies = [c EXCEPT ![e.body] = NewStatus(e)]
      BY <3>3, <2>8, <1>5
    <3>5. B[j] = [c EXCEPT ![e.body] = NewStatus(e)]
      BY <2>3, <2>8, <1>4
    <3>6. V[L[j]] <= V[j] /\ V[j] <= V[j]
      BY <3>1, <2>4
    <3> QED
      BY <3>4, <3>5, <3>6, <2>1, <2>6 DEF Synced
  <2> QED
    BY <2>7, <2>8
<1>8. j <= a \/ j > a
  BY <1>2, <1>3, <1>4
<1> QED
  BY <1>6, <1>7, <1>8

\* The first frame of a socket taken into the view, or by a page that is gone.
LEMMA FrameKeeps ==
  ASSUME FeedInv, NEW r \in FeedSockets, AdminFrame(r)
  PROVE  FeedInv'
<1>1. FeedTyped
  BY DEF FeedInv
<1>2. PICK V, B, L, E, M : Story(V, B, L, E, M)
  BY DEF FeedInv
<1>3. PICK q, x, n, a : q = Frames(r) /\ x = q[1] /\ n = changes /\ a = view.at
  OBVIOUS
<1>4. /\ q \in Seq(AllFrames) /\ q # <<>> /\ feedSock[r] \in Socks
      /\ feedSock' = [feedSock EXCEPT ![r].frames = Tail(q)]
      /\ UNCHANGED <<feedBrain, feedPage, fetches>> /\ Open(r)
  BY <1>1, <1>3 DEF AdminFrame, FeedTyped, Socks, Frames, Open
<1>5. /\ Tail(q) \in Seq(AllFrames) /\ Head(q) = x /\ 1 \in DOMAIN q /\ x \in AllFrames
      /\ \A k \in DOMAIN Tail(q) : k \in Nat /\ k + 1 \in DOMAIN q /\ Tail(q)[k] = q[k + 1] /\ k + 1 > 1
      /\ \A k \in DOMAIN q : k \in Nat /\ (k # 1 => k - 1 \in DOMAIN Tail(q) /\ Tail(q)[k - 1] = q[k])
  BY <1>3, <1>4, FrameTaken
<1>6. view' = IF ~mounted THEN view ELSE IF x.type = "snapshot" THEN Replaced(x) ELSE Applied(x)
  BY <1>3, <1>5 DEF AdminFrame, Reconciled, Frames
<1>7. /\ changes' = n /\ entries' = entries /\ ready' = ready /\ feedVer' = feedVer /\ feedDisk' = feedDisk
      /\ fetches' = fetches /\ mounted' = mounted
  BY <1>3, <1>4 DEF feedBrain, feedPage
<1>8. /\ feedSock' \in [FeedSockets -> Socks] /\ Frames(r)' = Tail(q) /\ Open(r)'
      /\ \A s \in FeedSockets : s # r => (Open(s)' <=> Open(s)) /\ Frames(s)' = Frames(s)
  <2>1. PICK y : y = [feedSock[r] EXCEPT !.frames = Tail(q)]
    OBVIOUS
  <2>2. y \in Socks /\ y.frames = Tail(q) /\ y.phase = feedSock[r].phase
    BY <2>1, <1>4, <1>5 DEF Socks
  <2>3. feedSock' = [feedSock EXCEPT ![r] = y]
    BY <2>1, <1>4
  <2> QED
    BY <2>2, <2>3, <1>1, <1>4 DEF FeedTyped, Open, Frames
<1>9. /\ History(V, B, L, E, M) /\ n \in Nat /\ E \in 0..n /\ M \in 0..n /\ a \in 0..n
      /\ FramesGood(r, V, B, L, E)
  BY <1>2, <1>3, <1>4 DEF Story, History
<1>10. /\ \A k \in DOMAIN q :
            /\ q[k].at \in E..n
            /\ q[k].type = "snapshot" => k = 1 /\ SnapshotOf(q[k], V, B)
            /\ q[k].type # "snapshot" => EventIn(q[k], V, B, L, E)
       /\ \A j, k \in DOMAIN q : j < k => q[j].at < q[k].at
  BY <1>3, <1>9 DEF FramesGood
<1>11. x.at \in E..n
  BY <1>3, <1>5, <1>10
<1>12. /\ x.type = "snapshot" => x \in RegistrySnapshots /\ SnapshotOf(x, V, B)
       /\ x.type # "snapshot" => x \in Events /\ EventIn(x, V, B, L, E)
  <2>1. \A e \in Events : e.type # "snapshot"
    BY DEF Events, EventTypes
  <2>2. \A e \in RegistrySnapshots : e.type = "snapshot"
    BY DEF RegistrySnapshots
  <2>3. x \in RegistrySnapshots \/ x \in Events
    BY <1>5 DEF AllFrames
  <2> QED
    BY <2>1, <2>2, <2>3, <1>3, <1>5, <1>10
<1>13. /\ view' \in Views /\ view'.at >= a /\ view'.at \in 0..n
       /\ mounted => view'.at >= x.at
       /\ mounted /\ x.type # "snapshot" => view'.overtaken = view.overtaken
  <2>1. CASE ~mounted
    <3>1. view' = view
      BY <2>1, <1>6
    <3>2. view \in Views
      BY <1>1 DEF FeedTyped
    <3>3. view'.at = a /\ a >= a
      BY <3>1, <1>3, <1>9
    <3> QED
      BY <2>1, <3>1, <3>2, <3>3, <1>9
  <2>2. CASE mounted /\ x.type = "snapshot"
    <3>1. view' = Replaced(x) /\ x \in RegistrySnapshots
      BY <2>2, <1>6, <1>12
    <3>2. view' \in Views /\ view'.at >= a /\ view'.at >= x.at /\ view'.at \in {x.at, a}
      BY <3>1, <1>1, <1>3, ReplacedTyped
    <3>3. view'.at \in 0..n
      BY <3>2, <1>9, <1>11
    <3> QED
      BY <2>2, <3>2, <3>3
  <2>3. CASE mounted /\ x.type # "snapshot"
    <3>1. view' = Applied(x) /\ x \in Events
      BY <2>3, <1>6, <1>12
    <3>2. /\ view' \in Views /\ view'.overtaken = view.overtaken
          /\ view'.at = IF x.at < a THEN a ELSE x.at
      BY <3>1, <1>1, <1>3, AppliedTyped
    <3>3. view'.at \in 0..n /\ view'.at >= a /\ view'.at >= x.at
      BY <3>2, <1>9, <1>11
    <3> QED
      BY <2>3, <3>2, <3>3
  <2> QED
    BY <2>1, <2>2, <2>3
<1>14. FeedTyped'
  BY <1>1, <1>3, <1>7, <1>8, <1>13 DEF FeedTyped
<1>15. History(V, B, L, E, M)'
  BY <1>3, <1>7, <1>9 DEF History
<1>16. AnswersGood(V, B, E)'
  BY <1>2, <1>3, <1>7 DEF Story, AnswersGood
<1>17. ASSUME NEW s \in FeedSockets, Open(s)' PROVE FramesGood(s, V, B, L, E)'
  <2>1. CASE s # r
    BY <2>1, <1>2, <1>3, <1>7, <1>8, <1>17 DEF Story, FramesGood
  <2>2. CASE s = r
    <3>1. \A k \in DOMAIN Tail(q) :
            /\ Tail(q)[k].at \in E..n
            /\ Tail(q)[k].type # "snapshot" /\ EventIn(Tail(q)[k], V, B, L, E)
      BY <1>5, <1>10
    <3>2. \A j, k \in DOMAIN Tail(q) : j < k => Tail(q)[j].at < Tail(q)[k].at
      <4> SUFFICES ASSUME NEW j \in DOMAIN Tail(q), NEW k \in DOMAIN Tail(q), j < k
                   PROVE  Tail(q)[j].at < Tail(q)[k].at
        OBVIOUS
      <4>1. j + 1 < k + 1
        BY <1>5
      <4> QED
        BY <4>1, <1>5, <1>10
    <3> QED
      BY <2>2, <3>1, <3>2, <1>7, <1>8 DEF FramesGood
  <2> QED
    BY <2>1, <2>2
\* The frames of the socket cover what they did, but for the one taken.
<1>18. ASSUME NEW s \in FeedSockets, NEW y \in Nat, NEW z \in Nat, y <= z, Covers(s, y, L),
              s = r => x.type = "snapshot" \/ x.at <= z
       PROVE  Covers(s, z, L)'
  <2>1. Covers(s, z, L)
    BY <1>3, <1>9, <1>18, CoversLater
  <2>2. CASE s # r
    BY <2>1, <2>2, <1>3, <1>7, <1>8 DEF Covers
  <2>3. CASE s = r
    <3> SUFFICES ASSUME NEW i \in (z + 1)..n, L[i] = i
                 PROVE  \E k \in DOMAIN Tail(q) : Tail(q)[k].at = i /\ Tail(q)[k].type # "snapshot"
      BY <2>3, <1>7, <1>8 DEF Covers
    <3>1. PICK k \in DOMAIN q : q[k].at = i /\ q[k].type # "snapshot"
      BY <2>1, <2>3, <1>3 DEF Covers
    <3>2. k # 1
      BY <3>1, <2>3, <1>3, <1>9, <1>11, <1>18
    <3> QED
      BY ZenonT(40), <3>1, <3>2, <1>5
  <2> QED
    BY <2>2, <2>3
\* Before the step every open socket was covered.
<1>19. mounted => \A s \in FeedSockets : Open(s) =>
         /\ \/ SnapshotFirst(s, L)
            \/ a >= E /\ Covers(s, a, L)
            \/ M >= E /\ Covers(s, M, L) /\ Fetching(M)
         /\ Fetching(M) \/ view.overtaken \/ SnapshotFirst(s, L) \/ Synced(V, B, L, E)
  BY <1>2, <1>3 DEF Story, PageCovered
<1>20. /\ Fetching(M)' <=> Fetching(M)
       /\ \A s \in FeedSockets : s # r => (SnapshotFirst(s, L)' <=> SnapshotFirst(s, L))
  BY <1>3, <1>7, <1>8 DEF Fetching, SnapshotFirst, Covers
\* A frame that is a snapshot covers what comes after it.
<1>21. /\ SnapshotFirst(r, L) => x.type = "snapshot" /\ Covers(r, x.at, L)
       /\ x.at \in Nat /\ a \in Nat /\ M \in Nat /\ E \in Nat
       /\ view'.at \in Nat /\ mounted => view'.at >= E
  <2>1. SnapshotFirst(r, L) => x.type = "snapshot" /\ Covers(r, x.at, L)
    BY <1>3 DEF SnapshotFirst
  <2> QED
    BY <2>1, <1>9, <1>11, <1>13
<1>22. ASSUME mounted, NEW s \in FeedSockets, Open(s)'
       PROVE  \/ SnapshotFirst(s, L)'
              \/ view'.at >= E /\ Covers(s, view.at, L)'
              \/ M >= E /\ Covers(s, M, L)' /\ Fetching(M)'
  <2>1. PICK z : z = view'.at /\ z \in Nat /\ z >= a /\ z >= x.at /\ z >= E
    BY <1>13, <1>21, <1>22
  <2>2. Open(s)
    BY <1>4, <1>8, <1>22
  <2>3. Covers(s, z, L)' => Covers(s, view.at, L)'
    BY <2>1 DEF Covers
  <2>4. CASE a >= E /\ Covers(s, a, L)
    <3>1. Covers(s, z, L)'
      BY <2>1, <2>4, <1>18, <1>21
    <3> QED
      BY <3>1, <2>1, <2>3
  <2>5. CASE SnapshotFirst(s, L)
    <3>1. CASE s # r
      BY <3>1, <2>5, <1>20
    <3>2. CASE s = r
      <4>1. Covers(s, z, L)'
        BY <3>2, <2>1, <2>5, <1>18, <1>21
      <4> QED
        BY <4>1, <2>1, <2>3
    <3> QED
      BY <3>1, <3>2
  <2>6. CASE M >= E /\ Covers(s, M, L) /\ Fetching(M)
    <3>1. CASE z >= M
      <4>1. Covers(s, z, L)'
        BY <3>1, <2>1, <2>6, <1>18, <1>21
      <4> QED
        BY <4>1, <2>1, <2>3
    <3>2. CASE z < M
      <4>1. x.at <= M /\ M <= M
        BY <3>2, <2>1, <1>21
      <4>2. Covers(s, M, L)'
        BY <4>1, <2>6, <1>18, <1>21
      <4> QED
        BY <4>2, <2>6, <1>20
    <3> QED
      BY <3>1, <3>2, <2>1, <1>21
  <2> QED
    BY <2>2, <2>4, <2>5, <2>6, <1>19, <1>22
<1>23. ASSUME mounted, NEW s \in FeedSockets, Open(s)'
       PROVE  Fetching(M)' \/ view'.overtaken \/ SnapshotFirst(s, L)' \/ Synced(V, B, L, E)'
  <2> SUFFICES ASSUME ~Fetching(M) PROVE view'.overtaken \/ SnapshotFirst(s, L)' \/ Synced(V, B, L, E)'
    BY <1>20
  <2>1. CASE x.type = "snapshot"
    <3>1. /\ view'.overtaken <=> x.at < a
          /\ ~(x.at < a) => view'.at = x.at
          /\ view'.bodies = x.bodies /\ view'.ver = x.ver
      BY <2>1, <1>1, <1>3, <1>6, <1>12, <1>23, ReplacedTyped
    <3>2. CASE ~(x.at < a)
      <4>1. view'.at \in E..changes /\ view'.bodies = B[view'.at] /\ view'.ver = V[view'.at]
        BY <3>1, <3>2, <2>1, <1>3, <1>11, <1>12 DEF SnapshotOf
      <4> QED
        BY <4>1, <1>9, SnapshotSynced
    <3> QED
      BY <3>1, <3>2
  <2>2. CASE x.type # "snapshot"
    <3>1. ~SnapshotFirst(r, L) /\ view'.overtaken = view.overtaken
      BY <2>2, <1>13, <1>21, <1>23
    <3>2. a >= E /\ Covers(r, a, L)
      BY <3>1, <1>4, <1>19, <1>23
    \* Frames are in order, so no change told of is between the view and this one.
    <3>3. \A i \in (a + 1)..(x.at - 1) : L[i] # i
      <4> SUFFICES ASSUME NEW i \in (a + 1)..(x.at - 1), L[i] = i PROVE FALSE
        OBVIOUS
      <4>1. i \in (a + 1)..n /\ i < x.at
        BY <1>9, <1>11, <1>21
      <4>2. PICK k \in DOMAIN q : q[k].at = i
        BY <4>1, <3>2, <1>3 DEF Covers
      <4>3. k = 1 \/ 1 < k
        <5>1. 1..Len(q) = DOMAIN q /\ Len(q) \in Nat
          BY <1>4, LenProperties
        <5> QED
          BY <5>1
      <4>4. q[1].at <= q[k].at
        BY <4>3, <1>5, <1>10, <1>21, <1>3
      <4> QED
        BY <4>1, <4>2, <4>4, <1>3, <1>21
    <3>4. Synced(V, B, L, E) => Synced(V, B, L, E)'
      <4> SUFFICES ASSUME Synced(V, B, L, E) PROVE Synced(V, B, L, E)'
        OBVIOUS
      <4>1. view' = Applied(x) /\ x \in Events /\ EventIn(x, V, B, L, E)
        BY <2>2, <1>6, <1>12, <1>23
      <4>2. /\ x.at \in E..changes /\ view.at \in 0..changes
            /\ \A i \in (view.at + 1)..(x.at - 1) : L[i] # i
        BY <3>3, <1>3, <1>9, <1>11
      <4> QED
        BY <4>1, <4>2, <1>1, <1>9, EventSynced
    <3>5. view.overtaken \/ Synced(V, B, L, E)
      BY <3>1, <1>4, <1>19, <1>23
    <3> QED
      BY <3>1, <3>4, <3>5
  <2> QED
    BY <2>1, <2>2
<1>24. mounted' => PageCovered(V, B, L, E, M)'
  BY <1>7, <1>22, <1>23 DEF PageCovered
<1>25. view'.at \in 0..n /\ view'.ver \in Nat
  BY <1>13 DEF Views
<1>26. Story(V, B, L, E, M)'
  BY <1>7, <1>15, <1>16, <1>17, <1>24, <1>25 DEF Story
<1> QED
  BY <1>14, <1>26 DEF FeedInv

-----------------------------------------------------------------------------
\* Nothing has happened to the registry, and no page is open.
LEMMA FeedStarts ==
  ASSUME FeedInit
  PROVE  FeedInv
<1>1. PICK p : p = Public(entries, ready)
  OBVIOUS
<1>2. entries \in Bodies /\ p \in Bodies
  <2>1. entries \in Bodies
    BY DEF FeedInit, Bodies, Status
  <2> QED
    BY <2>1, <1>1, PublicTyped
<1>3. FeedTyped
  <2>1. view \in Views
    <3>1. view = [ver |-> 0, bodies |-> entries, at |-> 0, overtaken |-> FALSE]
      BY DEF FeedInit
    <3> QED
      BY <1>2, <3>1 DEF Views
  <2>2. feedSock \in [FeedSockets -> Socks]
    <3>1. [phase |-> "unused", frames |-> <<>>] \in Socks
      BY DEF Socks, FeedPhases
    <3> QED
      BY <3>1 DEF FeedInit
  <2> QED
    BY <2>1, <2>2, <1>2 DEF FeedInit, FeedTyped
<1> DEFINE V == [i \in Nat |-> 0]
           B == [i \in Nat |-> p]
<1>4. V \in [Nat -> Nat] /\ B \in [Nat -> Bodies] /\ \A i \in Nat : V[i] = 0 /\ B[i] = p
  BY <1>2
<1> HIDE DEF V, B
<1>5. changes = 0 /\ feedVer = 0 /\ \A i \in 0..0 : i = 0
  BY DEF FeedInit
<1>6. History(V, B, V, 0, 0)
  BY <1>1, <1>4, <1>5 DEF History, Bodies
<1>7. \A s \in FeedSockets : ~Open(s)
  BY DEF FeedInit, Open
<1>8. AnswersGood(V, B, 0)
  BY DEF FeedInit, AnswersGood
<1>9. view.at \in 0..changes /\ view.ver \in Nat /\ ~mounted
  BY DEF FeedInit
<1>10. Story(V, B, V, 0, 0)
  BY <1>6, <1>7, <1>8, <1>9 DEF Story
<1> QED
  BY <1>3, <1>10 DEF FeedInv

\* Every step keeps the mirror's invariant.
LEMMA FeedKeeps ==
  ASSUME FeedInv, [FeedNext]_feedVars
  PROVE  FeedInv'
<1>1. CASE UNCHANGED feedVars
  <2>1. /\ UNCHANGED <<feedBrain, view, feedSock, fetches, mounted, feedDisk>>
    BY <1>1 DEF feedVars, feedBrain, feedPage
  <2>2. PICK V, B, L, E, M : Story(V, B, L, E, M)
    BY DEF FeedInv
  <2>3. FeedTyped
    BY DEF FeedInv
  <2>4. FeedTyped'
    BY <2>1, <2>3 DEF FeedTyped, feedBrain
  <2>5. \A s \in FeedSockets : Open(s)' => Open(s) /\ Frames(s)' = Frames(s)
    BY <2>1 DEF Open, Frames
  <2>6. \A f \in DOMAIN fetches' : fetches'[f].state = "answered" =>
          f \in DOMAIN fetches /\ fetches[f].state = "answered" /\ fetches'[f].snap = fetches[f].snap
    BY <2>1
  <2>7. mounted' /\ Fetching(M) => Fetching(M)'
    BY <2>1 DEF Fetching
  <2>8. UNCHANGED <<feedBrain, view>> /\ (mounted' => mounted)
    BY <2>1
  <2>9. Story(V, B, L, E, M)'
    BY <2>2, <2>3, <2>5, <2>6, <2>7, <2>8, ViewKept
  <2> QED
    BY <2>4, <2>9 DEF FeedInv
<1>2. ASSUME NEW b \in FeedBodies, RegisterPair(b) \/ BodyReady(b) \/ RevokeBody(b) \/ RemoveBody(b)
      PROVE  FeedInv'
  BY <1>2, RegistryKeeps
<1>3. ASSUME NEW b \in FeedBodies, BodyLost(b) PROVE FeedInv'
  BY <1>3, BodyLostKeeps
<1>4. CASE BrainRestart
  BY <1>4, RestartKeeps
<1>5. CASE RefreshDevices \/ (\E f \in DOMAIN fetches : AnswerDevices(f)) \/ \E s \in FeedSockets : AdminOpened(s)
  BY <1>5, RequestsKeep
<1>6. ASSUME NEW f \in DOMAIN fetches, DevicesLoaded(f) PROVE FeedInv'
  BY <1>6, LoadedKeeps
<1>7. ASSUME NEW s \in FeedSockets, AdminFrame(s) PROVE FeedInv'
  BY <1>7, FrameKeeps
<1>8. CASE AdminReconnect \/ UnmountBrainPage \/ \E s \in FeedSockets : AdminCut(s) \/ AdminClosed(s)
  BY <1>8, SocketsKeep
<1>9. CASE MountBrainPage
  BY <1>9, MountKeeps
<1> QED
  BY <1>1, <1>2, <1>3, <1>4, <1>5, <1>6, <1>7, <1>8, <1>9 DEF FeedNext

\* When nothing is under way, no change told of is missing in the view.
LEMMA MirrorFollows ==
  ASSUME FeedInv
  PROVE  MirrorIsTrue
<1> SUFFICES ASSUME Drained, ~view.overtaken PROVE view.bodies = Public(entries, ready)
  BY DEF MirrorIsTrue
<1>1. PICK V, B, L, E, M : Story(V, B, L, E, M)
  BY DEF FeedInv
<1>2. PICK s \in FeedSockets : Open(s) /\ Frames(s) = <<>>
  BY DEF Drained, Open, Frames
<1>3. ~Fetching(M)
  BY DEF Drained, Fetching
<1>4. DOMAIN Frames(s) = {}
  BY <1>2
<1>5. ~SnapshotFirst(s, L)
  BY <1>4 DEF SnapshotFirst
<1>6. view.at >= E /\ Covers(s, view.at, L) /\ Synced(V, B, L, E)
  BY <1>1, <1>2, <1>3, <1>5 DEF Story, PageCovered, Drained
<1>7. PICK a, n : a = view.at /\ n = changes
  OBVIOUS
<1>8. /\ n \in Nat /\ E \in 0..n /\ a \in E..n /\ n \in E..n
      /\ B[n] = Public(entries, ready) /\ view.bodies = B[a]
  BY <1>1, <1>6, <1>7 DEF Story, History, Synced
<1>9. /\ \A i \in E..n : L[i] \in E..i /\ L[L[i]] = L[i]
      /\ \A i, j \in E..n : (i <= j => L[i] <= L[j]) /\ (L[i] = L[j] => B[i] = B[j])
  BY <1>1, <1>7 DEF Story, History
<1>10. PICK m : m = L[n]
  OBVIOUS
<1>11. m \in E..n /\ L[m] = m
  BY <1>8, <1>9, <1>10
<1>12. m <= a
  BY <1>4, <1>6, <1>7, <1>8, <1>11 DEF Covers
<1>13. L[m] <= L[a] /\ L[a] <= L[n] /\ L[a] \in E..a
  BY <1>8, <1>9, <1>11, <1>12
<1>14. L[a] = L[n]
  BY <1>8, <1>10, <1>11, <1>13
<1> QED
  BY <1>8, <1>9, <1>14

\* The page's mirror of the registry is true when everything has arrived, for
\* any number of Bodies, sockets, requests and restarts of the Brain
\* (registry-sync.ts, device-registry.ts, BrainPage.tsx).
THEOREM MirrorAlwaysTrue == FeedSpec => []MirrorIsTrue
<1>1. FeedInit => FeedInv
  BY FeedStarts
<1>2. FeedInv /\ [FeedNext]_feedVars => FeedInv'
  BY FeedKeeps
<1>3. FeedInv => MirrorIsTrue
  BY MirrorFollows
<1> QED
  BY <1>1, <1>2, <1>3, PTL DEF FeedSpec

-----------------------------------------------------------------------------
(* The saved files *)

\* What is left when the first of a list goes.
LEMMA FirstGoes ==
    ASSUME NEW T, NEW q \in Seq(T), q # <<>>
    PROVE  /\ RemoveAt(q, 1) = Tail(q) /\ RemoveAt(q, 1) \in Seq(T)
           /\ DOMAIN RemoveAt(q, 1) = 1 .. Len(q) - 1
           /\ \A i \in DOMAIN RemoveAt(q, 1) : RemoveAt(q, 1)[i] = q[i + 1] /\ i + 1 \in DOMAIN q
<1>1. Len(q) \in Nat \ {0} /\ DOMAIN q = 1 .. Len(q)
  BY EmptySeq
<1>2. SubSeq(q, 1, 0) = <<>>
  BY <1>1
<1>3. SubSeq(q, 2, Len(q)) = Tail(q)
  BY <1>1
<1>4. Tail(q) \in Seq(T) /\ Len(Tail(q)) = Len(q) - 1 /\ \A i \in 1 .. Len(Tail(q)) : Tail(q)[i] = q[i + 1]
  BY HeadTailProperties
<1>5. RemoveAt(q, 1) = <<>> \o Tail(q)
  BY <1>1, <1>2, <1>3 DEF RemoveAt
<1>6. RemoveAt(q, 1) = Tail(q)
  BY <1>4, <1>5
<1>7. DOMAIN Tail(q) = 1 .. Len(q) - 1
  BY <1>4, LenProperties
<1> QED
  BY <1>1, <1>4, <1>6, <1>7

FileSpans == [from : Nat \ {0}, to : Nat]
DrainShapes == [phase : {"queued", "begun", "written"}, snap : FileSpans]

\* The types, the drains one after the other, and nothing left of a process that is down.
SavedTypes ==
  /\ svServer \in {"up", "closing", "down"}
  /\ svRing \in FileSpans /\ svDisk \in FileSpans /\ svPending \in Nat
  /\ svTimer \in BOOLEAN /\ svFailed \in BOOLEAN
  /\ svDrains \in Seq(DrainShapes)
  /\ \A i \in DOMAIN svDrains : i # 1 => svDrains[i].phase = "queued"
  /\ svServer = "down" => svDrains = <<>> /\ ~svTimer /\ svPending = 0

HeadIs(phase) == svDrains # <<>> /\ svDrains[1].phase = phase

\* What is pending has a timer or a drain to come; what is not pending is in
\* the file, in the snapshot that is about to replace it, or about to be taken.
RecordsAreOnTheirWay ==
  svServer = "up" =>
    /\ svPending > 0 => svTimer \/ \E i \in DOMAIN svDrains : svDrains[i].phase = "queued"
    /\ svPending = 0 /\ HeadIs("written") => svDrains[1].snap = svRing
    /\ svPending = 0 /\ ~HeadIs("begun") /\ ~HeadIs("written") /\ ~svFailed => svDisk = svRing

\* The file is never ahead of the snapshot to come, nor that of the ring.
FileFollows ==
  svServer = "up" =>
    /\ svDisk.to <= svRing.to
    /\ HeadIs("written") => svDisk.to <= svDrains[1].snap.to /\ svDrains[1].snap.to <= svRing.to

TalkTypes ==
  /\ svTalk \in FileSpans /\ svTalkDisk \in FileSpans \cup {TornTalk}
  /\ svDirty \in BOOLEAN

SavedInv == SavedTypes /\ RecordsAreOnTheirWay /\ FileFollows /\ TalkTypes /\ CleanIsSaved

\* The newest records, as many as are kept.
LEMMA LastRecordsAre ==
    ASSUME NEW from \in Nat \ {0}, NEW to \in Nat
    PROVE  LastRecords(from, to) \in FileSpans /\ LastRecords(from, to).to = to
<1>1. SvCap \in Nat \ {0}
  BY SavedAssumption
<1>2. PICK f : f = IF to + 1 > from + SvCap THEN to + 1 - SvCap ELSE from
  OBVIOUS
<1>3. f \in Nat \ {0}
  BY <1>1, <1>2
<1>4. LastRecords(from, to) = [from |-> f, to |-> to]
  BY <1>2 DEF LastRecords
<1> QED
  BY <1>3, <1>4 DEF FileSpans

\* A drain is queued behind the others.
LEMMA DrainQueues ==
    ASSUME NEW q, q \in Seq(DrainShapes), \A i \in DOMAIN q : i # 1 => q[i].phase = "queued"
    PROVE  LET r == Append(q, Queued) IN
           /\ r \in Seq(DrainShapes) /\ r # <<>>
           /\ \A i \in DOMAIN r : i # 1 => r[i].phase = "queued"
           /\ \E i \in DOMAIN r : r[i].phase = "queued"
           /\ q # <<>> => r[1] = q[1]
           /\ q = <<>> => r[1].phase = "queued"
<1>1. Queued \in DrainShapes /\ Queued.phase = "queued"
  BY DEF Queued, DrainShapes, FileSpans, Nothing
<1>2. PICK r : r = Append(q, Queued)
  OBVIOUS
<1>3. Len(q) \in Nat /\ DOMAIN q = 1 .. Len(q)
  BY LenProperties
<1>4. /\ r \in Seq(DrainShapes) /\ r # <<>> /\ DOMAIN r = 1 .. Len(q) + 1
      /\ \A i \in 1 .. Len(q) : r[i] = q[i]
      /\ r[Len(q) + 1] = Queued
  BY <1>1, <1>2, AppendProperties, LenProperties
<1>5. \A i \in DOMAIN r : i # 1 => r[i].phase = "queued"
  BY <1>1, <1>3, <1>4
<1>6. Len(q) + 1 \in DOMAIN r
  BY <1>3, <1>4
<1>7. q # <<>> => r[1] = q[1]
  BY <1>3, <1>4
<1>8. q = <<>> => r[1].phase = "queued"
  BY <1>1, <1>4
<1> QED
  BY <1>1, <1>2, <1>4, <1>5, <1>6, <1>7, <1>8

\* What the conversation holds stays when neither it nor the process is touched.
LEMMA TalkStays ==
    ASSUME SavedInv, UNCHANGED svTalkVars, svServer' = svServer
    PROVE  TalkTypes' /\ CleanIsSaved'
<1>1. UNCHANGED <<svTalk, svDirty, svTalkDisk>>
  BY DEF svTalkVars
<1> QED
  BY <1>1 DEF SavedInv, TalkTypes, CleanIsSaved, LoadedTalk, ServerRuns

\* The drains, and what stands first of them.
LEMMA DrainsAre ==
    ASSUME SavedInv
    PROVE  /\ svDrains \in Seq(DrainShapes) /\ DOMAIN svDrains = 1 .. Len(svDrains) /\ Len(svDrains) \in Nat
           /\ \A i \in DOMAIN svDrains : i # 1 => svDrains[i].phase = "queued"
           /\ svDrains # <<>> => 1 \in DOMAIN svDrains
           /\ \A i \in DOMAIN svDrains : /\ svDrains[i] \in DrainShapes
                                         /\ svDrains[i].phase \in {"queued", "begun", "written"}
                                         /\ svDrains[i].snap \in FileSpans
                                         /\ svDrains[i].snap.to \in Nat
           /\ svRing.to \in Nat /\ svDisk.to \in Nat /\ svRing.from \in Nat \ {0}
<1>1. svDrains \in Seq(DrainShapes) /\ DOMAIN svDrains = 1 .. Len(svDrains) /\ Len(svDrains) \in Nat
  BY LenProperties DEF SavedInv, SavedTypes
<1>2. svDrains # <<>> => 1 \in DOMAIN svDrains
  BY <1>1, EmptySeq
<1>3. \A i \in DOMAIN svDrains : svDrains[i] \in DrainShapes
  BY <1>1, ElementOfSeq
<1>4. /\ \A i \in DOMAIN svDrains : i # 1 => svDrains[i].phase = "queued"
      /\ svRing.to \in Nat /\ svDisk.to \in Nat /\ svRing.from \in Nat \ {0}
  BY DEF SavedInv, SavedTypes, FileSpans
<1>5. \A x \in DrainShapes : /\ x.phase \in {"queued", "begun", "written"} /\ x.snap \in FileSpans
                           /\ x.snap.to \in Nat
  BY DEF DrainShapes, FileSpans
<1> QED
  BY <1>1, <1>2, <1>3, <1>4, <1>5

\* Something is recorded.
LEMMA RecordKeeps ==
    ASSUME SavedInv, Record
    PROVE  SavedInv'
<1>1. /\ svServer \in {"up", "closing"} /\ svServer' = svServer
      /\ svRing' = LastRecords(svRing.from, svRing.to + 1) /\ svPending' = svPending + 1
      /\ UNCHANGED <<svDisk, svFailed>> /\ UNCHANGED svTalkVars
  BY DEF Record, ServerRuns, SavedInv, SavedTypes
<1>2. \/ svTimer' = TRUE /\ svDrains' = svDrains
      \/ svTimer' = FALSE /\ svDrains' = Append(svDrains, Queued)
  <2>1. PICK burst \in BOOLEAN : /\ svTimer' = ~burst
                                 /\ svDrains' = IF burst THEN Append(svDrains, Queued) ELSE svDrains
    <3>1. (~svTimer /\ svPending' >= SvBurst) \in BOOLEAN
      OBVIOUS
    <3> QED
      BY ONLY <3>1, Record, Zenon DEF Record
  <2> QED
    BY <2>1
<1>3. /\ svRing.to + 1 \in Nat /\ svPending' \in Nat /\ svPending' > 0
      /\ svRing.from \in Nat \ {0} /\ svRing.to \in Nat /\ svDisk.to \in Nat
  BY <1>1, DrainsAre DEF SavedInv, SavedTypes
<1>4. svRing' \in FileSpans /\ svRing'.to = svRing.to + 1
  BY <1>1, <1>3, LastRecordsAre
<1>5. /\ svDrains' \in Seq(DrainShapes)
      /\ \A i \in DOMAIN svDrains' : i # 1 => svDrains'[i].phase = "queued"
      /\ svTimer' \/ \E i \in DOMAIN svDrains' : svDrains'[i].phase = "queued"
      /\ \/ svDrains' # <<>> /\ svDrains # <<>> /\ svDrains'[1] = svDrains[1]
         \/ svDrains' = <<>> \/ svDrains'[1].phase = "queued"
  <2>1. svDrains \in Seq(DrainShapes) /\ \A i \in DOMAIN svDrains : i # 1 => svDrains[i].phase = "queued"
    BY DrainsAre
  <2>2. CASE svTimer' = TRUE /\ svDrains' = svDrains
    BY <2>1, <2>2
  <2>3. CASE svDrains' = Append(svDrains, Queued)
    <3>1. PICK r : r = Append(svDrains, Queued)
      OBVIOUS
    <3>2. /\ r \in Seq(DrainShapes) /\ r # <<>>
          /\ \A i \in DOMAIN r : i # 1 => r[i].phase = "queued"
          /\ \E i \in DOMAIN r : r[i].phase = "queued"
          /\ svDrains # <<>> => r[1] = svDrains[1]
          /\ svDrains = <<>> => r[1].phase = "queued"
      BY <2>1, <3>1, DrainQueues
    <3>3. svDrains' = r
      BY <2>3, <3>1
    <3> QED
      BY <3>2, <3>3
  <2> QED
    BY <1>2, <2>2, <2>3
<1>6. SavedTypes'
  BY <1>1, <1>2, <1>3, <1>4, <1>5 DEF SavedInv, SavedTypes
<1>7. RecordsAreOnTheirWay'
  BY <1>3, <1>5 DEF RecordsAreOnTheirWay
<1>8. FileFollows'
  <2> SUFFICES ASSUME svServer = "up"
               PROVE  /\ svDisk.to <= svRing'.to
                      /\ HeadIs("written")' => /\ svDisk.to <= svDrains'[1].snap.to
                                               /\ svDrains'[1].snap.to <= svRing'.to
    BY <1>1 DEF FileFollows
  <2>1. svDisk.to <= svRing.to
    BY DEF SavedInv, FileFollows
  <2>2. ASSUME HeadIs("written")'
        PROVE  svDisk.to <= svDrains'[1].snap.to /\ svDrains'[1].snap.to <= svRing'.to
    <3>1. svDrains # <<>> /\ svDrains'[1] = svDrains[1] /\ HeadIs("written")
      BY <1>5, <2>2 DEF HeadIs
    <3>2. svDrains[1].snap.to \in Nat
      BY <3>1, DrainsAre
    <3>3. svDisk.to <= svDrains[1].snap.to /\ svDrains[1].snap.to <= svRing.to
      BY <3>1 DEF SavedInv, FileFollows
    <3> QED
      BY <1>3, <1>4, <3>1, <3>2, <3>3
  <2> QED
    BY <1>3, <1>4, <2>1, <2>2
<1> QED
  BY <1>1, <1>6, <1>7, <1>8, TalkStays DEF SavedInv

\* The types of the drains are enough for the rest of the types.
LEMMA DrainTypes ==
    ASSUME SavedInv, svServer' = svServer, svServer # "down", svRing' = svRing,
           svDisk' \in FileSpans, svPending' \in Nat, svTimer' \in BOOLEAN, svFailed' \in BOOLEAN,
           svDrains' \in Seq(DrainShapes),
           \A i \in DOMAIN svDrains' : i # 1 => svDrains'[i].phase = "queued"
    PROVE  SavedTypes'
  BY DEF SavedInv, SavedTypes

\* The timer of a flush fires.
LEMMA TimerKeeps ==
    ASSUME SavedInv, TimerFlushes
    PROVE  SavedInv'
<1>1. /\ svServer # "down" /\ svServer' = svServer /\ svTimer' = FALSE
      /\ UNCHANGED <<svRing, svPending, svDisk, svFailed>> /\ UNCHANGED svTalkVars
      /\ svDrains' = IF svPending > 0 THEN Append(svDrains, Queued) ELSE svDrains
  BY DEF TimerFlushes, ServerRuns
<1>2. CASE svPending > 0
  <2>1. svDrains' = Append(svDrains, Queued)
    BY <1>1, <1>2
  <2>2. /\ svDrains' \in Seq(DrainShapes)
        /\ \A i \in DOMAIN svDrains' : i # 1 => svDrains'[i].phase = "queued"
        /\ \E i \in DOMAIN svDrains' : svDrains'[i].phase = "queued"
        /\ \/ svDrains' # <<>> /\ svDrains # <<>> /\ svDrains'[1] = svDrains[1]
           \/ svDrains'[1].phase = "queued"
    BY <2>1, DrainsAre, DrainQueues
  <2>3. SavedTypes'
    BY <1>1, <2>2 DEF SavedInv, SavedTypes
  <2>4. svPending # 0
    BY <1>2 DEF SavedInv, SavedTypes
  <2>5. RecordsAreOnTheirWay'
    BY <1>1, <2>2, <2>4 DEF RecordsAreOnTheirWay
  <2>6. FileFollows'
    BY <1>1, <2>2 DEF SavedInv, FileFollows, HeadIs
  <2> QED
    BY <1>1, <2>3, <2>5, <2>6, TalkStays DEF SavedInv
<1>3. CASE ~(svPending > 0)
  <2>1. svDrains' = svDrains
    BY <1>1, <1>3
  <2>2. SavedTypes'
    BY <1>1, <2>1 DEF SavedInv, SavedTypes
  <2>3. RecordsAreOnTheirWay' /\ FileFollows'
    BY <1>1, <1>3, <2>1 DEF SavedInv, RecordsAreOnTheirWay, FileFollows, HeadIs
  <2> QED
    BY <1>1, <2>2, <2>3, TalkStays DEF SavedInv
<1> QED
  BY <1>2, <1>3

\* The first drain goes: those behind it wait.
LEMMA DrainGoes ==
    ASSUME SavedInv, svDrains # <<>>
    PROVE  LET r == RemoveAt(svDrains, 1) IN
           /\ r \in Seq(DrainShapes)
           /\ \A i \in DOMAIN r : r[i].phase = "queued"
           /\ r # <<>> => r[1].phase = "queued"
           /\ \A i \in DOMAIN svDrains : svDrains[i].phase = "queued" /\ i # 1
                => \E j \in DOMAIN r : r[j].phase = "queued"
<1>1. PICK r : r = RemoveAt(svDrains, 1)
  OBVIOUS
<1>2. /\ r \in Seq(DrainShapes) /\ DOMAIN r = 1 .. Len(svDrains) - 1
      /\ \A i \in DOMAIN r : r[i] = svDrains[i + 1] /\ i + 1 \in DOMAIN svDrains
  BY <1>1, DrainsAre, FirstGoes
<1>3. Len(svDrains) \in Nat /\ DOMAIN svDrains = 1 .. Len(svDrains)
  BY DrainsAre
<1>4. ASSUME NEW i \in DOMAIN r PROVE r[i].phase = "queued"
  <2>1. i + 1 # 1 /\ i + 1 \in DOMAIN svDrains
    BY <1>2, <1>3
  <2> QED
    BY <1>2, <2>1, DrainsAre
<1>5. r # <<>> => r[1].phase = "queued"
  <2>1. r # <<>> => 1 \in DOMAIN r
    BY <1>2, EmptySeq
  <2> QED
    BY <1>4, <2>1
<1>6. ASSUME NEW i \in DOMAIN svDrains, i # 1 PROVE \E j \in DOMAIN r : r[j].phase = "queued"
  <2>1. 1 \in DOMAIN r
    BY <1>2, <1>3, <1>6
  <2> QED
    BY <1>4, <2>1
<1> QED
  BY <1>1, <1>2, <1>4, <1>5, <1>6

\* The first drain changes.
LEMMA DrainChanges ==
    ASSUME SavedInv, svDrains # <<>>, NEW d \in DrainShapes
    PROVE  LET r == [svDrains EXCEPT ![1] = d] IN
           /\ r \in Seq(DrainShapes) /\ r # <<>> /\ r[1] = d /\ DOMAIN r = DOMAIN svDrains
           /\ \A i \in DOMAIN r : i # 1 => r[i] = svDrains[i] /\ r[i].phase = "queued"
<1>1. 1 \in DOMAIN svDrains /\ svDrains \in Seq(DrainShapes)
  BY DrainsAre
<1>2. PICK r : r = [svDrains EXCEPT ![1] = d]
  OBVIOUS
<1>3. DOMAIN r = DOMAIN svDrains /\ r[1] = d /\ \A i \in DOMAIN r : i # 1 => r[i] = svDrains[i]
  BY <1>1, <1>2
<1>4. r \in Seq(DrainShapes)
  BY <1>1, <1>2, ExceptSeq
<1>5. r # <<>>
  BY <1>1, <1>3, <1>4, EmptySeq
<1> QED
  BY <1>2, <1>3, <1>4, <1>5, DrainsAre

\* A drain starts: it is the first.
LEMMA BeginKeeps ==
    ASSUME SavedInv, NEW i \in 1 .. Len(svDrains), DrainBegins(i)
    PROVE  SavedInv'
<1>1. /\ svServer # "down" /\ svServer' = svServer /\ i = 1 /\ svDrains[1].phase = "queued"
      /\ UNCHANGED <<svRing, svTimer, svDisk, svFailed>> /\ UNCHANGED svTalkVars
      /\ IF svPending = 0
         THEN svDrains' = RemoveAt(svDrains, i) /\ UNCHANGED svPending
         ELSE svDrains' = [svDrains EXCEPT ![i].phase = "begun"] /\ svPending' = PendingAfter("begun")
  BY DEF DrainBegins, ServerRuns, Turn
<1>2. 1 \in DOMAIN svDrains /\ svDrains # <<>>
  BY <1>1, DrainsAre, EmptySeq
<1>3. /\ svDisk \in FileSpans /\ svPending \in Nat /\ svTimer \in BOOLEAN /\ svFailed \in BOOLEAN
  BY DEF SavedInv, SavedTypes
<1>4. CASE svPending = 0
  <2>1. svDrains' = RemoveAt(svDrains, 1) /\ svPending' = svPending
    BY <1>1, <1>4
  <2>2. /\ svDrains' \in Seq(DrainShapes)
        /\ \A j \in DOMAIN svDrains' : svDrains'[j].phase = "queued"
        /\ svDrains' # <<>> => svDrains'[1].phase = "queued"
    BY <1>2, <2>1, DrainGoes
  <2>3. SavedTypes'
    BY <1>1, <1>3, <2>1, <2>2, DrainTypes
  <2>4. RecordsAreOnTheirWay' /\ FileFollows'
    BY <1>1, <1>4, <2>1, <2>2 DEF SavedInv, RecordsAreOnTheirWay, FileFollows, HeadIs
  <2> QED
    BY <1>1, <2>3, <2>4, TalkStays DEF SavedInv
<1>5. CASE svPending # 0
  <2>1. PICK d : d = [phase |-> "begun", snap |-> svDrains[1].snap]
    OBVIOUS
  <2>2. d \in DrainShapes /\ d.phase = "begun" /\ svDrains[1] \in DrainShapes
    BY <1>2, <2>1, DrainsAre DEF DrainShapes
  <2>3. [svDrains[1] EXCEPT !.phase = "begun"] = d
    BY <2>1, <2>2 DEF DrainShapes
  <2>4. svDrains' = [svDrains EXCEPT ![1] = d] /\ svPending' = 0
    BY <1>1, <1>2, <1>5, <2>3 DEF PendingAfter
  <2>5. /\ svDrains' \in Seq(DrainShapes) /\ svDrains' # <<>> /\ svDrains'[1].phase = "begun"
        /\ \A j \in DOMAIN svDrains' : j # 1 => svDrains'[j].phase = "queued"
    BY <1>2, <2>2, <2>4, DrainChanges
  <2>6. SavedTypes'
    BY <1>1, <1>3, <2>4, <2>5, DrainTypes
  <2>7. RecordsAreOnTheirWay' /\ FileFollows'
    BY <1>1, <2>4, <2>5 DEF SavedInv, RecordsAreOnTheirWay, FileFollows, HeadIs
  <2> QED
    BY <1>1, <2>6, <2>7, TalkStays DEF SavedInv
<1> QED
  BY <1>4, <1>5

\* The ring is written beside the file.
LEMMA WrittenKeeps ==
    ASSUME SavedInv, NEW i \in 1 .. Len(svDrains), TempWritten(i)
    PROVE  SavedInv'
<1>1. /\ svServer # "down" /\ svServer' = svServer /\ svDrains[i].phase = "begun"
      /\ UNCHANGED <<svRing, svPending, svTimer, svDisk, svFailed>> /\ UNCHANGED svTalkVars
      /\ svDrains' = [svDrains EXCEPT ![i] = [phase |-> "written", snap |-> svRing]]
  BY DEF TempWritten, ServerRuns
<1>2. i = 1 /\ 1 \in DOMAIN svDrains /\ svDrains # <<>>
  BY <1>1, DrainsAre, EmptySeq
<1>3. /\ svDisk \in FileSpans /\ svPending \in Nat /\ svTimer \in BOOLEAN /\ svFailed \in BOOLEAN
      /\ svRing \in FileSpans /\ svRing.to \in Nat /\ svDisk.to \in Nat
  BY DrainsAre DEF SavedInv, SavedTypes
<1>4. PICK d : d = [phase |-> "written", snap |-> svRing]
  OBVIOUS
<1>5. d \in DrainShapes /\ d.phase = "written" /\ d.snap = svRing
  BY <1>3, <1>4 DEF DrainShapes
<1>6. svDrains' = [svDrains EXCEPT ![1] = d]
  BY <1>1, <1>2, <1>4
<1>7. /\ svDrains' \in Seq(DrainShapes) /\ svDrains' # <<>> /\ svDrains'[1] = d
      /\ DOMAIN svDrains' = DOMAIN svDrains
      /\ \A j \in DOMAIN svDrains' : j # 1 => svDrains'[j] = svDrains[j] /\ svDrains'[j].phase = "queued"
  BY <1>2, <1>5, <1>6, DrainChanges
<1>8. SavedTypes'
  BY <1>1, <1>3, <1>7, DrainTypes
<1>9. RecordsAreOnTheirWay'
  <2>1. svServer = "up" /\ svPending > 0 =>
           svTimer \/ \E j \in DOMAIN svDrains : svDrains[j].phase = "queued"
    BY DEF SavedInv, RecordsAreOnTheirWay
  <2>2. (\E j \in DOMAIN svDrains : svDrains[j].phase = "queued")
          => \E j \in DOMAIN svDrains' : svDrains'[j].phase = "queued"
    <3> SUFFICES ASSUME NEW j \in DOMAIN svDrains, svDrains[j].phase = "queued"
                 PROVE  \E l \in DOMAIN svDrains' : svDrains'[l].phase = "queued"
      OBVIOUS
    <3>1. j # 1
      BY <1>1, <1>2
    <3> QED
      BY <1>7, <3>1
  <2> QED
    BY <1>1, <1>5, <1>7, <2>1, <2>2 DEF RecordsAreOnTheirWay, HeadIs
<1>10. FileFollows'
  <2>1. svServer = "up" => svDisk.to <= svRing.to
    BY DEF SavedInv, FileFollows
  <2>2. svRing.to <= svRing.to
    BY <1>3
  <2> QED
    BY <1>1, <1>5, <1>7, <2>1, <2>2 DEF FileFollows, HeadIs
<1> QED
  BY <1>1, <1>8, <1>9, <1>10, TalkStays DEF SavedInv

\* The write takes the place of the file, or fails.
LEMMA EndOfDrainKeeps ==
    ASSUME SavedInv, NEW i \in 1 .. Len(svDrains), Renamed(i) \/ WriteFails(i)
    PROVE  SavedInv'
<1>1. /\ svServer # "down" /\ svServer' = svServer /\ svDrains[i].phase \in {"begun", "written"}
      /\ UNCHANGED <<svRing, svPending, svTimer>> /\ UNCHANGED svTalkVars
      /\ svDrains' = RemoveAt(svDrains, i)
  BY DEF Renamed, WriteFails, ServerRuns, PendingAfter
<1>2. \/ svDrains[i].phase = "written" /\ svDisk' = svDrains[i].snap /\ svFailed' = FALSE
      \/ svDisk' = svDisk /\ svFailed' = TRUE
  BY DEF Renamed, WriteFails
<1>3. i = 1 /\ 1 \in DOMAIN svDrains /\ svDrains # <<>>
  BY <1>1, DrainsAre, EmptySeq
<1>4. /\ svDisk \in FileSpans /\ svPending \in Nat /\ svTimer \in BOOLEAN
      /\ svDisk' \in FileSpans /\ svFailed' \in BOOLEAN
  BY <1>2, <1>3, DrainsAre DEF SavedInv, SavedTypes
<1>5. /\ svDrains' \in Seq(DrainShapes)
      /\ \A j \in DOMAIN svDrains' : svDrains'[j].phase = "queued"
      /\ svDrains' # <<>> => svDrains'[1].phase = "queued"
      /\ \A j \in DOMAIN svDrains : svDrains[j].phase = "queued" /\ j # 1
           => \E k \in DOMAIN svDrains' : svDrains'[k].phase = "queued"
  BY <1>1, <1>3, DrainGoes
<1>6. SavedTypes'
  BY <1>1, <1>4, <1>5, DrainTypes
<1>7. RecordsAreOnTheirWay'
  <2> SUFFICES ASSUME svServer = "up"
               PROVE  /\ svPending > 0 => svTimer \/ \E j \in DOMAIN svDrains' : svDrains'[j].phase = "queued"
                      /\ svPending = 0 /\ ~svFailed' => svDisk' = svRing
    BY <1>1, <1>5 DEF RecordsAreOnTheirWay, HeadIs
  <2>1. svPending > 0 => svTimer \/ \E j \in DOMAIN svDrains : svDrains[j].phase = "queued"
    BY DEF SavedInv, RecordsAreOnTheirWay
  <2>2. svDrains[1].phase # "queued"
    BY <1>1, <1>3
  <2>3. ASSUME svPending = 0, ~svFailed' PROVE svDisk' = svRing
    <3>1. svDrains[1].phase = "written" /\ svDisk' = svDrains[1].snap
      BY <1>2, <1>3, <2>3
    <3> QED
      BY <1>3, <2>3, <3>1 DEF SavedInv, RecordsAreOnTheirWay, HeadIs
  <2> QED
    BY <1>5, <2>1, <2>2, <2>3
<1>8. FileFollows'
  BY <1>1, <1>2, <1>3, <1>5 DEF SavedInv, FileFollows, HeadIs
<1> QED
  BY <1>1, <1>6, <1>7, <1>8, TalkStays DEF SavedInv

\* What is held of the records stays when they and the process are not touched.
LEMMA RecordsStay ==
    ASSUME SavedInv, UNCHANGED svRecordVars, svServer' = svServer
    PROVE  SavedTypes' /\ RecordsAreOnTheirWay' /\ FileFollows'
<1>1. UNCHANGED <<svRing, svPending, svTimer, svDrains, svDisk, svFailed, svServer>>
  BY DEF svRecordVars
<1> QED
  BY <1>1 DEF SavedInv, SavedTypes, RecordsAreOnTheirWay, FileFollows, HeadIs

\* A conversation that is held is not a torn file.
LEMMA TalkIsWhole == \A w \in FileSpans : w # TornTalk
<1> SUFFICES ASSUME NEW w \in FileSpans, w = TornTalk PROVE FALSE
  OBVIOUS
<1>1. w.from # 0
  BY DEF FileSpans
<1>2. w.from = 0
  BY DEF TornTalk
<1> QED
  BY <1>1, <1>2

\* The user or the agent says something, takes it back, or clears it all.
LEMMA TalkKeeps ==
    ASSUME SavedInv, AddMessage \/ SetHistory \/ ClearTalk
    PROVE  SavedInv'
<1>1. PICK talk \in FileSpans : Says(talk)
  <2>1. svTalk.from \in Nat \ {0} /\ svTalk.to \in Nat /\ svTalk.to + 1 \in Nat
    BY DEF SavedInv, TalkTypes, FileSpans
  <2>2. CASE AddMessage
    BY <2>1, <2>2, LastRecordsAre DEF AddMessage
  <2>3. CASE SetHistory
    <3>1. svTalk.to - 1 \in Nat
      BY <2>1, <2>3 DEF SetHistory
    <3> QED
      BY <2>1, <2>3, <3>1, LastRecordsAre DEF SetHistory
  <2>4. CASE ClearTalk
    <3>1. Nothing \in FileSpans
      BY DEF Nothing, FileSpans
    <3> QED
      BY <2>4, <3>1 DEF ClearTalk
  <2> QED
    BY <2>2, <2>3, <2>4
<1>2. /\ svTalk' = talk /\ svDirty' = TRUE /\ svServer' = svServer /\ svTalkDisk' = svTalkDisk
      /\ UNCHANGED svRecordVars
  BY <1>1 DEF Says
<1>3. TalkTypes' /\ CleanIsSaved'
  BY <1>2 DEF SavedInv, TalkTypes, CleanIsSaved
<1> QED
  BY <1>2, <1>3, RecordsStay DEF SavedInv

\* A save writes what is held, or leaves it dirty.
LEMMA SavesKeep ==
    ASSUME SavedInv, ServerRuns, NEW ok \in BOOLEAN, Saves(ok), svTalk' = svTalk
    PROVE  TalkTypes' /\ CleanIsSaved'
<1>1. svDirty \in BOOLEAN /\ svTalk \in FileSpans /\ svTalkDisk \in FileSpans \cup {TornTalk}
  BY DEF SavedInv, TalkTypes
<1>2. ~svDirty => svTalk = LoadedTalk
  BY DEF SavedInv, CleanIsSaved
<1>3. CASE svDirty /\ ok
  <2>1. svTalkDisk' = svTalk /\ svDirty' = FALSE
    BY <1>3 DEF Saves
  <2>2. svTalk # TornTalk
    BY <1>1, TalkIsWhole
  <2> QED
    BY <1>1, <2>1, <2>2 DEF TalkTypes, CleanIsSaved, LoadedTalk
<1>4. CASE svDirty /\ ~ok
  <2>1. svTalkDisk' = svTalkDisk /\ svDirty' = TRUE
    BY <1>4 DEF Saves
  <2> QED
    BY <1>1, <2>1 DEF TalkTypes, CleanIsSaved
<1>5. CASE ~svDirty
  <2>1. svTalkDisk' = svTalkDisk /\ svDirty' = FALSE
    BY <1>5 DEF Saves
  <2> QED
    BY <1>1, <1>2, <1>5, <2>1 DEF TalkTypes, CleanIsSaved, LoadedTalk
<1> QED
  BY <1>1, <1>3, <1>4, <1>5

\* The server shuts down.
LEMMA ShutdownKeeps ==
    ASSUME SavedInv, NEW saved \in BOOLEAN, NEW flushed \in BOOLEAN, ServerShutdown(saved, flushed)
    PROVE  SavedInv'
<1>1. /\ svServer = "up" /\ svServer' = "closing" /\ Saves(saved) /\ svPending' = 0
      /\ UNCHANGED <<svRing, svTimer, svDrains, svTalk>>
  BY DEF ServerShutdown
<1>2. svDisk' \in {svRing, svDisk} /\ svFailed' \in BOOLEAN
  <2>1. svDisk' \in {svRing, svDisk}
    BY DEF ServerShutdown
  <2>2. svFailed' \in {~flushed, svFailed}
    BY DEF ServerShutdown
  <2>3. svFailed \in BOOLEAN
    BY DEF SavedInv, SavedTypes
  <2> QED
    BY <2>1, <2>2, <2>3
<1>3. SavedTypes'
  BY <1>1, <1>2 DEF SavedInv, SavedTypes
<1>4. RecordsAreOnTheirWay' /\ FileFollows'
  BY <1>1 DEF RecordsAreOnTheirWay, FileFollows
<1>5. TalkTypes' /\ CleanIsSaved'
  BY <1>1, SavesKeep DEF ServerRuns
<1> QED
  BY <1>3, <1>4, <1>5 DEF SavedInv

\* The process ends, saving or not.
LEMMA GoneKeeps ==
    ASSUME SavedInv, Exits \/ CrashSaving
    PROVE  SavedInv'
<1>1. /\ svServer' = "down" /\ svDrains' = <<>> /\ svTimer' = FALSE /\ svPending' = 0
      /\ UNCHANGED <<svRing, svDisk, svFailed, svTalk, svDirty>>
      /\ svTalkDisk' \in {svTalkDisk, TornTalk}
  BY DEF Exits, CrashSaving, ServerGoes, svTalkVars
<1>2. svDrains' \in Seq(DrainShapes) /\ DOMAIN svDrains' = {}
  BY <1>1
<1>3. SavedTypes'
  BY <1>1, <1>2 DEF SavedInv, SavedTypes
<1>4. RecordsAreOnTheirWay' /\ FileFollows' /\ CleanIsSaved'
  BY <1>1 DEF RecordsAreOnTheirWay, FileFollows, CleanIsSaved, ServerRuns
<1>5. TalkTypes'
  BY <1>1 DEF SavedInv, TalkTypes
<1> QED
  BY <1>3, <1>4, <1>5 DEF SavedInv

\* The process starts on what is on disk.
LEMMA RestartsKeep ==
    ASSUME SavedInv, Restarts
    PROVE  SavedInv'
<1>1. /\ svServer = "down" /\ svServer' = "up" /\ svRing' = svDisk /\ svFailed' = FALSE
      /\ svTalk' = LoadedTalk /\ svDirty' = FALSE
      /\ UNCHANGED <<svPending, svTimer, svDrains, svDisk, svTalkDisk>>
  BY DEF Restarts
<1>2. svDrains = <<>> /\ svTimer = FALSE /\ svPending = 0 /\ svDisk \in FileSpans
  BY <1>1 DEF SavedInv, SavedTypes
<1>3. SavedTypes'
  BY <1>1, <1>2 DEF SavedInv, SavedTypes
<1>4. RecordsAreOnTheirWay' /\ FileFollows'
  <2>1. svDisk.to <= svDisk.to
    BY DrainsAre
  <2> QED
    BY <1>1, <1>2, <2>1 DEF RecordsAreOnTheirWay, FileFollows, HeadIs
<1>5. TalkTypes' /\ CleanIsSaved'
  <2>1. Nothing \in FileSpans
    BY DEF Nothing, FileSpans
  <2>2. LoadedTalk \in FileSpans
    BY <2>1 DEF LoadedTalk, SavedInv, TalkTypes
  <2> QED
    BY <1>1, <2>2 DEF SavedInv, TalkTypes, CleanIsSaved, LoadedTalk
<1> QED
  BY <1>3, <1>4, <1>5 DEF SavedInv

\* The invariant holds at first.
LEMMA SavedInitGood == SavedInit => SavedInv
<1> SUFFICES ASSUME SavedInit PROVE SavedInv
  OBVIOUS
<1>1. Nothing \in FileSpans /\ Nothing.to = 0
  BY DEF Nothing, FileSpans
<1>2. Nothing # TornTalk
  BY <1>1, TalkIsWhole
<1>3. /\ svServer = "up" /\ svRing = Nothing /\ svPending = 0 /\ svTimer = FALSE /\ svDrains = <<>>
      /\ svDisk = Nothing /\ svFailed = FALSE /\ svTalk = Nothing /\ svDirty = FALSE
      /\ svTalkDisk = Nothing
  BY DEF SavedInit
<1>4. svDrains \in Seq(DrainShapes) /\ DOMAIN svDrains = {}
  BY <1>3
<1>5. SavedTypes
  BY <1>1, <1>3, <1>4 DEF SavedTypes
<1>6. RecordsAreOnTheirWay
  BY <1>3 DEF RecordsAreOnTheirWay, HeadIs
<1>7. FileFollows
  BY <1>1, <1>3 DEF FileFollows, HeadIs
<1>8. TalkTypes /\ CleanIsSaved
  BY <1>1, <1>2, <1>3 DEF TalkTypes, CleanIsSaved, LoadedTalk
<1> QED
  BY <1>5, <1>6, <1>7, <1>8 DEF SavedInv

\* Every step keeps the invariant.
LEMMA SavedNextKeeps == SavedInv /\ [SavedNext]_savedVars => SavedInv'
<1> SUFFICES ASSUME SavedInv, [SavedNext]_savedVars PROVE SavedInv'
  OBVIOUS
<1>1. CASE Record \/ TimerFlushes
  BY <1>1, RecordKeeps, TimerKeeps
<1>2. CASE AddMessage \/ SetHistory \/ ClearTalk
  BY <1>2, TalkKeeps
<1>3. CASE StartAutoSave
  <2>1. /\ UNCHANGED svRecordVars /\ svServer' = svServer /\ UNCHANGED <<svTalk, svDirty, svTalkDisk>>
    BY <1>3 DEF StartAutoSave
  <2>2. TalkTypes' /\ CleanIsSaved'
    BY <2>1 DEF SavedInv, TalkTypes, CleanIsSaved, LoadedTalk, ServerRuns
  <2> QED
    BY <2>1, <2>2, RecordsStay DEF SavedInv
<1>4. CASE \E i \in 1..Len(svDrains) : DrainBegins(i) \/ TempWritten(i) \/ Renamed(i) \/ WriteFails(i)
  BY <1>4, BeginKeeps, WrittenKeeps, EndOfDrainKeeps
<1>5. CASE \E ok \in BOOLEAN : AutoSave(ok)
  <2>1. PICK ok \in BOOLEAN : AutoSave(ok)
    BY <1>5
  <2>2. /\ UNCHANGED svRecordVars /\ svServer' = svServer /\ svTalk' = svTalk
        /\ ServerRuns /\ Saves(ok)
    BY <2>1 DEF AutoSave
  <2> QED
    BY <2>2, SavesKeep, RecordsStay DEF SavedInv
<1>6. CASE \E saved, flushed \in BOOLEAN : ServerShutdown(saved, flushed)
  BY <1>6, ShutdownKeeps
<1>7. CASE Exits \/ CrashSaving
  BY <1>7, GoneKeeps
<1>8. CASE Restarts
  BY <1>8, RestartsKeep
<1>9. CASE UNCHANGED savedVars
  <2>1. UNCHANGED svRecordVars /\ UNCHANGED svTalkVars /\ svServer' = svServer
    BY <1>9 DEF savedVars
  <2> QED
    BY <2>1, RecordsStay, TalkStays DEF SavedInv
<1> QED
  BY <1>1, <1>2, <1>3, <1>4, <1>5, <1>6, <1>7, <1>8, <1>9 DEF SavedNext

\* The file of the records is only ever replaced by the snapshot of the first drain.
LEMMA FileGoesForward ==
    ASSUME SavedInv, [SavedNext]_savedVars, svServer = "up", svServer' = "up"
    PROVE  svDisk'.to >= svDisk.to
<1>1. svDisk.to \in Nat
  BY DrainsAre
<1>2. CASE \E i \in 1..Len(svDrains) : Renamed(i)
  <2>1. PICK i \in 1..Len(svDrains) : Renamed(i)
    BY <1>2
  <2>2. svDrains[i].phase = "written" /\ svDisk' = svDrains[i].snap
    BY <2>1 DEF Renamed
  <2>3. i = 1 /\ svDrains # <<>> /\ svDrains[1].snap.to \in Nat
    BY <2>2, DrainsAre, EmptySeq
  <2>4. svDisk.to <= svDrains[1].snap.to
    BY <2>2, <2>3 DEF SavedInv, FileFollows, HeadIs
  <2> QED
    BY <1>1, <2>2, <2>3, <2>4
<1>3. CASE ~\E i \in 1..Len(svDrains) : Renamed(i)
  <2>1. svDisk' = svDisk
    BY <1>3 DEF SavedNext, savedVars, svRecordVars, Record, TimerFlushes, AddMessage, SetHistory,
                ClearTalk, Says, StartAutoSave, DrainBegins, TempWritten, WriteFails, AutoSave,
                ServerShutdown, Exits, CrashSaving, ServerGoes, Restarts
  <2> QED
    BY <1>1, <2>1
<1> QED
  BY <1>2, <1>3

\* Whatever is recorded, said, shut down or crashed: when nothing is under way
\* every record is in the file, an older snapshot never replaces a newer one, and
\* a conversation that is not dirty is the one a restart brings back
\* (telemetry-store.ts, session-state.ts).
THEOREM SavedAlwaysKept == SavedSpec => SavedIsKept
<1>1. SavedSpec => []SavedInv
  <2>1. SavedInv /\ [SavedNext]_savedVars => SavedInv'
    BY SavedNextKeeps
  <2> QED
    BY SavedInitGood, <2>1, PTL DEF SavedSpec
<1>2. SavedInv => QuietIsSaved /\ CleanIsSaved
  <2> SUFFICES ASSUME SavedInv, svServer = "up", ~svTimer, svDrains = <<>>, ~svFailed
               PROVE  svDisk = svRing
    BY DEF SavedInv, QuietIsSaved
  <2>1. DOMAIN svDrains = {} /\ svPending \in Nat
    BY DEF SavedInv, SavedTypes
  <2>2. ~(svPending > 0)
    BY <2>1 DEF SavedInv, RecordsAreOnTheirWay
  <2>3. svPending = 0
    BY <2>1, <2>2
  <2> QED
    BY <2>3 DEF SavedInv, RecordsAreOnTheirWay, HeadIs
<1>3. SavedInv /\ [SavedNext]_savedVars =>
        (svServer = "up" /\ svServer' = "up" => svDisk'.to >= svDisk.to)
  BY FileGoesForward
<1> QED
  BY <1>1, <1>2, <1>3, PTL DEF SavedSpec, SavedIsKept, RecordsNeverGoBack

-----------------------------------------------------------------------------
(* The desktop shell *)

\* The process is past the lock, and has written its number into it.
Named == {"starting", "waiting", "up", "leaving", "closing"}
Shells == [pc : {"lock", "stale", "created", "gone"} \cup Named, version : Nat]
Dialogs == [busy : BOOLEAN, armed : BOOLEAN, offer : BOOLEAN]
Jobs == [of : Nat, kind : {"update", "rollback"}, stage : {"fetch", "install", "relaunch"}, target : Nat]

ShellTypes ==
  /\ dsProcs \in Seq(Shells) /\ Len(dsProcs) <= MaxProcs
  /\ dsUi \in Seq(Dialogs) /\ Len(dsUi) = Len(dsProcs)
  /\ dsJobs \subseteq Jobs /\ dsDisk \in Nat /\ dsKills \in Nat
  /\ dsJournal \in [pending : Nat, previous : Nat]

\* A job is of a shell that is up and whose dialog is busy, and its only one; an
\* update is to a version.
JobsAreWatched ==
  /\ \A j \in dsJobs : /\ j.of \in Procs /\ Pc(j.of) = "up" /\ dsUi[j.of].busy = TRUE
                       /\ j.kind = "update" => j.target > 0
  /\ OneJob

\* Unless a process was killed, the lock says who is past it, the backend on
\* the port is of that process, and nobody takes the lock for stale.
LockIsOurs ==
  dsKills = 0 =>
    /\ dsLock \in {NoLock, BlankLock} \cup Procs
    /\ \A p \in Procs : Pc(p) # "stale" /\ (Pc(p) = "created" => dsLock = BlankLock) /\ (Pc(p) \in Named => dsLock = p)
    /\ \A p, q \in Procs : Pc(p) = "created" /\ Pc(q) = "created" => p = q
    /\ dsLock \in Procs => Pc(dsLock) \in Named
    /\ dsPort # 0 => dsPort \in Procs /\ Pc(dsPort) \in Named \ {"starting"}

ShellInv == ShellTypes /\ JobsAreWatched /\ LockIsOurs

\* What a step makes of the processes: all stay, one may go on.
LEMMA ShellGoes ==
    ASSUME ShellTypes, NEW p \in Procs, NEW pc \in {"lock", "stale", "created", "gone"} \cup Named, ProcessGoes(p, pc)
    PROVE  /\ dsProcs' \in Seq(Shells) /\ Len(dsProcs') = Len(dsProcs) /\ Procs' = Procs
           /\ Pc(p)' = pc /\ \A q \in Procs : q # p => Pc(q)' = Pc(q)
<1>1. PICK r : r = [dsProcs EXCEPT ![p].pc = pc]
  OBVIOUS
<1>2. dsProcs \in Seq(Shells) /\ dsProcs[p] \in Shells
  BY ElementOfSeq DEF ShellTypes, Procs
<1>3. PICK d \in Shells : d = [dsProcs[p] EXCEPT !.pc = pc]
  BY <1>2 DEF Shells
<1>4. d.pc = pc
  BY <1>2, <1>3 DEF Shells
<1>5. r = [dsProcs EXCEPT ![p] = d]
  BY <1>1, <1>3
<1>6. r \in Seq(Shells) /\ Len(r) = Len(dsProcs) /\ DOMAIN r = DOMAIN dsProcs
      /\ r[p] = d /\ \A q \in DOMAIN dsProcs : q # p => r[q] = dsProcs[q]
  BY <1>2, <1>5, ExceptSeq, LenProperties DEF Procs
<1>7. dsProcs' = r
  BY <1>1 DEF ProcessGoes
<1> QED
  BY <1>4, <1>6, <1>7 DEF Procs, Pc

\* What a process number is, and what the lock can be.
LEMMA ShellNumbers ==
    ASSUME ShellTypes
    PROVE  /\ Procs = 1 .. Len(dsProcs) /\ Len(dsProcs) \in Nat /\ DOMAIN dsUi = Procs
           /\ NoLock \notin Procs /\ BlankLock \notin Procs /\ NoLock # BlankLock
           /\ \A p \in Procs : dsProcs[p] \in Shells /\ dsUi[p] \in Dialogs
<1>1. /\ Procs = 1 .. Len(dsProcs) /\ Len(dsProcs) \in Nat /\ DOMAIN dsUi = Procs
      /\ Len(dsProcs) <= MaxProcs
  BY LenProperties DEF ShellTypes, Procs
<1>2. \A p \in Procs : dsProcs[p] \in Shells /\ dsUi[p] \in Dialogs
  BY <1>1, ElementOfSeq DEF ShellTypes
<1> QED
  BY <1>1, <1>2, ShellAssumption DEF NoLock, BlankLock

\* A shell is started: the others stay.
LEMMA ShellStarts ==
    ASSUME ShellTypes, NEW s \in Seq(Shells), Len(s) = Len(dsProcs), Len(s) < MaxProcs,
           NEW d \in Seq(Dialogs), Len(d) = Len(s)
    PROVE  LET r == Append(s, StartedShell)
               u == Append(d, FreshUi)
               n == Len(s) + 1 IN
           /\ r \in Seq(Shells) /\ Len(r) = n /\ Len(r) <= MaxProcs /\ u \in Seq(Dialogs) /\ Len(u) = n
           /\ DOMAIN r = DOMAIN dsProcs \cup {n} /\ n \notin DOMAIN dsProcs
           /\ \A q \in DOMAIN dsProcs : r[q] = s[q] /\ u[q] = d[q]
           /\ r[n].pc = "lock"
<1>1. StartedShell \in Shells /\ StartedShell.pc = "lock" /\ FreshUi \in Dialogs
  BY DEF StartedShell, FreshUi, Shells, Dialogs, ShellTypes
<1>2. PICK r, u : r = Append(s, StartedShell) /\ u = Append(d, FreshUi)
  OBVIOUS
<1>3. PICK n : n = Len(s) + 1
  OBVIOUS
<1>4. /\ r \in Seq(Shells) /\ Len(r) = n /\ \A q \in 1 .. Len(s) : r[q] = s[q]
      /\ r[n] = StartedShell
  BY <1>1, <1>2, <1>3, AppendProperties
<1>5. u \in Seq(Dialogs) /\ Len(u) = n /\ \A q \in 1 .. Len(s) : u[q] = d[q]
  BY <1>1, <1>2, <1>3, AppendProperties
<1>6. Len(s) \in Nat /\ DOMAIN dsProcs = 1 .. Len(s) /\ DOMAIN r = 1 .. n
  BY <1>4, LenProperties DEF ShellTypes
<1>7. n <= MaxProcs /\ 1 .. n = (1 .. Len(s)) \cup {n} /\ n \notin 1 .. Len(s)
  BY <1>3, <1>6, ShellAssumption
<1> QED
  BY <1>1, <1>2, <1>3, <1>4, <1>5, <1>6, <1>7

\* The steps of one process that change neither the dialogs nor the jobs.
LEMMA OneGoesTypes ==
    ASSUME ShellTypes, NEW p \in Procs, NEW pc \in {"lock", "stale", "created", "gone"} \cup Named, ProcessGoes(p, pc),
           UNCHANGED <<dsUi, dsJobs, dsDisk>>, dsKills' \in Nat, dsJournal' \in [pending : Nat, previous : Nat]
    PROVE  ShellTypes'
  BY ShellGoes DEF ShellTypes

\* A process that is not up may go wherever it goes.
LEMMA OneGoesJobs ==
    ASSUME ShellTypes, JobsAreWatched, NEW p \in Procs,
           NEW pc \in {"lock", "stale", "created", "gone"} \cup Named, ProcessGoes(p, pc),
           Pc(p) # "up", UNCHANGED <<dsUi, dsJobs>>
    PROVE  JobsAreWatched'
<1>1. Procs' = Procs /\ \A q \in Procs : q # p => Pc(q)' = Pc(q)
  BY ShellGoes
<1>2. \A j \in dsJobs : j.of \in Procs' /\ Pc(j.of)' = "up" /\ dsUi'[j.of].busy = TRUE
                        /\ (j.kind = "update" => j.target > 0)
  <2> TAKE j \in dsJobs
  <2>1. j.of \in Procs /\ Pc(j.of) = "up" /\ dsUi[j.of].busy = TRUE /\ (j.kind = "update" => j.target > 0)
    BY DEF JobsAreWatched
  <2>2. PICK o : o = j.of
    OBVIOUS
  <2>3. o \in Procs /\ o # p
    BY <2>1, <2>2
  <2>4. Pc(o)' = "up"
    BY <1>1, <2>1, <2>2, <2>3
  <2> QED
    BY <1>1, <2>1, <2>2, <2>4 DEF Pc
<1>3. OneJob'
  BY DEF JobsAreWatched, OneJob
<1> QED
  BY <1>2, <1>3 DEF JobsAreWatched

\* The steps about the lock.
LEMMA LockSteps ==
    ASSUME ShellInv, NEW p \in Procs,
           CreateLock(p) \/ WritePid(p) \/ SeeStale(p) \/ RemoveStale(p) \/ GiveUpWaiting(p)
    PROVE  ShellInv'
<1>1. PICK pc \in {"lock", "stale", "created", "gone"} \cup Named : ProcessGoes(p, pc)
  BY DEF CreateLock, WritePid, SeeStale, RemoveStale, GiveUpWaiting, Named
<1>2. /\ UNCHANGED <<dsUi, dsJobs, dsDisk, dsPort, dsKills, dsJournal>> /\ Pc(p) # "up"
  BY DEF CreateLock, WritePid, SeeStale, RemoveStale, GiveUpWaiting, dsUpdate
<1>3. ShellTypes'
  BY <1>1, <1>2, OneGoesTypes DEF ShellInv, ShellTypes
<1>4. JobsAreWatched'
  BY <1>1, <1>2, OneGoesJobs DEF ShellInv
<1>5. LockIsOurs'
  <2> SUFFICES ASSUME dsKills = 0 PROVE LockIsOurs'
    BY <1>2 DEF LockIsOurs
  <2>1. /\ NoLock \notin Procs /\ BlankLock \notin Procs /\ NoLock # BlankLock
    BY ShellNumbers DEF ShellInv
  <2>2. /\ Procs' = Procs /\ Pc(p)' = pc /\ \A q \in Procs : q # p => Pc(q)' = Pc(q)
    BY <1>1, ShellGoes DEF ShellInv
  <2>3. /\ dsLock \in {NoLock, BlankLock} \cup Procs
        /\ \A q \in Procs : /\ Pc(q) # "stale" /\ (Pc(q) = "created" => dsLock = BlankLock)
                            /\ (Pc(q) \in Named => dsLock = q)
        /\ \A q, r \in Procs : Pc(q) = "created" /\ Pc(r) = "created" => q = r
        /\ dsLock \in Procs => Pc(dsLock) \in Named
        /\ dsPort # 0 => dsPort \in Procs /\ Pc(dsPort) \in Named \ {"starting"}
    BY DEF ShellInv, LockIsOurs
  <2> SUFFICES /\ dsLock' \in {NoLock, BlankLock} \cup Procs
               /\ \A q \in Procs : /\ Pc(q)' # "stale" /\ (Pc(q)' = "created" => dsLock' = BlankLock)
                                   /\ (Pc(q)' \in Named => dsLock' = q)
               /\ \A q, r \in Procs : Pc(q)' = "created" /\ Pc(r)' = "created" => q = r
               /\ dsLock' \in Procs => \A q \in Procs : q = dsLock' => Pc(q)' \in Named
               /\ dsPort # 0 => dsPort \in Procs /\ \A q \in Procs : q = dsPort => Pc(q)' \in Named \ {"starting"}
    BY <1>2, <2>2 DEF LockIsOurs, BlankLock, NoLock, Pc
  <2>4. "lock" \notin Named /\ "created" \notin Named /\ "gone" \notin Named /\ "stale" \notin Named /\ "starting" \in Named
    BY DEF Named
  <2>5. CASE CreateLock(p)
    <3>1. /\ ProcessGoes(p, "created") /\ dsLock = NoLock /\ dsLock' = BlankLock
      BY <2>5 DEF CreateLock
    <3>2. Pc(p)' = "created"
      BY <3>1, ShellGoes DEF ShellInv
    <3>3. dsPort = 0 /\ \A q \in Procs : Pc(q) \notin Named /\ Pc(q) # "created"
      BY <2>1, <2>3, <3>1
    <3> QED
      BY <2>1, <2>2, <2>3, <2>4, <3>1, <3>2, <3>3
  <2>6. CASE WritePid(p)
    <3>1. /\ ProcessGoes(p, "starting") /\ Pc(p) = "created"
          /\ dsLock' = IF dsLock = BlankLock THEN p ELSE dsLock
      BY <2>6 DEF WritePid
    <3>2. Pc(p)' = "starting"
      BY <2>4, <3>1, ShellGoes DEF ShellInv
    <3>3. dsLock = BlankLock /\ dsLock' = p
      BY <2>3, <3>1
    <3>4. dsPort = 0 /\ \A q \in Procs \ {p} : Pc(q) \notin Named /\ Pc(q) # "created"
      BY <2>1, <2>3, <3>1, <3>3
    <3> QED
      BY <2>1, <2>2, <2>3, <2>4, <3>2, <3>3, <3>4
  <2>7. CASE SeeStale(p)
    <3>1. Pc(dsLock) = "gone" /\ dsLock \in Procs
      BY <2>7 DEF SeeStale, Dead
    <3> QED
      BY <2>3, <2>4, <3>1
  <2>8. CASE RemoveStale(p)
    BY <2>3, <2>8 DEF RemoveStale
  <2>9. CASE GiveUpWaiting(p)
    <3>1. /\ ProcessGoes(p, "gone") /\ Pc(p) = "lock" /\ dsLock' = dsLock
      BY <2>9 DEF GiveUpWaiting
    <3>2. Pc(p)' = "gone"
      BY <3>1, ShellGoes DEF ShellInv
    <3> QED
      BY <2>1, <2>2, <2>3, <2>4, <3>1, <3>2
  <2> QED
    BY <2>5, <2>6, <2>7, <2>8, <2>9
<1> QED
  BY <1>3, <1>4, <1>5 DEF ShellInv

\* The holder of the lock goes on, new shells may start, and the port is its own
\* or free.
LEMMA HolderGoes ==
    ASSUME ShellInv, NEW p \in Procs, dsKills = 0 => Pc(p) \in Named, Procs \subseteq Procs',
           Pc(p)' \in Named \ {"starting"}, \A q \in Procs : q # p => Pc(q)' = Pc(q),
           \A q \in Procs' \ Procs : Pc(q)' = "lock", dsLock' = dsLock, dsKills' = dsKills, dsPort' \in {0, p, dsPort}
    PROVE  LockIsOurs'
<1> SUFFICES ASSUME dsKills = 0 PROVE LockIsOurs'
  BY DEF LockIsOurs
<1>1. NoLock \notin Procs /\ BlankLock \notin Procs /\ NoLock # BlankLock
  BY ShellNumbers DEF ShellInv
<1>2. /\ dsLock \in {NoLock, BlankLock} \cup Procs
      /\ \A q \in Procs : /\ Pc(q) # "stale" /\ (Pc(q) = "created" => dsLock = BlankLock)
                          /\ (Pc(q) \in Named => dsLock = q)
      /\ dsPort # 0 => dsPort \in Procs /\ Pc(dsPort) \in Named \ {"starting"}
  BY DEF ShellInv, LockIsOurs
<1>3. dsLock = p /\ \A q \in Procs : q # p => Pc(q) \notin Named /\ Pc(q) # "created"
  BY <1>1, <1>2
<1>4. /\ "lock" \notin Named /\ "created" \notin Named /\ "gone" \notin Named /\ "stale" \notin Named
      /\ "starting" \in Named
  BY DEF Named
<1>5. dsPort \in {0, p} /\ dsPort' \in {0, p}
  BY <1>2, <1>3
<1>6. \A q \in Procs' : q # p => Pc(q)' \notin Named /\ Pc(q)' # "created" /\ Pc(q)' # "stale"
  BY <1>2, <1>3, <1>4
<1>7. /\ \A q \in Procs' : /\ Pc(q)' # "stale" /\ (Pc(q)' = "created" => dsLock' = BlankLock)
                           /\ (Pc(q)' \in Named => dsLock' = q)
      /\ \A q, r \in Procs' : Pc(q)' = "created" /\ Pc(r)' = "created" => q = r
  BY <1>3, <1>4, <1>6
<1>8. /\ dsLock' \in Procs' => Pc(p)' \in Named
      /\ dsPort' # 0 => dsPort' \in Procs' /\ Pc(p)' \in Named \ {"starting"}
  BY <1>3, <1>5
<1>9. dsLock' = p /\ (dsPort' # 0 => dsPort' = p)
  BY <1>3, <1>5
<1>10. /\ dsLock' \in Procs' => Pc(dsLock)' \in Named
       /\ dsPort' # 0 => dsPort' \in Procs' /\ Pc(dsPort)' \in Named \ {"starting"}
  BY <1>8, <1>9 DEF Pc
<1> QED
  BY <1>3, <1>7, <1>10 DEF LockIsOurs, NoLock, BlankLock

\* What becomes of one dialog is its own business.
LEMMA DialogGoes ==
    ASSUME ShellTypes, NEW p \in Procs, NEW e \in Dialogs, dsUi' = [dsUi EXCEPT ![p] = e]
    PROVE  /\ dsUi' \in Seq(Dialogs) /\ Len(dsUi') = Len(dsUi)
           /\ dsUi'[p] = e /\ \A q \in Procs : q # p => dsUi'[q] = dsUi[q]
<1>1. p \in 1 .. Len(dsUi) /\ Procs = 1 .. Len(dsUi) /\ dsUi \in Seq(Dialogs)
  BY ShellNumbers DEF ShellTypes
<1> QED
  BY <1>1, ExceptSeq

\* An answer of the backend, or none in time, opens the page.
LEMMA PageOpens ==
    ASSUME ShellInv, NEW p \in Procs, BackendAnswers(p) \/ TimedOut(p)
    PROVE  ShellInv'
<1>1. /\ Pc(p) = "waiting" /\ ProcessGoes(p, "up") /\ UNCHANGED <<dsLock, dsPort, dsDisk, dsJobs, dsKills>>
      /\ Confirm(p) \/ dsJournal' = dsJournal
      /\ dsUi' = [dsUi EXCEPT ![p].offer = dsJournal'.pending # 0]
  BY DEF BackendAnswers, TimedOut
<1>2. "up" \in Named /\ "waiting" \in Named /\ "up" \in Named \ {"starting"}
  BY DEF Named
<1>3. /\ dsProcs' \in Seq(Shells) /\ Len(dsProcs') = Len(dsProcs) /\ Procs' = Procs
      /\ Pc(p)' = "up" /\ \A q \in Procs : q # p => Pc(q)' = Pc(q)
  BY <1>1, <1>2, ShellGoes DEF ShellInv
<1>4. PICK good \in BOOLEAN : good = (dsJournal'.pending # 0)
  OBVIOUS
<1>5. dsUi' = [dsUi EXCEPT ![p] = [@ EXCEPT !.offer = good]]
  BY <1>1, <1>4
<1>6. dsUi[p] \in Dialogs
  BY ShellNumbers DEF ShellInv
<1>7. PICK e \in Dialogs : e = [dsUi[p] EXCEPT !.offer = good]
  BY <1>6 DEF Dialogs
<1>8. e.busy = dsUi[p].busy
  BY <1>6, <1>7 DEF Dialogs
<1>9. /\ dsUi' \in Seq(Dialogs) /\ Len(dsUi') = Len(dsUi)
      /\ dsUi'[p] = e /\ \A q \in Procs : q # p => dsUi'[q] = dsUi[q]
  BY <1>5, <1>7, DialogGoes DEF ShellInv
<1>10. dsJournal' \in [pending : Nat, previous : Nat]
  <2>1. dsJournal \in [pending : Nat, previous : Nat]
    BY DEF ShellInv, ShellTypes
  <2>2. CASE Confirm(p)
    BY <2>1, <2>2 DEF Confirm
  <2> QED
    BY <1>1, <2>1, <2>2
<1>11. ShellTypes'
  BY <1>1, <1>3, <1>9, <1>10 DEF ShellInv, ShellTypes
<1>12. JobsAreWatched'
  <2>1. \A j \in dsJobs : j.of \in Procs' /\ Pc(j.of)' = "up" /\ dsUi'[j.of].busy = TRUE
                          /\ (j.kind = "update" => j.target > 0)
    <3> TAKE j \in dsJobs
    <3>1. j.of \in Procs /\ Pc(j.of) = "up" /\ dsUi[j.of].busy = TRUE /\ (j.kind = "update" => j.target > 0)
      BY DEF ShellInv, JobsAreWatched
    <3>2. PICK o : o = j.of
      OBVIOUS
    <3>3. o # p /\ Pc(o)' = "up" /\ dsUi'[o] = dsUi[o]
      BY <1>1, <1>3, <1>9, <3>1, <3>2
    <3> QED
      BY <1>3, <3>1, <3>2, <3>3 DEF Pc
  <2> QED
    BY <1>1, <2>1 DEF ShellInv, JobsAreWatched, OneJob
<1>13. LockIsOurs'
  BY <1>1, <1>2, <1>3, HolderGoes
<1> QED
  BY <1>11, <1>12, <1>13 DEF ShellInv

\* A shell starts its backend, or ends it.
LEMMA BackendSteps ==
    ASSUME ShellInv, NEW p \in Procs, StartServer(p) \/ Close(p)
    PROVE  ShellInv'
<1>1. PICK pc \in Named \ {"starting"} : ProcessGoes(p, pc) /\ (pc = "waiting" => Pc(p) # "up")
  BY DEF StartServer, Close, Named
<1>2. /\ UNCHANGED <<dsUi, dsDisk, dsLock, dsKills, dsJournal>> /\ Pc(p) \in Named
      /\ dsPort' \in {0, p, dsPort}
      /\ \/ dsJobs' = {j \in dsJobs : j.of # p}
         \/ dsJobs' = dsJobs /\ Pc(p) # "up"
  <2>1. CASE StartServer(p)
    BY <2>1 DEF StartServer, dsUpdate, Named
  <2>2. CASE Close(p)
    BY <2>2 DEF Close, Named
  <2> QED
    BY <2>1, <2>2
<1>3. /\ dsProcs' \in Seq(Shells) /\ Len(dsProcs') = Len(dsProcs) /\ Procs' = Procs
      /\ Pc(p)' = pc /\ \A q \in Procs : q # p => Pc(q)' = Pc(q)
  BY <1>1, ShellGoes DEF ShellInv
<1>4. dsJobs' \subseteq dsJobs
  BY <1>2
<1>5. ShellTypes'
  BY <1>2, <1>3, <1>4 DEF ShellInv, ShellTypes
<1>6. \A j \in dsJobs' : j.of # p
  BY <1>2 DEF ShellInv, JobsAreWatched
<1>7. JobsAreWatched'
  <2>1. \A j \in dsJobs' : j.of \in Procs' /\ Pc(j.of)' = "up" /\ dsUi'[j.of].busy = TRUE
                           /\ (j.kind = "update" => j.target > 0)
    <3> TAKE j \in dsJobs'
    <3>1. j.of \in Procs /\ Pc(j.of) = "up" /\ dsUi[j.of].busy = TRUE /\ (j.kind = "update" => j.target > 0)
      BY <1>4 DEF ShellInv, JobsAreWatched
    <3>2. PICK o : o = j.of
      OBVIOUS
    <3>3. o # p /\ Pc(o)' = "up"
      BY <1>3, <1>6, <3>1, <3>2
    <3> QED
      BY <1>2, <1>3, <3>1, <3>2, <3>3 DEF Pc
  <2> QED
    BY <1>4, <2>1 DEF ShellInv, JobsAreWatched, OneJob
<1>8. LockIsOurs'
  BY <1>2, <1>3, HolderGoes
<1> QED
  BY <1>5, <1>7, <1>8 DEF ShellInv

\* A process ends.
LEMMA ShellEnds ==
    ASSUME ShellInv, NEW p \in Procs, Release(p) \/ Kill(p)
    PROVE  ShellInv'
<1>1. /\ ProcessGoes(p, "gone") /\ UNCHANGED <<dsUi, dsDisk, dsJournal>> /\ dsKills' \in Nat
      /\ dsJobs' \subseteq dsJobs /\ \A j \in dsJobs' : j.of # p
  <2>1. CASE Release(p)
    BY <2>1 DEF Release, dsUpdate, ShellInv, ShellTypes, JobsAreWatched
  <2>2. CASE Kill(p)
    BY <2>2 DEF Kill, ShellInv, ShellTypes
  <2> QED
    BY <2>1, <2>2
<1>2. /\ dsProcs' \in Seq(Shells) /\ Len(dsProcs') = Len(dsProcs) /\ Procs' = Procs
      /\ Pc(p)' = "gone" /\ \A q \in Procs : q # p => Pc(q)' = Pc(q)
  BY <1>1, ShellGoes DEF ShellInv
<1>3. ShellTypes'
  BY <1>1, <1>2 DEF ShellInv, ShellTypes
<1>4. JobsAreWatched'
  <2>1. \A j \in dsJobs' : j.of \in Procs' /\ Pc(j.of)' = "up" /\ dsUi'[j.of].busy = TRUE
                           /\ (j.kind = "update" => j.target > 0)
    <3> TAKE j \in dsJobs'
    <3>1. j.of \in Procs /\ Pc(j.of) = "up" /\ dsUi[j.of].busy = TRUE /\ (j.kind = "update" => j.target > 0)
      BY <1>1 DEF ShellInv, JobsAreWatched
    <3>2. PICK o : o = j.of
      OBVIOUS
    <3>3. o # p /\ Pc(o)' = "up"
      BY <1>1, <1>2, <3>1, <3>2
    <3> QED
      BY <1>1, <1>2, <3>1, <3>2, <3>3 DEF Pc
  <2> QED
    BY <1>1, <2>1 DEF ShellInv, JobsAreWatched, OneJob
<1>5. LockIsOurs'
  <2>1. CASE Kill(p)
    <3>1. dsKills' # 0
      BY <2>1 DEF Kill, ShellInv, ShellTypes
    <3> QED
      BY <3>1 DEF LockIsOurs
  <2>2. CASE Release(p)
    <3> SUFFICES ASSUME dsKills = 0 PROVE LockIsOurs'
      BY <2>2 DEF LockIsOurs, Release
    <3>1. /\ Pc(p) = "closing" /\ dsLock' = NoLock /\ dsPort' = IF dsPort = p THEN 0 ELSE dsPort
      BY <2>2 DEF Release
    <3>2. NoLock \notin Procs /\ BlankLock \notin Procs
      BY ShellNumbers DEF ShellInv
    <3>3. /\ \A q \in Procs : /\ Pc(q) # "stale" /\ (Pc(q) = "created" => dsLock = BlankLock)
                              /\ (Pc(q) \in Named => dsLock = q)
          /\ dsPort # 0 => dsPort \in Procs /\ Pc(dsPort) \in Named \ {"starting"}
      BY DEF ShellInv, LockIsOurs
    <3>4. "closing" \in Named /\ "gone" \notin Named
      BY DEF Named
    <3>5. dsLock = p /\ \A q \in Procs : q # p => Pc(q) \notin Named /\ Pc(q) # "created"
      BY <3>1, <3>2, <3>3, <3>4
    <3>6. dsPort' = 0
      BY <3>1, <3>3, <3>5
    <3>7. \A q \in Procs : Pc(q)' \notin Named /\ Pc(q)' # "created" /\ Pc(q)' # "stale"
      BY <1>2, <3>3, <3>4, <3>5
    <3> QED
      BY <1>2, <3>1, <3>2, <3>6, <3>7 DEF LockIsOurs, NoLock, BlankLock
  <2> QED
    BY <2>1, <2>2
<1> QED
  BY <1>3, <1>4, <1>5 DEF ShellInv

\* What the lock and the port say does not depend on dialogs, jobs or files.
LEMMA LockStays ==
    ASSUME LockIsOurs, UNCHANGED <<dsProcs, dsLock, dsPort, dsKills>>
    PROVE  LockIsOurs'
  BY DEF LockIsOurs, Procs, Pc, NoLock, BlankLock

\* A dialog arms its timer, or starts a job of its own.
LEMMA DialogActs ==
    ASSUME ShellInv, NEW p \in Procs, ArmAutomatic(p) \/ StartInstall(p) \/ StartRollback(p)
    PROVE  ShellInv'
<1>1. UNCHANGED <<dsProcs, dsLock, dsPort, dsDisk, dsJournal, dsKills>> /\ Pc(p) = "up" /\ Procs' = Procs
  BY DEF ArmAutomatic, StartInstall, StartRollback, StartJob, Procs
<1>2. LockIsOurs'
  BY <1>1, LockStays DEF ShellInv
<1>3. dsUi[p] \in Dialogs
  BY ShellNumbers DEF ShellInv
<1>4. CASE ArmAutomatic(p)
  <2>1. PICK e \in Dialogs : e = [dsUi[p] EXCEPT !.armed = TRUE]
    BY <1>3 DEF Dialogs
  <2>2. e.busy = dsUi[p].busy
    BY <1>3, <2>1 DEF Dialogs
  <2>3. dsUi' = [dsUi EXCEPT ![p] = e] /\ dsJobs' = dsJobs
    BY <1>4, <2>1 DEF ArmAutomatic
  <2>4. /\ dsUi' \in Seq(Dialogs) /\ Len(dsUi') = Len(dsUi)
        /\ dsUi'[p] = e /\ \A q \in Procs : q # p => dsUi'[q] = dsUi[q]
    BY <2>3, DialogGoes DEF ShellInv
  <2>5. ShellTypes'
    BY <1>1, <2>3, <2>4 DEF ShellInv, ShellTypes
  <2>6. JobsAreWatched'
    <3>1. \A j \in dsJobs : j.of \in Procs' /\ Pc(j.of)' = "up" /\ dsUi'[j.of].busy = TRUE
                            /\ (j.kind = "update" => j.target > 0)
      BY <1>1, <2>2, <2>4 DEF ShellInv, JobsAreWatched, Pc
    <3> QED
      BY <2>3, <3>1 DEF ShellInv, JobsAreWatched, OneJob
  <2> QED
    BY <1>2, <2>5, <2>6 DEF ShellInv
<1>5. CASE StartInstall(p) \/ StartRollback(p)
  <2>1. PICK kind \in {"update", "rollback"} :
          StartJob(p, kind) /\ dsUi[p].busy # TRUE /\ (kind = "update" => Newer(p))
    <3>1. CASE StartInstall(p)
      BY <3>1 DEF StartInstall
    <3>2. CASE StartRollback(p)
      BY <3>2 DEF StartRollback
    <3> QED
      BY <1>5, <3>1, <3>2
  <2>2. PICK target : target = IF kind = "update" THEN MaxVersion ELSE dsJournal.previous
    OBVIOUS
  <2>3. target \in Nat /\ (kind = "update" => target > 0)
    <3>1. dsJournal.previous \in Nat /\ dsProcs[p].version \in Nat
      BY ShellNumbers DEF ShellInv, ShellTypes, Shells
    <3> QED
      BY <2>1, <2>2, <3>1, ShellAssumption DEF Newer
  <2>4. PICK job \in Jobs : job = [of |-> p, kind |-> kind, stage |-> "fetch", target |-> target]
    <3>1. p \in Nat
      BY ShellNumbers DEF ShellInv
    <3> QED
      BY <2>1, <2>3, <3>1 DEF Jobs
  <2>5. job.of = p /\ job.kind = kind /\ job.target = target
    BY <2>4
  <2>6. PICK offer \in BOOLEAN : offer = (dsUi[p].offer /\ kind # "rollback")
    OBVIOUS
  <2>7. PICK e \in Dialogs : e = [busy |-> TRUE, armed |-> FALSE, offer |-> offer] /\ e.busy = TRUE
    <3>1. \A b \in BOOLEAN : [busy |-> TRUE, armed |-> FALSE, offer |-> b] \in Dialogs
      BY DEF Dialogs
    <3>2. PICK e : e = [busy |-> TRUE, armed |-> FALSE, offer |-> offer]
      OBVIOUS
    <3>3. e \in Dialogs
      BY ONLY <3>1, <3>2, offer \in BOOLEAN, Zenon
    <3>4. e.busy = TRUE
      BY ONLY <3>2, Zenon
    <3> QED
      BY ONLY <3>2, <3>3, <3>4, Zenon
  <2>8. dsUi' = [dsUi EXCEPT ![p] = e] /\ dsJobs' = dsJobs \cup {job}
    <3>1. dsUi' = [dsUi EXCEPT ![p] = [busy |-> TRUE, armed |-> FALSE, offer |-> @.offer /\ kind # "rollback"]]
      BY <2>1 DEF StartJob
    <3>2. dsUi' = [dsUi EXCEPT ![p] = [busy |-> TRUE, armed |-> FALSE, offer |-> dsUi[p].offer /\ kind # "rollback"]]
      BY <3>1
    <3>3. dsUi' = [dsUi EXCEPT ![p] = e]
      BY ONLY <2>6, <2>7, <3>2, Zenon
    <3>4. dsJobs' = dsJobs \cup {job}
      BY <2>1, <2>2, <2>4 DEF StartJob
    <3> QED
      BY <3>3, <3>4
  <2>9. /\ dsUi' \in Seq(Dialogs) /\ Len(dsUi') = Len(dsUi)
        /\ dsUi'[p] = e /\ \A q \in Procs : q # p => dsUi'[q] = dsUi[q]
    BY <2>8, DialogGoes DEF ShellInv
  <2>10. ShellTypes'
    BY <1>1, <2>8, <2>9 DEF ShellInv, ShellTypes
  <2>11. \A j \in dsJobs : j.of # p /\ j.of \in Procs /\ Pc(j.of) = "up" /\ dsUi[j.of].busy = TRUE
                           /\ (j.kind = "update" => j.target > 0)
    BY <2>1 DEF ShellInv, JobsAreWatched
  <2>12. JobsAreWatched'
    <3>1. \A j \in dsJobs : j.of \in Procs' /\ Pc(j.of)' = "up" /\ dsUi'[j.of].busy = TRUE
                            /\ (j.kind = "update" => j.target > 0)
      BY <1>1, <2>9, <2>11 DEF Pc
    <3>2. job.of \in Procs' /\ Pc(job.of)' = "up" /\ dsUi'[job.of].busy = TRUE
          /\ (job.kind = "update" => job.target > 0)
      BY <1>1, <2>3, <2>5, <2>7, <2>9 DEF Pc
    <3>3. OneJob'
      BY <2>5, <2>8, <2>11 DEF ShellInv, JobsAreWatched, OneJob
    <3> QED
      BY <2>8, <3>1, <3>2, <3>3 DEF JobsAreWatched
  <2> QED
    BY <1>2, <2>10, <2>12 DEF ShellInv
<1> QED
  BY <1>4, <1>5

\* A job goes on.
LEMMA JobGoesOn ==
    ASSUME ShellInv, NEW j \in dsJobs, UpdateVerified(j) \/ RollbackVerified(j) \/ JobInstalled(j)
    PROVE  ShellInv'
<1>1. j \in Jobs
  BY DEF ShellInv, ShellTypes
<1>2. PICK stage \in {"fetch", "install", "relaunch"} :
        /\ JobBecomes(j, stage) /\ UNCHANGED <<dsProcs, dsLock, dsPort, dsUi, dsKills>>
        /\ dsDisk' \in {dsDisk, j.target}
        /\ dsJournal' \in {dsJournal, [pending |-> j.target, previous |-> dsProcs[j.of].version]}
  BY DEF UpdateVerified, RollbackVerified, JobInstalled, JobVerified
<1>3. PICK k \in Jobs : k = [j EXCEPT !.stage = stage]
  BY <1>1, <1>2 DEF Jobs
<1>4. k.of = j.of /\ k.kind = j.kind /\ k.target = j.target
  BY <1>1, <1>3 DEF Jobs
<1>5. dsJobs' = (dsJobs \ {j}) \cup {k}
  BY <1>2, <1>3 DEF JobBecomes
<1>6. /\ \A i \in dsJobs : /\ i.of \in Procs /\ Pc(i.of) = "up" /\ dsUi[i.of].busy = TRUE
                           /\ i.kind = "update" => i.target > 0
      /\ \A h, i \in dsJobs : h.of = i.of => h = i
  BY DEF ShellInv, JobsAreWatched, OneJob
<1>7. ShellTypes'
  <2>1. j.target \in Nat /\ dsProcs[j.of].version \in Nat
    BY <1>1, <1>6, ShellNumbers DEF ShellInv, Jobs, Shells
  <2>2. dsDisk' \in Nat /\ dsJournal' \in [pending : Nat, previous : Nat]
    BY <1>2, <2>1 DEF ShellInv, ShellTypes
  <2>3. dsJobs' \subseteq Jobs
    BY <1>5 DEF ShellInv, ShellTypes
  <2> QED
    BY <1>2, <2>2, <2>3 DEF ShellInv, ShellTypes
<1>8. JobsAreWatched'
  <2>1. \A i \in dsJobs' : \E h \in dsJobs : /\ i.of = h.of /\ i.kind = h.kind /\ i.target = h.target
                                             /\ i = h \/ (i = k /\ h = j)
    BY <1>4, <1>5
  <2>2. \A i \in dsJobs' : /\ i.of \in Procs /\ Pc(i.of) = "up" /\ dsUi[i.of].busy = TRUE
                           /\ i.kind = "update" => i.target > 0
    BY <1>6, <2>1
  <2>3. \A h, i \in dsJobs' : h.of = i.of => h = i
    BY <1>4, <1>5, <1>6
  <2> QED
    BY <1>2, <2>2, <2>3 DEF JobsAreWatched, OneJob, Procs, Pc
<1>9. LockIsOurs'
  BY <1>2, LockStays DEF ShellInv
<1> QED
  BY <1>7, <1>8, <1>9 DEF ShellInv

\* A job fails, and its dialog is free again.
LEMMA JobFailsWell ==
    ASSUME ShellInv, NEW j \in dsJobs, JobFails(j)
    PROVE  ShellInv'
<1>1. UNCHANGED <<dsProcs, dsLock, dsPort, dsDisk, dsJournal, dsKills>> /\ dsJobs' = dsJobs \ {j}
      /\ dsUi' = [dsUi EXCEPT ![j.of].busy = FALSE] /\ Procs' = Procs
  BY DEF JobFails, Procs
<1>2. PICK p \in Procs : p = j.of
  BY DEF ShellInv, JobsAreWatched
<1>3. dsUi[p] \in Dialogs
  BY ShellNumbers DEF ShellInv
<1>4. PICK e \in Dialogs : e = [dsUi[p] EXCEPT !.busy = FALSE]
  BY <1>3 DEF Dialogs
<1>5. dsUi' = [dsUi EXCEPT ![p] = e]
  BY <1>1, <1>2, <1>4
<1>6. /\ dsUi' \in Seq(Dialogs) /\ Len(dsUi') = Len(dsUi)
      /\ \A q \in Procs : q # p => dsUi'[q] = dsUi[q]
  BY <1>5, DialogGoes DEF ShellInv
<1>7. ShellTypes'
  BY <1>1, <1>6 DEF ShellInv, ShellTypes
<1>8. JobsAreWatched'
  <2>1. /\ \A i \in dsJobs : /\ i.of \in Procs /\ Pc(i.of) = "up" /\ dsUi[i.of].busy = TRUE
                             /\ i.kind = "update" => i.target > 0
        /\ \A h, i \in dsJobs : h.of = i.of => h = i
    BY DEF ShellInv, JobsAreWatched, OneJob
  <2>2. \A i \in dsJobs' : i.of # p
    BY <1>1, <1>2, <2>1
  <2>3. \A i \in dsJobs' : i.of \in Procs' /\ Pc(i.of)' = "up" /\ dsUi'[i.of].busy = TRUE
                           /\ (i.kind = "update" => i.target > 0)
    BY <1>1, <1>6, <2>1, <2>2 DEF Pc
  <2> QED
    BY <1>1, <2>1, <2>3 DEF JobsAreWatched, OneJob
<1>9. LockIsOurs'
  BY <1>1, LockStays DEF ShellInv
<1> QED
  BY <1>7, <1>8, <1>9 DEF ShellInv

\* The installed version is started, and the process that installed it leaves.
LEMMA RelaunchHandsOver ==
    ASSUME ShellInv, NEW j \in dsJobs, JobRelaunches(j)
    PROVE  ShellInv'
<1>1. PICK p \in Procs : p = j.of
  BY DEF ShellInv, JobsAreWatched
<1>2. Pc(p) = "up" /\ dsProcs[p] \in Shells /\ dsUi[p] \in Dialogs /\ p \in 1 .. Len(dsProcs)
      /\ dsProcs \in Seq(Shells) /\ dsUi \in Seq(Dialogs) /\ Len(dsUi) = Len(dsProcs) /\ DOMAIN dsProcs = 1 .. Len(dsProcs)
  BY <1>1, ShellNumbers, LenProperties DEF ShellInv, JobsAreWatched, ShellTypes
<1>3. PICK c \in Shells : c = [dsProcs[p] EXCEPT !.pc = "leaving"]
  BY <1>2 DEF Shells, Named
<1>4. c.pc = "leaving"
  BY <1>2, <1>3 DEF Shells
<1>5. PICK e \in Dialogs : e = [dsUi[p] EXCEPT !.busy = FALSE]
  BY <1>2 DEF Dialogs
<1>6. PICK s, d : s = [dsProcs EXCEPT ![p] = c] /\ d = [dsUi EXCEPT ![p] = e]
  OBVIOUS
<1>7. /\ s \in Seq(Shells) /\ Len(s) = Len(dsProcs) /\ s[p] = c
      /\ \A q \in 1 .. Len(dsProcs) : q # p => s[q] = dsProcs[q]
  BY <1>2, <1>6, ExceptSeq
<1>8. /\ d \in Seq(Dialogs) /\ Len(d) = Len(dsProcs)
      /\ \A q \in 1 .. Len(dsProcs) : q # p => d[q] = dsUi[q]
  BY <1>2, <1>6, ExceptSeq
<1>9. /\ dsProcs' = Append(s, StartedShell) /\ dsUi' = Append(d, FreshUi)
      /\ UNCHANGED <<dsLock, dsPort, dsDisk, dsJournal, dsKills>> /\ dsJobs' = dsJobs \ {j} /\ Len(s) < MaxProcs
  BY <1>1, <1>3, <1>5, <1>6, <1>7 DEF JobRelaunches
<1>10. PICK n : n = Len(s) + 1
  OBVIOUS
<1>11. /\ dsProcs' \in Seq(Shells) /\ Len(dsProcs') = n /\ n <= MaxProcs /\ dsUi' \in Seq(Dialogs) /\ Len(dsUi') = n
       /\ Procs' = Procs \cup {n} /\ n \notin Procs /\ dsProcs'[n].pc = "lock"
       /\ \A q \in Procs : dsProcs'[q] = s[q] /\ dsUi'[q] = d[q]
  BY <1>7, <1>8, <1>9, <1>10, ShellStarts DEF ShellInv, Procs
<1>12. Pc(p)' = "leaving" /\ Pc(n)' = "lock" /\ \A q \in Procs : q # p => Pc(q)' = Pc(q) /\ dsUi'[q] = dsUi[q]
  BY <1>2, <1>4, <1>7, <1>8, <1>11 DEF Pc, Procs
<1>13. ShellTypes'
  BY <1>9, <1>11 DEF ShellInv, ShellTypes
<1>14. JobsAreWatched'
  <2>1. /\ \A i \in dsJobs : /\ i.of \in Procs /\ Pc(i.of) = "up" /\ dsUi[i.of].busy = TRUE
                             /\ i.kind = "update" => i.target > 0
        /\ \A h, i \in dsJobs : h.of = i.of => h = i
    BY DEF ShellInv, JobsAreWatched, OneJob
  <2>2. \A i \in dsJobs' : i.of # p
    BY <1>1, <1>9, <2>1
  <2>3. \A i \in dsJobs' : i.of \in Procs' /\ Pc(i.of)' = "up" /\ dsUi'[i.of].busy = TRUE
                           /\ (i.kind = "update" => i.target > 0)
    <3> TAKE i \in dsJobs'
    <3>1. PICK q \in Procs : q = i.of /\ q # p
      BY <1>9, <2>1, <2>2
    <3>2. Pc(q)' = "up" /\ dsUi'[q].busy = TRUE
      BY <1>9, <1>12, <2>1, <3>1
    <3> QED
      BY <1>9, <1>11, <2>1, <3>1, <3>2 DEF Pc
  <2> QED
    BY <1>9, <2>1, <2>3 DEF JobsAreWatched, OneJob
<1>15. LockIsOurs'
  <2>1. "up" \in Named /\ "leaving" \in Named \ {"starting"}
    BY DEF Named
  <2>2. \A q \in Procs' \ Procs : Pc(q)' = "lock"
    BY <1>11, <1>12 DEF Pc
  <2>3. \A q \in Procs : q # p => Pc(q)' = Pc(q)
    BY <1>12
  <2>4. Procs \subseteq Procs' /\ Pc(p)' \in Named \ {"starting"} /\ Pc(p) \in Named
    BY <1>2, <1>11, <1>12, <2>1
  <2>5. dsLock' = dsLock /\ dsKills' = dsKills /\ dsPort' \in {0, p, dsPort}
    BY <1>9
  <2> QED
    BY <2>2, <2>3, <2>4, <2>5, HolderGoes
<1> QED
  BY <1>13, <1>14, <1>15 DEF ShellInv

\* The user starts another one.
LEMMA LaunchWaits ==
    ASSUME ShellInv, LaunchShell
    PROVE  ShellInv'
<1>1. /\ dsProcs' = Append(dsProcs, StartedShell) /\ dsUi' = Append(dsUi, FreshUi) /\ Len(dsProcs) < MaxProcs
      /\ UNCHANGED <<dsLock, dsPort, dsDisk, dsJournal, dsJobs, dsKills>>
  BY DEF LaunchShell
<1>2. PICK n : n = Len(dsProcs) + 1
  OBVIOUS
<1>3. dsProcs \in Seq(Shells) /\ dsUi \in Seq(Dialogs) /\ Len(dsUi) = Len(dsProcs)
  BY DEF ShellInv, ShellTypes
<1>4. /\ dsProcs' \in Seq(Shells) /\ Len(dsProcs') = n /\ n <= MaxProcs /\ dsUi' \in Seq(Dialogs) /\ Len(dsUi') = n
      /\ Procs' = Procs \cup {n} /\ n \notin Procs /\ dsProcs'[n].pc = "lock"
      /\ \A q \in Procs : dsProcs'[q] = dsProcs[q] /\ dsUi'[q] = dsUi[q]
  BY <1>1, <1>2, <1>3, ShellStarts DEF ShellInv, Procs
<1>5. Pc(n)' = "lock" /\ \A q \in Procs : Pc(q)' = Pc(q) /\ dsUi'[q] = dsUi[q]
  BY <1>4 DEF Pc
<1>6. ShellTypes'
  BY <1>1, <1>4 DEF ShellInv, ShellTypes
<1>7. JobsAreWatched'
  <2>1. /\ \A i \in dsJobs : /\ i.of \in Procs /\ Pc(i.of) = "up" /\ dsUi[i.of].busy = TRUE
                             /\ i.kind = "update" => i.target > 0
        /\ \A h, i \in dsJobs : h.of = i.of => h = i
    BY DEF ShellInv, JobsAreWatched, OneJob
  <2>2. \A i \in dsJobs' : i.of \in Procs' /\ Pc(i.of)' = "up" /\ dsUi'[i.of].busy = TRUE
                           /\ (i.kind = "update" => i.target > 0)
    BY <1>1, <1>4, <1>5, <2>1 DEF Pc
  <2> QED
    BY <1>1, <2>1, <2>2 DEF JobsAreWatched, OneJob
<1>8. LockIsOurs'
  <2> SUFFICES ASSUME dsKills = 0 PROVE LockIsOurs'
    BY <1>1 DEF LockIsOurs
  <2>1. "lock" \notin Named
    BY DEF Named
  <2>2. n \in Nat /\ n > 0 /\ n # BlankLock
    BY <1>2, <1>4, ShellNumbers, ShellAssumption DEF ShellInv, BlankLock
  <2>3. /\ dsLock \in {NoLock, BlankLock} \cup Procs
        /\ \A q \in Procs : /\ Pc(q) # "stale" /\ (Pc(q) = "created" => dsLock = BlankLock)
                            /\ (Pc(q) \in Named => dsLock = q)
        /\ \A q, r \in Procs : Pc(q) = "created" /\ Pc(r) = "created" => q = r
        /\ dsLock \in Procs => Pc(dsLock) \in Named
        /\ dsPort # 0 => dsPort \in Procs /\ Pc(dsPort) \in Named \ {"starting"}
    BY DEF ShellInv, LockIsOurs
  <2>4. /\ \A q \in Procs' : /\ Pc(q)' # "stale" /\ (Pc(q)' = "created" => dsLock = BlankLock)
                             /\ (Pc(q)' \in Named => dsLock = q)
        /\ \A q, r \in Procs' : Pc(q)' = "created" /\ Pc(r)' = "created" => q = r
    BY <1>4, <1>5, <2>1, <2>3 DEF Pc
  <2>5. dsLock # n
    BY <1>4, <2>2, <2>3 DEF NoLock
  <2>6. dsLock \in Procs => dsProcs'[dsLock].pc \in Named
    BY <1>4, <2>3 DEF Pc
  <2>7. dsPort # 0 => dsPort \in Procs /\ dsProcs'[dsPort].pc \in Named \ {"starting"}
    BY <1>4, <2>3 DEF Pc
  <2> QED
    BY <1>1, <1>4, <2>3, <2>4, <2>5, <2>6, <2>7 DEF LockIsOurs, Pc, NoLock, BlankLock
<1> QED
  BY <1>6, <1>7, <1>8 DEF ShellInv

\* Every step keeps what all this says.
LEMMA ShellNextKeeps == ShellInv /\ [ShellNext]_dsVars => ShellInv'
<1> SUFFICES ASSUME ShellInv, [ShellNext]_dsVars PROVE ShellInv'
  OBVIOUS
<1>1. CASE LaunchShell
  BY <1>1, LaunchWaits
<1>2. CASE ServerDies
  <2>1. ShellTypes' /\ JobsAreWatched'
    BY <1>2 DEF ServerDies, dsUpdate, ShellInv, ShellTypes, JobsAreWatched, OneJob, Procs, Pc
  <2>2. LockIsOurs'
    BY <1>2 DEF ServerDies, ShellInv, LockIsOurs, Procs, Pc, NoLock, BlankLock
  <2> QED
    BY <2>1, <2>2 DEF ShellInv
<1>3. ASSUME NEW p \in Procs,
             \/ CreateLock(p) \/ WritePid(p) \/ SeeStale(p) \/ RemoveStale(p) \/ GiveUpWaiting(p)
             \/ StartServer(p) \/ BackendAnswers(p) \/ TimedOut(p) \/ Close(p) \/ Release(p) \/ Kill(p)
             \/ ArmAutomatic(p) \/ StartInstall(p) \/ StartRollback(p)
      PROVE  ShellInv'
  BY <1>3, LockSteps, PageOpens, BackendSteps, ShellEnds, DialogActs
<1>4. ASSUME NEW j \in dsJobs,
             JobFails(j) \/ UpdateVerified(j) \/ RollbackVerified(j) \/ JobInstalled(j) \/ JobRelaunches(j)
      PROVE  ShellInv'
  BY <1>4, JobFailsWell, JobGoesOn, RelaunchHandsOver
<1>5. CASE UNCHANGED dsVars
  BY <1>5 DEF dsVars, ShellInv, ShellTypes, JobsAreWatched, OneJob, LockIsOurs, Procs, Pc, NoLock, BlankLock
<1> QED
  BY <1>1, <1>2, <1>3, <1>4, <1>5 DEF ShellNext

\* An update is confirmed by the process that holds the lock, whose backend it is.
LEMMA ConfirmsItself ==
    ASSUME ShellInv, [ShellNext]_dsVars, dsJournal.pending # 0, dsJournal'.pending = 0, dsKills = 0
    PROVE  dsPort \in Procs /\ dsProcs[dsPort].version = dsJournal.pending
<1>1. ASSUME NEW j \in dsJobs, UpdateVerified(j) PROVE FALSE
  BY <1>1 DEF UpdateVerified, JobVerified, ShellInv, ShellTypes, JobsAreWatched, Jobs
<1>2. \E p \in Procs : BackendAnswers(p)
  BY <1>1 DEF ShellNext, dsVars, dsUpdate, LaunchShell, ServerDies, CreateLock, WritePid, SeeStale, RemoveStale,
       GiveUpWaiting, StartServer, TimedOut, Close, Release, Kill, ArmAutomatic, StartInstall, StartRollback, StartJob,
       JobFails, RollbackVerified, JobInstalled, JobRelaunches
<1>3. PICK p \in Procs : BackendAnswers(p)
  BY <1>2
<1>4. Pc(p) = "waiting" /\ dsPort # 0 /\ Confirm(p)
  BY <1>3 DEF BackendAnswers
<1>5. dsPort = p
  <2>1. Pc(p) \in Named => dsLock = p
    BY DEF ShellInv, LockIsOurs
  <2>2. dsPort \in Procs /\ Pc(dsPort) \in Named /\ (Pc(dsPort) \in Named => dsLock = dsPort)
    BY <1>4 DEF ShellInv, LockIsOurs
  <2> QED
    BY <1>4, <2>1, <2>2 DEF Named
<1>6. dsJournal.pending = dsProcs[p].version
  BY <1>4 DEF Confirm, ShellInv, ShellTypes
<1> QED
  BY <1>5, <1>6

\* However shells are started, installed, rolled back and ended, and while none
\* is killed: one holds the lock, the backend on the port is its own, each runs
\* one install, and an update is taken for good by itself (lock.rs, update.rs).
THEOREM ShellAlwaysHandsOver == ShellSpec => ShellHandsOver
<1>1. ShellInit => ShellInv
  <2> SUFFICES ASSUME ShellInit PROVE ShellInv
    OBVIOUS
  <2>1. <<>> \in Seq(Shells) /\ <<>> \in Seq(Dialogs) /\ Len(<<>>) = 0 /\ DOMAIN <<>> = {}
    OBVIOUS
  <2> QED
    BY <2>1, ShellAssumption DEF ShellInit, ShellInv, ShellTypes, JobsAreWatched, OneJob, LockIsOurs, Procs, NoPending, NoLock
<1>2. ShellInv => OneAtATime /\ OneJob
  <2> SUFFICES ASSUME ShellInv PROVE OneAtATime /\ OneJob
    OBVIOUS
  <2>1. OneJob
    BY DEF ShellInv, JobsAreWatched
  <2>2. ASSUME dsKills = 0 PROVE NeverTwice /\ (dsPort # 0 => dsPort \in Owners)
    <3>1. NoLock \notin Procs /\ BlankLock \notin Procs
      BY ShellNumbers DEF ShellInv
    <3>2. \A p, q \in Owners : p = q
      BY <2>2, <3>1 DEF ShellInv, LockIsOurs, Owners, Named
    <3>3. Owners = {} \/ \E p : Owners = {p}
      BY <3>2
    <3>4. Cardinality(Owners) \in {0, 1}
      BY <3>3, FS_EmptySet, FS_Singleton
    <3>5. dsPort # 0 => dsPort \in Owners
      BY <2>2 DEF ShellInv, LockIsOurs, Owners, Named
    <3> QED
      BY <3>4, <3>5 DEF NeverTwice
  <2> QED
    BY <2>1, <2>2 DEF OneAtATime
<1>3. ShellInv /\ [ShellNext]_dsVars =>
        [dsJournal.pending # 0 /\ dsJournal'.pending = 0 /\ dsKills = 0
           => dsPort \in Procs /\ dsProcs[dsPort].version = dsJournal.pending]_dsVars
  BY ConfirmsItself
<1> QED
  BY <1>1, <1>2, <1>3, ShellNextKeeps, PTL DEF ShellSpec, ShellHandsOver, ConfirmedByItself

-----------------------------------------------------------------------------
(* The Body's ledger of actions: the file *)

\* Removing an entry yields a shorter file made of entries that were there.
LEMMA WithoutFacts ==
    ASSUME NEW l \in Seq(Entries), NEW a
    PROVE  /\ Without(l, a) \in Seq(Entries)
           /\ \A i \in DOMAIN Without(l, a) :
                \E j \in DOMAIN l : Without(l, a)[i] = l[j]
<1>1. CASE a \notin Ids(l)
  BY <1>1 DEF Without
<1>2. CASE a \in Ids(l)
  <2> DEFINE p == Index(l, a)
             front == SubSeq(l, 1, p - 1)
             back == SubSeq(l, p + 1, Len(l))
  <2>1. p \in 1..Len(l)
    BY <1>2 DEF Index, Ids
  <2>2. /\ front \in Seq(Entries) /\ Len(front) = p - 1
        /\ \A i \in 1..(p - 1) : front[i] = l[i]
    BY <2>1
  <2>3. /\ back \in Seq(Entries) /\ Len(back) = Len(l) - p
        /\ \A i \in 1..(Len(l) - p) : back[i] = l[p + i]
    BY <2>1
  <2>4. Without(l, a) = front \o back
    BY <1>2 DEF Without, RemoveAt
  <2> HIDE DEF p, front, back
  <2>5. front \o back \in Seq(Entries)
    BY <2>2, <2>3
  <2>6. ASSUME NEW i \in DOMAIN (front \o back)
        PROVE  \E j \in DOMAIN l : (front \o back)[i] = l[j]
    <3>1. /\ i \in 1..(Len(front) + Len(back))
          /\ (front \o back)[i] = IF i <= Len(front) THEN front[i] ELSE back[i - Len(front)]
      BY <2>2, <2>3, <2>6, ConcatProperties
    <3>2. CASE i <= Len(front)
      BY <2>1, <2>2, <3>1, <3>2
    <3>3. CASE ~(i <= Len(front))
      <4>1. i - Len(front) \in 1..(Len(l) - p) /\ p + (i - Len(front)) \in DOMAIN l
        BY <2>1, <2>2, <2>3, <3>1, <3>3
      <4> QED
        BY <2>3, <3>1, <3>3, <4>1
    <3> QED
      BY <3>2, <3>3
  <2> QED
    BY <2>4, <2>5, <2>6
<1> QED
  BY <1>1, <1>2

\* A write leaves a file made of the new entry and of old ones.
LEMMA WriteFacts ==
    ASSUME NEW l \in Seq(Entries), NEW e \in Entries
    PROVE  /\ Write(l, e) \in Seq(Entries)
           /\ \A i \in DOMAIN Write(l, e) :
                Write(l, e)[i] = e \/ \E j \in DOMAIN l : Write(l, e)[i] = l[j]
<1> DEFINE w == Without(l, e.id)
           f == Append(w, e)
<1>1. /\ w \in Seq(Entries)
      /\ \A i \in DOMAIN w : \E j \in DOMAIN l : w[i] = l[j]
  BY WithoutFacts
<1> HIDE DEF w
<1>2. /\ f \in Seq(Entries) /\ f # << >>
      /\ \A i \in DOMAIN f : f[i] = e \/ \E j \in DOMAIN l : f[i] = l[j]
  BY <1>1
<1>3. Write(l, e) = f \/ Write(l, e) = Tail(f)
  BY DEF Write, Trim, w
<1> HIDE DEF f
<1>4. /\ Tail(f) \in Seq(Entries)
      /\ \A i \in DOMAIN Tail(f) : Tail(f)[i] = f[i + 1] /\ i + 1 \in DOMAIN f
  BY <1>2
<1> QED
  BY <1>2, <1>3, <1>4

\* What a saved entry changes, and what the trim accounts for.
LEMMA SaveFacts ==
    ASSUME TypeOK, NEW e \in Entries, Save(e)
    PROVE  /\ ledger' \in Seq(Entries)
           /\ \A i \in DOMAIN ledger' :
                ledger'[i] = e \/ \E j \in DOMAIN ledger : ledger'[i] = ledger[j]
           /\ forgotten \subseteq forgotten'
           /\ forgotten' \subseteq Actions
           /\ \A a \in Ids(ledger) \cup {e.id} : a \in Ids(ledger') \/ a \in forgotten'
<1>1. ledger \in Seq(Entries) /\ forgotten \subseteq Actions /\ e.id \in Actions
  BY DEF TypeOK, Entries
<1>2. Ids(ledger) \subseteq Actions
  <2>1. \A i \in DOMAIN ledger : ledger[i] \in Entries
    BY <1>1
  <2> QED
    BY <2>1 DEF Ids, Entries
<1> QED
  BY <1>1, <1>2, WriteFacts DEF Save

-----------------------------------------------------------------------------
(* The parts of LedgerInv about the ledger and the outside world *)

\* What the induction needs besides the types and the prompts.
Core == Tracked /\ OneCall /\ EntryOpen /\ NotStarted /\ AtMostOnce /\ DeniedNeverRan

\* Calls may end or move on, but not back before the start of their tool nor
\* on from their verdict.
CallsAdvance ==
    \A c \in Calls :
      \/ call'[c] = Idle
      \/ /\ call[c] # Idle /\ call'[c].act = call[c].act
         /\ call'[c].phase \in BeforeStart => call[c].phase \in BeforeStart
         /\ call'[c].phase # "done" => call[c].phase # "done"

\* A step that leaves the ledger and the world alone keeps the core.
LEMMA AdvanceKeepsCore ==
    ASSUME Core, CallsAdvance, UNCHANGED <<ledger, ran, ranAgain, forgotten>>
    PROVE  Core'
<1> USE DEF Live, Guarded, Ids
<1>0. \A c \in Calls : \A a : Live(c, a)' => Live(c, a)
  BY DEF CallsAdvance
<1>1. Tracked'
  BY <1>0 DEF Core, Tracked
<1>2. OneCall'
  BY <1>0 DEF Core, OneCall
<1>3. EntryOpen'
  BY <1>0 DEF Core, EntryOpen, CallsAdvance
<1>4. NotStarted'
  BY <1>0 DEF Core, NotStarted, CallsAdvance
<1>5. AtMostOnce' /\ DeniedNeverRan'
  BY DEF Core, AtMostOnce, DeniedNeverRan
<1> QED
  BY <1>1, <1>2, <1>3, <1>4, <1>5 DEF Core

\* The tool of a call that had not started it starts now.
LEMMA StartKeepsCore ==
    ASSUME TypeOK, Core, NEW c \in Calls, NEW r,
           call[c].phase \in BeforeStart, StartTool(call[c].act),
           call' = [call EXCEPT ![c] = r],
           r.act = call[c].act, r.phase = "run",
           UNCHANGED <<ledger, forgotten>>
    PROVE  Core'
<1> DEFINE b == call[c].act
<1>1. /\ call[c] # Idle /\ b \in Actions /\ Live(c, b)
  BY DEF TypeOK, CallStates, Pending, Finished, Idle, BeforeStart, Live
<1>2. \A d \in Calls : \A a : Live(d, a)' => Live(d, a)
  BY <1>1 DEF TypeOK, Live
<1>3. Guarded(b) => b \notin ran
  BY <1>1 DEF Core, NotStarted
<1>4. ran' = ran \cup {b} /\ \A a \in ranAgain' : a \in ranAgain \/ (a = b /\ b \in ran)
  BY DEF StartTool
<1> HIDE DEF b
<1>5. Tracked'
  BY <1>1, <1>2, <1>4 DEF Core, Tracked, Guarded, Ids
<1>6. OneCall'
  BY <1>2 DEF Core, OneCall, Guarded
<1>7. EntryOpen'
  <2> SUFFICES ASSUME NEW a \in Actions, NEW d \in Calls,
                      Guarded(a), Live(d, a)', call'[d].phase # "done"
               PROVE  \A i \in DOMAIN ledger :
                        ledger[i].id = a => ledger[i].state = "received"
    BY DEF EntryOpen, Guarded
  <2>1. Live(d, a) /\ call[d].phase # "done"
    BY <1>1, <1>2 DEF TypeOK, BeforeStart
  <2> QED
    BY <2>1 DEF Core, EntryOpen
<1>8. NotStarted'
  <2> SUFFICES ASSUME NEW a \in Actions, NEW d \in Calls,
                      Guarded(a), Live(d, a)', call'[d].phase \in BeforeStart
               PROVE  a \notin ran'
    BY DEF NotStarted, Guarded
  <2>1. d # c /\ Live(d, a) /\ call[d].phase \in BeforeStart
    BY <1>2 DEF TypeOK, BeforeStart
  <2>2. a # b
    BY <1>1, <2>1 DEF Core, OneCall
  <2> QED
    BY <1>4, <2>1, <2>2 DEF Core, NotStarted
<1>9. AtMostOnce'
  BY <1>1, <1>3, <1>4 DEF Core, AtMostOnce, Guarded
<1>10. DeniedNeverRan'
  BY <1>1, <1>4 DEF Core, DeniedNeverRan, EntryOpen, Guarded, BeforeStart
<1> QED
  BY <1>5, <1>6, <1>7, <1>8, <1>9, <1>10 DEF Core

\* A call that has not finished writes its verdict.
LEMMA FinishKeepsCore ==
    ASSUME TypeOK, Core, NEW c \in Calls, NEW o \in Outcomes,
           call[c] # Idle, call[c].phase # "done",
           o = "denied" => call[c].phase = "denied",
           Save(Verdict(call[c].act, o)),
           call' = [call EXCEPT ![c] = Done(@, o)],
           UNCHANGED <<ran, ranAgain>>
    PROVE  Core'
<1> DEFINE b == call[c].act
           e == Verdict(b, o)
<1>1. b \in Actions /\ Live(c, b)
  BY DEF TypeOK, CallStates, Pending, Finished, Idle, Live
<1>2. e \in Entries /\ e.id = b /\ e.outcome = o
  BY <1>1 DEF Verdict, Entries
<1>3. /\ \A i \in DOMAIN ledger' :
           ledger'[i] = e \/ \E j \in DOMAIN ledger : ledger'[i] = ledger[j]
      /\ forgotten \subseteq forgotten'
      /\ \A a \in Ids(ledger) \cup {e.id} : a \in Ids(ledger') \/ a \in forgotten'
  BY <1>2, SaveFacts
<1>4. \A d \in Calls : \A a : Live(d, a)' => Live(d, a)
  BY <1>1 DEF TypeOK, Live, Done
<1>5. /\ call'[c].phase = "done"
      /\ \A d \in Calls : d # c => call'[d] = call[d]
  BY <1>1 DEF TypeOK, CallStates, Pending, Finished, Live, Done, Idle
<1>6. \A a : Guarded(a)' => Guarded(a)
  BY <1>3 DEF Guarded
<1> HIDE DEF b, e
<1>7. Tracked'
  BY <1>3, <1>4, <1>6 DEF Core, Tracked, Guarded
<1>8. OneCall'
  BY <1>4, <1>6 DEF Core, OneCall
<1>9. EntryOpen'
  <2> SUFFICES ASSUME NEW a \in Actions, NEW d \in Calls,
                      Guarded(a)', Live(d, a)', call'[d].phase # "done",
                      NEW i \in DOMAIN ledger', ledger'[i].id = a
               PROVE  ledger'[i].state = "received"
    BY DEF EntryOpen
  <2>1. d # c /\ Live(d, a) /\ Guarded(a) /\ call[d].phase # "done"
    BY <1>4, <1>5, <1>6
  <2>2. a # b
    BY <1>1, <2>1 DEF Core, OneCall
  <2> QED
    BY <1>2, <1>3, <2>1, <2>2 DEF Core, EntryOpen
<1>10. NotStarted'
  <2> SUFFICES ASSUME NEW a \in Actions, NEW d \in Calls,
                      Guarded(a)', Live(d, a)', call'[d].phase \in BeforeStart
               PROVE  a \notin ran
    BY DEF NotStarted
  <2>1. d # c /\ Live(d, a) /\ Guarded(a) /\ call[d].phase \in BeforeStart
    BY <1>4, <1>5, <1>6 DEF BeforeStart
  <2> QED
    BY <2>1 DEF Core, NotStarted
<1>11. AtMostOnce'
  BY <1>3 DEF Core, AtMostOnce
<1>12. DeniedNeverRan'
  <2> SUFFICES ASSUME NEW i \in DOMAIN ledger',
                      ledger'[i].state = "final", ledger'[i].outcome = "denied",
                      ledger'[i].id \notin Idempotent \cup forgotten'
               PROVE  ledger'[i].id \notin ran
    BY DEF DeniedNeverRan
  <2>1. CASE ledger'[i] = e
    <3>1. Guarded(b) /\ call[c].phase = "denied"
      BY <1>1, <1>2, <1>3, <2>1 DEF Guarded
    <3> QED
      BY <1>1, <1>2, <2>1, <3>1 DEF Core, NotStarted, BeforeStart
  <2>2. CASE \E j \in DOMAIN ledger : ledger'[i] = ledger[j]
    BY <1>3, <2>2 DEF Core, DeniedNeverRan
  <2> QED
    BY <1>3, <2>1, <2>2
<1> QED
  BY <1>7, <1>8, <1>9, <1>10, <1>11, <1>12 DEF Core

\* A request is accepted: marked on first sight, resumed if idempotent.
LEMMA AcceptKeepsCore ==
    ASSUME TypeOK, Core, NEW c \in Calls, NEW b \in Actions, Accept(c, b)
    PROVE  Core'
<1> DEFINE e == Received(b)
<1>1. e \in Entries /\ e.id = b /\ e.state = "received"
  BY DEF Received, Entries, Outcomes
<1>2. /\ call' = [call EXCEPT ![c] = Begin(b)]
      /\ UNCHANGED <<ran, ranAgain>>
      /\ \A d \in Calls : d # c => call'[d] = call[d]
      /\ call'[c] = Begin(b)
  BY DEF Accept, TypeOK
<1>3. /\ \A i \in DOMAIN ledger' :
           ledger'[i] = e \/ \E j \in DOMAIN ledger : ledger'[i] = ledger[j]
      /\ forgotten \subseteq forgotten'
      /\ \A a \in Ids(ledger) \cup {b} : a \in Ids(ledger') \/ a \in forgotten'
  <2>1. CASE Save(e)
    BY <1>1, <2>1, SaveFacts
  <2>2. CASE b \in Ids(ledger) /\ UNCHANGED <<ledger, forgotten>>
    BY <2>2
  <2> QED
    BY <2>1, <2>2 DEF Accept
<1>4. \A a : Guarded(a)' => Guarded(a)
  BY <1>3 DEF Guarded
<1>5. Guarded(b) => b \notin ran /\ \A d \in Calls : ~Live(d, b)
  <2>1. Guarded(b) => b \notin Ids(ledger)
    BY DEF Accept, Guarded
  <2> QED
    BY <2>1 DEF Core, Tracked
<1>6. \A d \in Calls : \A a : Live(d, a)' => (d = c /\ a = b) \/ (d # c /\ Live(d, a))
  BY <1>2 DEF Live, Begin, Idle
<1> HIDE DEF e
<1>7. Tracked'
  BY <1>2, <1>3, <1>4, <1>6 DEF Core, Tracked, Guarded
<1>8. OneCall'
  BY <1>4, <1>5, <1>6 DEF Core, OneCall
<1>9. EntryOpen'
  <2> SUFFICES ASSUME NEW a \in Actions, NEW d \in Calls,
                      Guarded(a)', Live(d, a)', call'[d].phase # "done",
                      NEW i \in DOMAIN ledger', ledger'[i].id = a
               PROVE  ledger'[i].state = "received"
    BY DEF EntryOpen
  <2>1. CASE a = b
    <3>1. Guarded(b) /\ b \notin Ids(ledger)
      BY <1>4, <2>1 DEF Accept, Guarded
    <3> QED
      BY <1>1, <1>3, <2>1, <3>1 DEF Ids
  <2>2. CASE a # b
    <3>1. d # c /\ Live(d, a) /\ call[d].phase # "done" /\ Guarded(a)
      BY <1>2, <1>4, <1>6, <2>2
    <3> QED
      BY <1>1, <1>3, <2>2, <3>1 DEF Core, EntryOpen
  <2> QED
    BY <2>1, <2>2
<1>10. NotStarted'
  BY <1>2, <1>4, <1>5, <1>6 DEF Core, NotStarted
<1>11. AtMostOnce'
  BY <1>2, <1>3 DEF Core, AtMostOnce
<1>12. DeniedNeverRan'
  BY <1>1, <1>2, <1>3 DEF Core, DeniedNeverRan
<1> QED
  BY <1>7, <1>8, <1>9, <1>10, <1>11, <1>12 DEF Core

-----------------------------------------------------------------------------
(* The induction *)

LEMMA InitInv == Init => LedgerInv
<1> SUFFICES ASSUME Init PROVE LedgerInv
  OBVIOUS
<1>1. TypeOK
  BY DEF Init, TypeOK, CallStates, Grants
<1>2. PromptsAreWaiting
  BY NoneAssumption DEF Init, PromptsAreWaiting
<1>3. Tracked /\ OneCall /\ EntryOpen /\ NotStarted
  BY DEF Init, Tracked, OneCall, EntryOpen, NotStarted, Live, Idle
<1>4. AtMostOnce /\ DeniedNeverRan
  BY DEF Init, AtMostOnce, DeniedNeverRan
<1> QED
  BY <1>1, <1>2, <1>3, <1>4 DEF LedgerInv

\* Every step of a call in progress keeps the types, the prompts and the core.
LEMMA CallStepInv ==
    ASSUME LedgerInv, NEW c \in Calls,
           CallStep(c) \/ ToolRetryable(c) \/ ConfirmationTimeout(c)
    PROVE  LedgerInv'
<1> DEFINE cl == call[c]
           b == cl.act
<1>0. TypeOK /\ Core /\ PromptsAreWaiting
  BY DEF LedgerInv, Core
<1>a. /\ call \in [Calls -> CallStates]
      /\ pending \in [Actions -> Calls \cup {None}]
      /\ grants \in [Keys -> Grants]
  BY <1>0 DEF TypeOK
<1>b. cl # Idle => b \in Actions
  BY <1>a DEF CallStates, Pending, Finished, Idle
<1>1. CASE PassGate(c)
  <2> DEFINE r == [cl EXCEPT !.phase = "run"]
  <2>1. /\ cl # Idle /\ cl.phase = "gate" /\ call' = [call EXCEPT ![c] = r]
        /\ StartTool(b) /\ UNCHANGED <<ledger, pending, grants, forgotten, answers>>
    BY <1>1 DEF PassGate, Idle
  <2>2. r \in CallStates /\ r.act = b /\ r.phase = "run"
    BY <1>a, <2>1 DEF CallStates, Pending, Finished, Waiting
  <2> HIDE DEF r
  <2>3. Core'
    <3>1. /\ call[c].phase \in BeforeStart /\ StartTool(call[c].act)
          /\ UNCHANGED <<ledger, forgotten>> /\ r.act = call[c].act
      BY <2>1, <2>2 DEF BeforeStart
    <3> HIDE DEF b, cl
    <3> QED
      BY <1>0, <2>1, <2>2, <3>1, StartKeepsCore
  <2>4. TypeOK'
    BY <1>0, <1>b, <2>1, <2>2 DEF StartTool, TypeOK
  <2>5. PromptsAreWaiting'
    BY <1>0, <1>a, <2>1 DEF PromptsAreWaiting
  <2> QED
    BY <2>3, <2>4, <2>5 DEF LedgerInv, Core
<1>2. CASE RequestConfirmation(c)
  <2>1. /\ cl # Idle /\ call' = [call EXCEPT ![c] = [cl EXCEPT !.phase = "confirm"]]
        /\ cl.phase = "gate" /\ pending' = [pending EXCEPT ![b] = c]
        /\ UNCHANGED <<ledger, grants, ran, ranAgain, forgotten, answers>>
    BY <1>2 DEF RequestConfirmation, Idle, worldVars
  <2>2. [cl EXCEPT !.phase = "confirm"] \in CallStates
    BY <1>a, <2>1 DEF CallStates, Pending, Finished, Waiting
  <2>3. CallsAdvance
    BY <1>a, <2>1 DEF CallsAdvance, BeforeStart, CallStates, Pending, Finished, Idle
  <2>4. TypeOK'
    BY <1>0, <1>b, <2>1, <2>2 DEF TypeOK
  <2>5. PromptsAreWaiting'
    BY <1>0, <1>a, <1>b, <2>1 DEF PromptsAreWaiting, CallStates, Pending, Finished, Idle
  <2> QED
    BY <1>0, <2>1, <2>3, <2>4, <2>5, AdvanceKeepsCore DEF LedgerInv, Core
<1>3. CASE RecordDenial(c)
  <2>1. cl # Idle /\ cl.phase = "denied" /\ call' = [call EXCEPT ![c] = Done(cl, "denied")]
    BY <1>3 DEF RecordDenial, Idle
  <2>2. Done(cl, "denied") \in CallStates
    BY <1>a, <2>1 DEF CallStates, Pending, Finished, Running, Outcomes, Done
  <2>3. Verdict(b, "denied") \in Entries
    BY <1>b, <2>1 DEF Verdict, Entries, Outcomes
  <2>4. Core'
    BY <1>0, <1>3, <2>1, FinishKeepsCore DEF RecordDenial, Outcomes
  <2>5. ledger' \in Seq(Entries) /\ forgotten' \subseteq Actions
    BY <1>0, <1>3, <2>3, SaveFacts DEF RecordDenial
  <2>6. TypeOK'
    BY <1>0, <1>3, <2>1, <2>2, <2>5 DEF RecordDenial, TypeOK
  <2>7. PromptsAreWaiting'
    BY <1>0, <1>3, <1>a, <2>1 DEF RecordDenial, PromptsAreWaiting
  <2> QED
    BY <2>4, <2>6, <2>7 DEF LedgerInv, Core
<1>4. CASE RunApproved(c)
  <2> DEFINE r == [cl EXCEPT !.phase = "run", !.reply = "none"]
  <2>1. /\ cl # Idle /\ cl.phase = "approved" /\ call' = [call EXCEPT ![c] = r]
        /\ StartTool(b) /\ UNCHANGED <<ledger, pending, forgotten, answers>>
        /\ Remember(b, cl.reply)
    BY <1>4 DEF RunApproved, Idle
  <2>2. r \in CallStates /\ r.act = b /\ r.phase = "run"
    BY <1>a, <2>1 DEF CallStates, Pending, Finished, Waiting
  <2>3. grants' \in [Keys -> Grants]
    <3>1. \A g \in Grants, k \in Keys : [grants EXCEPT ![k] = g] \in [Keys -> Grants]
      BY <1>a
    <3>2. /\ [scope |-> "ALLOW_SESSION"] \in Grants
          /\ [scope |-> "ALLOW_TASK", task |-> TaskOf[b]] \in Grants
          /\ KeyOf[b] \in Keys
      BY <1>b, <2>1, ActionAssumption DEF Grants
    <3> QED
      BY <1>a, <2>1, <3>1, <3>2 DEF Remember
  <2> HIDE DEF r
  <2>4. Core'
    <3>1. /\ call[c].phase \in BeforeStart /\ StartTool(call[c].act)
          /\ UNCHANGED <<ledger, forgotten>> /\ r.act = call[c].act
      BY <2>1, <2>2 DEF BeforeStart
    <3> HIDE DEF b, cl
    <3> QED
      BY <1>0, <2>1, <2>2, <3>1, StartKeepsCore
  <2>5. TypeOK'
    BY <1>0, <1>b, <2>1, <2>2, <2>3 DEF StartTool, TypeOK
  <2>6. PromptsAreWaiting'
    BY <1>0, <1>a, <2>1 DEF PromptsAreWaiting
  <2> QED
    BY <2>4, <2>5, <2>6 DEF LedgerInv, Core
<1>5. CASE RetryTool(c) \/ ToolRetryable(c) \/ ConfirmationTimeout(c)
  <2>1. PICK p \in {"run", "backoff", "denied"}, n \in 0..MaxRetries :
          /\ cl # Idle /\ call' = [call EXCEPT ![c] = [cl EXCEPT !.phase = p, !.tries = n]]
          /\ p = "denied" => cl.phase = "confirm"
          /\ cl.phase # "done"
    <3>1. cl # Idle /\ cl.phase \in {"run", "backoff", "confirm"} /\ cl.tries \in 0..MaxRetries
      BY <1>5, <1>a DEF RetryTool, ToolRetryable, ConfirmationTimeout, Idle, CallStates, Pending, Finished
    <3>2. CASE RetryTool(c)
      <4>1. [cl EXCEPT !.phase = "run"] = [cl EXCEPT !.phase = "run", !.tries = cl.tries]
        BY <1>a, <3>1 DEF CallStates, Pending, Finished
      <4> QED
        BY <3>1, <3>2, <4>1 DEF RetryTool
    <3>3. CASE ToolRetryable(c)
      <4>1. cl.tries + 1 \in 0..MaxRetries
        BY <3>1, <3>3, RetriesAssumption DEF ToolRetryable
      <4> QED
        BY <3>1, <3>3, <4>1 DEF ToolRetryable
    <3>4. CASE ConfirmationTimeout(c)
      <4>1. Denied(cl) = [cl EXCEPT !.phase = "denied", !.tries = cl.tries]
        BY <1>a, <3>1 DEF CallStates, Pending, Finished, Denied
      <4> QED
        BY <3>1, <3>4, <4>1 DEF ConfirmationTimeout
    <3> QED
      BY <1>5, <3>2, <3>3, <3>4
  <2>2. [cl EXCEPT !.phase = p, !.tries = n] \in CallStates
    BY <1>a, <2>1 DEF CallStates, Pending, Finished, Waiting, Running
  <2>3. UNCHANGED <<ledger, grants, ran, ranAgain, forgotten, answers>>
    BY <1>5 DEF RetryTool, ToolRetryable, ConfirmationTimeout, worldVars
  <2>4. CallsAdvance
    BY <1>a, <2>1 DEF CallsAdvance, BeforeStart, CallStates, Pending, Finished, Idle
  <2>5. /\ pending' \in [Actions -> Calls \cup {None}]
        /\ \A a \in Actions : pending'[a] # None => pending'[a] = pending[a]
        /\ cl.phase = "confirm" => pending'[b] = None
    BY <1>5, <1>a, <1>b, <2>1 DEF RetryTool, ToolRetryable, ConfirmationTimeout
  <2>6. TypeOK'
    BY <1>0, <2>1, <2>2, <2>3, <2>5 DEF TypeOK
  <2>7. PromptsAreWaiting'
    BY <1>0, <1>a, <2>1, <2>5 DEF PromptsAreWaiting
  <2> QED
    BY <1>0, <2>3, <2>4, <2>6, <2>7, AdvanceKeepsCore DEF LedgerInv, Core
<1>6. ASSUME NEW o \in {"allowed", "rejected"}, ToolReturns(c, o)
      PROVE  LedgerInv'
  <2>1. /\ cl # Idle /\ cl.phase = "run" /\ call' = [call EXCEPT ![c] = Done(cl, o)]
        /\ o \in Outcomes /\ o # "denied"
    BY <1>6 DEF ToolReturns, Idle, Outcomes
  <2>2. Done(cl, o) \in CallStates
    BY <1>a, <2>1 DEF CallStates, Pending, Finished, Running, Done
  <2>3. Verdict(b, o) \in Entries
    BY <1>b, <2>1 DEF Verdict, Entries
  <2>4. Core'
    BY <1>0, <1>6, <2>1, FinishKeepsCore DEF ToolReturns
  <2>5. ledger' \in Seq(Entries) /\ forgotten' \subseteq Actions
    BY <1>0, <1>6, <2>3, SaveFacts DEF ToolReturns
  <2>6. TypeOK'
    BY <1>0, <1>6, <2>1, <2>2, <2>5 DEF ToolReturns, TypeOK
  <2>7. PromptsAreWaiting'
    BY <1>0, <1>6, <1>a, <2>1 DEF ToolReturns, PromptsAreWaiting
  <2> QED
    BY <2>4, <2>6, <2>7 DEF LedgerInv, Core
<1>7. CASE SendResult(c)
  <2>1. /\ cl # Idle /\ cl.phase = "done" /\ call' = [call EXCEPT ![c] = Idle]
        /\ answers' = [answers EXCEPT ![b] = @ \cup {cl.reply}]
        /\ UNCHANGED <<ledger, pending, grants, ran, ranAgain, forgotten>>
    BY <1>7 DEF SendResult, Answer, Idle
  <2>2. CallsAdvance
    BY <1>a, <2>1 DEF CallsAdvance
  <2>3. cl.reply \in Verdicts
    BY <1>a, <2>1 DEF CallStates, Pending, Finished, Idle, Verdicts
  <2>4. TypeOK'
    BY <1>0, <1>b, <2>1, <2>3 DEF TypeOK, CallStates
  <2>5. PromptsAreWaiting'
    BY <1>0, <1>a, <2>1 DEF PromptsAreWaiting
  <2> QED
    BY <1>0, <2>1, <2>2, <2>4, <2>5, AdvanceKeepsCore DEF LedgerInv, Core
<1> QED
  BY <1>1, <1>2, <1>3, <1>4, <1>5, <1>6, <1>7 DEF CallStep

\* Every answer given at once, every verdict of the user and every loss of the
\* process keeps them too.
LEMMA EventInv ==
    ASSUME LedgerInv,
           \/ \E a \in Actions : TaskAction(a)
           \/ User \/ Crash
           \/ \E t \in Tasks : EndTask(t)
    PROVE  LedgerInv'
<1>0. TypeOK /\ Core /\ PromptsAreWaiting
  BY DEF LedgerInv, Core
<1>a. /\ call \in [Calls -> CallStates]
      /\ pending \in [Actions -> Calls \cup {None}]
      /\ grants \in [Keys -> Grants]
      /\ answers \in [Actions -> SUBSET Verdicts]
  BY <1>0 DEF TypeOK
<1>1. ASSUME NEW a \in Actions, NEW v \in Verdicts, Answer(a, v),
             UNCHANGED <<ledger, bodyVars, ran, ranAgain, forgotten>>
      PROVE  LedgerInv'
  <2>1. UNCHANGED <<ledger, call, pending, grants, ran, ranAgain, forgotten>>
    BY <1>1 DEF bodyVars
  <2>2. CallsAdvance
    BY <2>1 DEF CallsAdvance
  <2>3. answers' \in [Actions -> SUBSET Verdicts]
    BY <1>1, <1>a DEF Answer
  <2>4. TypeOK' /\ PromptsAreWaiting'
    BY <1>0, <2>1, <2>3 DEF TypeOK, PromptsAreWaiting
  <2> QED
    BY <1>0, <2>1, <2>2, <2>4, AdvanceKeepsCore DEF LedgerInv, Core
<1>2. ASSUME NEW a \in Actions, RejectUnsupported(a) \/ RefuseReplay(a) PROVE LedgerInv'
  BY <1>1, <1>2 DEF RejectUnsupported, RefuseReplay, Verdicts
<1>3. ASSUME NEW a \in Actions, Replay(a) PROVE LedgerInv'
  <2>1. Index(ledger, a) \in DOMAIN ledger
    BY <1>3 DEF Replay, Final, Ids, Index
  <2>2. Entry(ledger, a) \in Entries
    BY <1>0, <2>1 DEF Entry, TypeOK
  <2> QED
    BY <1>1, <1>3, <2>2 DEF Replay, Entries, Verdicts
<1>4. ASSUME NEW a \in Actions, NEW c \in Calls, Accept(c, a) PROVE LedgerInv'
  <2>1. Core'
    BY <1>0, <1>4, AcceptKeepsCore
  <2>2. /\ call' = [call EXCEPT ![c] = Begin(a)] /\ call[c] = Idle
        /\ UNCHANGED <<pending, grants, ran, ranAgain, answers>>
    BY <1>4 DEF Accept
  <2>3. Begin(a) \in CallStates
    BY RetriesAssumption DEF Begin, CallStates, Pending, Running
  <2>4. ledger' \in Seq(Entries) /\ forgotten' \subseteq Actions
    <3>1. CASE Save(Received(a))
      <4>1. Received(a) \in Entries
        BY DEF Received, Entries, Outcomes
      <4> QED
        BY <1>0, <3>1, <4>1, SaveFacts
    <3>2. CASE UNCHANGED <<ledger, forgotten>>
      BY <1>0, <3>2 DEF TypeOK
    <3> QED
      BY <1>4, <3>1, <3>2 DEF Accept
  <2>5. TypeOK'
    BY <1>0, <2>2, <2>3, <2>4 DEF TypeOK
  <2>6. PromptsAreWaiting'
    BY <1>0, <1>a, <2>2 DEF PromptsAreWaiting, Idle
  <2> QED
    BY <2>1, <2>5, <2>6 DEF LedgerInv, Core
<1>5. ASSUME NEW a \in Actions, NEW ok \in BOOLEAN, NEW sc \in Scopes, Respond(a, ok, sc)
      PROVE  LedgerInv'
  <2> DEFINE c == pending[a]
             r == IF ok THEN Approved(call[c], sc) ELSE Denied(call[c])
  <2>1. /\ c \in Calls /\ call[c].phase = "confirm" /\ call[c].act = a
        /\ call' = [call EXCEPT ![c] = r] /\ pending' = [pending EXCEPT ![a] = None]
        /\ UNCHANGED <<ledger, grants, ran, ranAgain, forgotten, answers>>
    BY <1>0, <1>5, <1>a DEF Respond, PromptsAreWaiting, worldVars
  <2>2. /\ r \in CallStates /\ r.act = a /\ call[c] # Idle
        /\ r.phase \in {"approved", "denied"}
    <3>1. call[c] \in Pending
      BY <1>a, <2>1 DEF CallStates, Finished, Idle
    <3> DEFINE s == call[c]
    <3> HIDE DEF s
    <3>2. ASSUME s \in Pending
          PROVE  /\ Approved(s, sc) \in Pending /\ Approved(s, sc).act = s.act
                 /\ Approved(s, sc).phase = "approved"
                 /\ Denied(s) \in Pending /\ Denied(s).act = s.act
                 /\ Denied(s).phase = "denied"
      BY <3>2 DEF Approved, Denied, Pending, Running
    <3> QED
      BY <2>1, <3>1, <3>2 DEF s, CallStates, Idle
  <2> HIDE DEF c, r
  <2>3. CallsAdvance
    BY <1>a, <2>1, <2>2 DEF CallsAdvance, BeforeStart
  <2>4. TypeOK'
    BY <1>0, <2>1, <2>2 DEF TypeOK
  <2>5. PromptsAreWaiting'
    BY <1>0, <1>a, <2>1 DEF PromptsAreWaiting
  <2> QED
    BY <1>0, <2>1, <2>3, <2>4, <2>5, AdvanceKeepsCore DEF LedgerInv, Core
<1>6. ASSUME DenyPending, grants' \in [Keys -> Grants], UNCHANGED <<ledger, worldVars>>
      PROVE  LedgerInv'
  <2>1. UNCHANGED <<ledger, ran, ranAgain, forgotten, answers>>
    BY <1>6 DEF worldVars
  <2>2. ASSUME NEW c \in Calls
        PROVE  \/ call'[c] = call[c]
               \/ /\ call'[c] = Denied(call[c]) /\ call[c].phase = "confirm"
                  /\ call[c] \in Pending
    <3>1. CASE \E a \in Actions : pending[a] = c
      <4>1. call[c].phase = "confirm"
        BY <1>0, <3>1, NoneAssumption DEF PromptsAreWaiting
      <4>2. call[c] \in Pending
        BY <1>a, <4>1 DEF CallStates, Idle, Finished
      <4> QED
        BY <1>6, <3>1, <4>1, <4>2 DEF DenyPending
    <3>2. CASE ~ \E a \in Actions : pending[a] = c
      BY <1>6, <3>2 DEF DenyPending
    <3> QED
      BY <3>1, <3>2
  <2>3. ASSUME NEW s \in Pending
        PROVE  Denied(s) \in CallStates /\ Denied(s).act = s.act /\ Denied(s).phase = "denied"
    BY DEF Denied, Pending, CallStates, Running
  <2>4. CallsAdvance
    BY <1>a, <2>2, <2>3 DEF CallsAdvance, BeforeStart, Idle
  <2>5. call' \in [Calls -> CallStates]
    <3>1. call' = [c \in Calls |-> call'[c]]
      BY <1>6 DEF DenyPending
    <3>2. \A c \in Calls : call'[c] \in CallStates
      BY <1>a, <2>2, <2>3
    <3> QED
      BY <3>1, <3>2
  <2>6. pending' = [a \in Actions |-> None]
    BY <1>6 DEF DenyPending
  <2>7. TypeOK' /\ PromptsAreWaiting'
    BY <1>0, <1>6, <2>1, <2>5, <2>6 DEF TypeOK, PromptsAreWaiting
  <2> QED
    BY <1>0, <2>1, <2>4, <2>7, AdvanceKeepsCore DEF LedgerInv, Core
<1>7. CASE DropTask \/ ClearHistory
  <2>1. [k \in Keys |-> NoGrant] \in [Keys -> Grants]
    BY DEF Grants
  <2> QED
    BY <1>6, <1>7, <1>a, <2>1 DEF DropTask, ClearHistory
<1>8. CASE Crash
  <2>1. /\ call' = [c \in Calls |-> Idle] /\ pending' = [a \in Actions |-> None]
        /\ grants' = [k \in Keys |-> NoGrant]
        /\ UNCHANGED <<ledger, ran, ranAgain, forgotten, answers>>
    BY <1>8 DEF Crash, worldVars
  <2>2. CallsAdvance
    BY <2>1 DEF CallsAdvance
  <2>3. TypeOK' /\ PromptsAreWaiting'
    BY <1>0, <2>1 DEF TypeOK, PromptsAreWaiting, CallStates, Grants
  <2> QED
    BY <1>0, <2>1, <2>2, <2>3, AdvanceKeepsCore DEF LedgerInv, Core
<1>9. ASSUME NEW t \in Tasks, EndTask(t) PROVE LedgerInv'
  <2>1. UNCHANGED <<ledger, call, pending, ran, ranAgain, forgotten, answers>>
    BY <1>9 DEF EndTask
  <2>2. grants' \in [Keys -> Grants]
    BY <1>0, <1>9, <1>a DEF EndTask, Grants, TypeOK
  <2>3. CallsAdvance
    BY <2>1 DEF CallsAdvance
  <2>4. TypeOK' /\ PromptsAreWaiting'
    BY <1>0, <2>1, <2>2 DEF TypeOK, PromptsAreWaiting
  <2> QED
    BY <1>0, <2>1, <2>3, <2>4, AdvanceKeepsCore DEF LedgerInv, Core
<1> QED
  BY <1>2, <1>3, <1>4, <1>5, <1>7, <1>8, <1>9 DEF TaskAction, User

LEMMA StutterInv == ASSUME LedgerInv, UNCHANGED vars PROVE LedgerInv'
BY DEF LedgerInv, vars, TypeOK, PromptsAreWaiting, Tracked, OneCall, EntryOpen,
       NotStarted, AtMostOnce, DeniedNeverRan, Live, Guarded, Ids

-----------------------------------------------------------------------------
(* The theorems *)

\* The bookkeeping of evaluateAndExecute is inductive: the ledger accounts for
\* every action that must not be repeated, in every reachable state.
THEOREM LedgerInvariant == Spec => []LedgerInv
<1>1. LedgerInv /\ [Next]_vars => LedgerInv'
  BY CallStepInv, EventInv, StutterInv DEF Next
<1> QED
  BY InitInv, <1>1, PTL DEF Spec

\* Every variable keeps its type, whatever is resent and wherever it crashes.
THEOREM TypeCorrect == Spec => []TypeOK
BY LedgerInvariant, PTL DEF LedgerInv

\* A non-idempotent action whose ledger entry was not trimmed is started by at
\* most one call, over any number of resends, crashes and restarts.
THEOREM AtMostOnceAlways == Spec => []AtMostOnce
BY LedgerInvariant, PTL DEF LedgerInv

\* An action the ledger records as denied by the user never ran.
THEOREM DeniedNeverRanAlways == Spec => []DeniedNeverRan
BY LedgerInvariant, PTL DEF LedgerInv

\* Every prompt the user can still answer belongs to a call waiting for it.
THEOREM PromptsAlwaysWaiting == Spec => []PromptsAreWaiting
BY LedgerInvariant, PTL DEF LedgerInv
-----------------------------------------------------------------------------
(* What the Brain is told *)

\* The file has at most one entry of an action.
Unique(l) == \A i, j \in DOMAIN l : l[i].id = l[j].id => i = j

\* For an action that must not be repeated and was not trimmed: every verdict
\* given stands in the ledger, and so does the one about to be given.
AnswersStand ==
    \A a \in Actions : Guarded(a) =>
      \A o \in answers[a] \cap Outcomes :
        \E i \in DOMAIN ledger : ledger[i] = Verdict(a, o)
ReplyStands ==
    \A a \in Actions, c \in Calls :
      Guarded(a) /\ Live(c, a) /\ call[c].phase = "done" =>
        \A i \in DOMAIN ledger :
          ledger[i].id = a => ledger[i] = Verdict(a, call[c].reply)

\* For every action: a tool in progress has started, and "allowed" is said, about
\* to be said or kept only of a tool that has.
ToolStarted ==
    \A c \in Calls :
      \/ call[c].phase \in {"run", "backoff"}
      \/ call[c].phase = "done" /\ call[c].reply = "allowed"
      => call[c].act \in ran
AllowedStarted ==
    \A i \in DOMAIN ledger :
      ledger[i].state = "final" /\ ledger[i].outcome = "allowed" => ledger[i].id \in ran

\* The inductive invariant behind AnswersAreTrue, beside LedgerInv.
StoryInv ==
    Unique(ledger) /\ AnswersStand /\ ReplyStands /\ ToolStarted /\ AllowedStarted /\ AllowedRan

\* Removing the entry of an action leaves none of it, and no repetition.
LEMMA WithoutIsUnique ==
    ASSUME NEW l \in Seq(Entries), NEW a, Unique(l)
    PROVE  /\ Unique(Without(l, a))
           /\ \A i \in DOMAIN Without(l, a) : Without(l, a)[i].id # a
           /\ \A j \in DOMAIN l : l[j].id # a => \E i \in DOMAIN Without(l, a) : Without(l, a)[i] = l[j]
<1>1. CASE a \notin Ids(l)
  BY <1>1 DEF Without, Ids
<1>2. CASE a \in Ids(l)
  <2> DEFINE p == Index(l, a)
             front == SubSeq(l, 1, p - 1)
             back == SubSeq(l, p + 1, Len(l))
             w == front \o back
  <2>1. p \in 1..Len(l) /\ l[p].id = a
    BY <1>2 DEF Index, Ids
  <2>2. /\ front \in Seq(Entries) /\ Len(front) = p - 1
        /\ \A i \in 1..(p - 1) : front[i] = l[i]
    BY <2>1
  <2>3. /\ back \in Seq(Entries) /\ Len(back) = Len(l) - p
        /\ \A i \in 1..(Len(l) - p) : back[i] = l[p + i]
    BY <2>1
  <2>4. Without(l, a) = w
    BY <1>2 DEF Without, RemoveAt
  <2> HIDE DEF p, front, back
  <2>5. w \in Seq(Entries) /\ Len(w) = Len(l) - 1
    <3>1. w \in Seq(Entries) /\ Len(w) = Len(front) + Len(back)
      BY <2>2, <2>3, ConcatProperties
    <3> HIDE DEF w
    <3> QED
      BY <2>1, <2>2, <2>3, <3>1
  <2>6. ASSUME NEW i \in 1..(Len(l) - 1)
        PROVE  w[i] = IF i < p THEN l[i] ELSE l[i + 1]
    <3>1. i \in 1..(Len(front) + Len(back))
      BY <2>1, <2>2, <2>3
    <3>2. w[i] = IF i <= Len(front) THEN front[i] ELSE back[i - Len(front)]
      BY <2>2, <2>3, <3>1, ConcatProperties
    <3>3. CASE i < p
      BY <2>1, <2>2, <3>2, <3>3
    <3>4. CASE ~(i < p)
      <4>1. /\ ~(i <= Len(front)) /\ i - Len(front) \in 1..(Len(l) - p)
            /\ p + (i - Len(front)) = i + 1
        BY <2>1, <2>2, <3>4
      <4> QED
        BY <2>3, <3>2, <3>4, <4>1
    <3> QED
      BY <3>3, <3>4
  <2> HIDE DEF w
  <2>7. DOMAIN w = 1..(Len(l) - 1) /\ DOMAIN l = 1..Len(l)
    BY <2>5
  <2>8. Unique(w)
    <3> SUFFICES ASSUME NEW i \in DOMAIN w, NEW j \in DOMAIN w, w[i].id = w[j].id
                 PROVE  i = j
      BY DEF Unique
    <3> DEFINE at(k) == IF k < p THEN k ELSE k + 1
    <3>1. at(i) \in 1..Len(l) /\ at(j) \in 1..Len(l) /\ w[i] = l[at(i)] /\ w[j] = l[at(j)]
      BY <2>1, <2>6, <2>7
    <3>2. at(i) = at(j)
      BY <2>7, <3>1 DEF Unique
    <3> QED
      BY <2>1, <2>7, <3>2
  <2>9. ASSUME NEW i \in DOMAIN w PROVE w[i].id # a
    <3>1. CASE i < p
      <4>1. i \in DOMAIN l /\ i # p /\ w[i] = l[i]
        BY <2>1, <2>6, <2>7, <3>1
      <4> QED
        BY <2>1, <2>7, <4>1 DEF Unique
    <3>2. CASE ~(i < p)
      <4>1. i + 1 \in DOMAIN l /\ i + 1 # p /\ w[i] = l[i + 1]
        BY <2>1, <2>6, <2>7, <3>2
      <4> QED
        BY <2>1, <2>7, <4>1 DEF Unique
    <3> QED
      BY <3>1, <3>2
  <2>10. ASSUME NEW j \in DOMAIN l, l[j].id # a
         PROVE  \E i \in DOMAIN w : w[i] = l[j]
    <3>1. j # p /\ j \in 1..Len(l)
      BY <2>1, <2>7, <2>10
    <3>2. CASE j < p
      <4>1. j \in DOMAIN w /\ w[j] = l[j]
        BY <2>1, <2>6, <2>7, <3>1, <3>2
      <4> QED
        BY <4>1
    <3>3. CASE j > p
      <4>1. j - 1 \in DOMAIN w /\ ~(j - 1 < p) /\ (j - 1) + 1 = j
        BY <2>1, <2>7, <3>1, <3>3
      <4>2. w[j - 1] = l[j]
        BY <2>6, <2>7, <4>1
      <4> QED
        BY <4>1, <4>2
    <3> QED
      BY <2>1, <3>1, <3>2, <3>3
  <2> QED
    BY <2>4, <2>8, <2>9, <2>10
<1> QED
  BY <1>1, <1>2

\* A save keeps the file free of repetitions, is the action's only entry, and
\* drops another one only by the trim, which is accounted for.
LEMMA SaveIsUnique ==
    ASSUME TypeOK, Unique(ledger), NEW e \in Entries, Save(e)
    PROVE  /\ Unique(ledger')
           /\ \A i \in DOMAIN ledger' : ledger'[i].id = e.id => ledger'[i] = e
           /\ e.id \in Ids(ledger') \cup forgotten'
           /\ \A j \in DOMAIN ledger : ledger[j].id # e.id /\ ledger[j].id \notin forgotten'
                => \E i \in DOMAIN ledger' : ledger'[i] = ledger[j]
<1> DEFINE w == Without(ledger, e.id)
           f == Append(w, e)
<1>0. ledger \in Seq(Entries)
  BY DEF TypeOK
<1>1. /\ w \in Seq(Entries) /\ Unique(w)
      /\ \A i \in DOMAIN w : w[i].id # e.id
      /\ \A j \in DOMAIN ledger : ledger[j].id # e.id => \E i \in DOMAIN w : w[i] = ledger[j]
  BY <1>0, WithoutFacts, WithoutIsUnique
<1>2. ledger' = f \/ ledger' = Tail(f)
  BY DEF Save, Write, Trim
<1> HIDE DEF w
<1>3. /\ f \in Seq(Entries) /\ Len(f) = Len(w) + 1 /\ f[Len(w) + 1] = e
      /\ \A i \in 1..Len(w) : f[i] = w[i]
  BY <1>1
<1> HIDE DEF f
<1>4. Unique(f) /\ \A i \in DOMAIN f : f[i].id = e.id => f[i] = e
  BY <1>1, <1>3 DEF Unique
<1>5. Unique(ledger') /\ \A i \in DOMAIN ledger' : ledger'[i].id = e.id => ledger'[i] = e
  <2>1. CASE ledger' = f
    BY <1>4, <2>1
  <2>2. CASE ledger' = Tail(f)
    <3>1. /\ \A i \in DOMAIN ledger' : i \in Nat /\ ledger'[i] = f[i + 1] /\ i + 1 \in DOMAIN f
      BY <1>3, <2>2
    <3>2. Unique(ledger')
      <4> SUFFICES ASSUME NEW i \in DOMAIN ledger', NEW j \in DOMAIN ledger',
                          ledger'[i].id = ledger'[j].id
                   PROVE  i = j
        BY DEF Unique
      <4>1. i + 1 = j + 1
        BY <1>4, <3>1 DEF Unique
      <4> QED
        BY <3>1, <4>1
    <3> QED
      BY <1>4, <3>1, <3>2
  <2> QED
    BY <1>2, <2>1, <2>2
<1>6. e.id \in Ids(ledger') \cup forgotten'
  BY DEF Save
<1>7. ASSUME NEW j \in DOMAIN ledger, ledger[j].id # e.id, ledger[j].id \notin forgotten'
      PROVE  \E i \in DOMAIN ledger' : ledger'[i] = ledger[j]
  <2>1. ledger[j].id \in Ids(ledger')
    BY <1>7 DEF Save, Ids
  <2>2. PICK i \in DOMAIN ledger' : ledger'[i].id = ledger[j].id
    BY <2>1 DEF Ids
  <2>3. ledger'[i] # e
    BY <1>7, <2>2
  <2>4. \E k \in DOMAIN ledger : ledger'[i] = ledger[k]
    BY <1>0, <2>3, SaveFacts
  <2> QED
    BY <2>2, <2>4 DEF Unique
<1> QED
  BY <1>5, <1>6, <1>7

\* A step that leaves file and answers alone keeps what was said; so does the
\* start of a tool.
LEMMA GoingOnKeepsStory ==
    ASSUME StoryInv, UNCHANGED <<ledger, forgotten, answers>>, ran \subseteq ran',
           \A c \in Calls :
             \/ call'[c] = Idle
             \/ /\ call'[c].phase = "done" => call'[c] = call[c]
                /\ call'[c].phase \in {"run", "backoff"} =>
                     \/ call[c].phase \in {"run", "backoff"} /\ call'[c].act = call[c].act
                     \/ call'[c].act \in ran'
    PROVE  StoryInv'
<1>1. Unique(ledger)' /\ AllowedRan' /\ AllowedStarted'
  BY DEF StoryInv, Unique, AllowedRan, AllowedStarted
<1>2. AnswersStand'
  BY DEF StoryInv, AnswersStand, Guarded
<1>3. ReplyStands'
  BY DEF StoryInv, ReplyStands, Guarded, Live, Idle
<1>4. ToolStarted'
  BY DEF StoryInv, ToolStarted, Idle
<1> QED
  BY <1>1, <1>2, <1>3, <1>4 DEF StoryInv

\* With one entry per action, looking an action up finds it.
LEMMA LookUp ==
    ASSUME NEW l \in Seq(Entries), Unique(l), NEW i \in DOMAIN l
    PROVE  Entry(l, l[i].id) = l[i] /\ (Final(l, l[i].id) <=> l[i].state = "final")
<1>1. Index(l, l[i].id) \in DOMAIN l /\ l[Index(l, l[i].id)].id = l[i].id
  BY DEF Index
<1>2. Index(l, l[i].id) = i
  BY <1>1 DEF Unique
<1>3. l[i].id \in Ids(l)
  BY DEF Ids
<1> QED
  BY <1>2, <1>3 DEF Entry, Final

\* A final entry with an outcome is that verdict.
LEMMA FinalIsVerdict ==
    ASSUME NEW l \in Seq(Entries), NEW i \in DOMAIN l, l[i].state = "final"
    PROVE  l[i] = Verdict(l[i].id, l[i].outcome) /\ l[i].outcome \in Outcomes
<1>1. l[i] \in Entries
  OBVIOUS
<1> DEFINE e == l[i]
<1> HIDE DEF e
<1>2. e \in Entries /\ e.state = "final" => e = Verdict(e.id, e.outcome) /\ e.outcome \in Outcomes
  BY DEF Entries, Verdict
<1> QED
  BY <1>1, <1>2 DEF e

\* What VerdictsStand says of a step.
KeepsVerdicts ==
    \A a \in Actions \ (Idempotent \cup forgotten') :
      Final(ledger, a) =>
        /\ Final(ledger', a)
        /\ Entry(ledger', a).outcome = Entry(ledger, a).outcome

\* A save keeps the verdicts of all actions but its own.
LEMMA SaveKeepsVerdicts ==
    ASSUME TypeOK, Unique(ledger), NEW e \in Entries, Save(e),
           e.id \notin Idempotent \cup forgotten' => ~Final(ledger, e.id)
    PROVE  KeepsVerdicts
<1>1. ledger \in Seq(Entries) /\ ledger' \in Seq(Entries) /\ Unique(ledger')
  BY SaveFacts, SaveIsUnique DEF TypeOK
<1> SUFFICES ASSUME NEW a \in Actions, a \notin Idempotent \cup forgotten', Final(ledger, a)
             PROVE  /\ Final(ledger', a)
                    /\ Entry(ledger', a).outcome = Entry(ledger, a).outcome
  BY DEF KeepsVerdicts
<1>2. a # e.id
  OBVIOUS
<1>3. PICK j \in DOMAIN ledger : ledger[j].id = a
  BY DEF Final, Ids
<1>4. PICK i \in DOMAIN ledger' : ledger'[i] = ledger[j]
  BY <1>2, <1>3, SaveIsUnique
<1>5. Entry(ledger, a) = ledger[j] /\ ledger[j].state = "final"
  BY <1>1, <1>3, LookUp
<1>6. /\ Entry(ledger', ledger'[i].id) = ledger'[i]
      /\ Final(ledger', ledger'[i].id) <=> ledger'[i].state = "final"
  BY <1>1, LookUp
<1> QED
  BY <1>3, <1>4, <1>5, <1>6

\* The verdict of a call that had none is written.
LEMMA FinishKeepsStory ==
    ASSUME LedgerInv, StoryInv, NEW c \in Calls, NEW o \in Outcomes,
           call[c] # Idle, call[c].phase # "done",
           o = "allowed" => call[c].act \in ran,
           Save(Verdict(call[c].act, o)),
           call' = [call EXCEPT ![c] = Done(@, o)],
           UNCHANGED <<ran, answers>>
    PROVE  StoryInv' /\ KeepsVerdicts
<1> DEFINE b == call[c].act
           e == Verdict(b, o)
<1>0. TypeOK /\ ledger \in Seq(Entries) /\ call \in [Calls -> CallStates]
  BY DEF LedgerInv, TypeOK
<1>1. b \in Actions /\ Live(c, b)
  BY <1>0 DEF CallStates, Pending, Finished, Idle, Live
<1>2. e \in Entries /\ e.id = b /\ e.outcome = o /\ e.state = "final" /\ Save(e)
  BY <1>1 DEF Verdict, Entries
<1>3. /\ ledger' \in Seq(Entries)
      /\ \A i \in DOMAIN ledger' :
           ledger'[i] = e \/ \E j \in DOMAIN ledger : ledger'[i] = ledger[j]
      /\ forgotten \subseteq forgotten'
  BY <1>0, <1>2, SaveFacts
<1>4. /\ Unique(ledger')
      /\ \A i \in DOMAIN ledger' : ledger'[i].id = b => ledger'[i] = e
      /\ \A j \in DOMAIN ledger : ledger[j].id # b /\ ledger[j].id \notin forgotten'
           => \E i \in DOMAIN ledger' : ledger'[i] = ledger[j]
  BY <1>0, <1>2, SaveIsUnique DEF StoryInv
<1>5. /\ call'[c].phase = "done" /\ call'[c].reply = o /\ call'[c].act = b
      /\ \A d \in Calls : d # c => call'[d] = call[d]
  <2>1. call[c] \in Pending
    BY <1>0 DEF CallStates, Finished
  <2>2. \A s \in Pending : /\ Done(s, o).phase = "done" /\ Done(s, o).reply = o
                           /\ Done(s, o).act = s.act
    BY DEF Pending, Done
  <2> QED
    BY <1>0, <2>1, <2>2
<1>6. \A a : Guarded(a)' => Guarded(a)
  BY <1>3 DEF Guarded
<1>7. Guarded(b) => \A i \in DOMAIN ledger : ledger[i].id = b => ledger[i].state = "received"
  BY <1>1 DEF LedgerInv, EntryOpen
<1>8. Verdict(b, o).id = b /\ \A a, v : Verdict(a, v).id = a /\ Verdict(a, v).state = "final"
  BY DEF Verdict
<1>9. KeepsVerdicts
  <2>1. e.id \notin Idempotent \cup forgotten' => ~Final(ledger, e.id)
    <3> SUFFICES ASSUME Guarded(b), Final(ledger, b) PROVE FALSE
      BY <1>1, <1>2, <1>3 DEF Guarded
    <3>1. PICK i \in DOMAIN ledger : ledger[i].id = b
      BY DEF Final, Ids
    <3>2. ledger[i].state = "final"
      BY <1>0, <3>1, LookUp DEF StoryInv
    <3> QED
      BY <1>7, <3>1, <3>2
  <2> HIDE DEF e
  <2> QED
    BY <1>0, <1>2, <2>1, SaveKeepsVerdicts DEF StoryInv
<1> HIDE DEF b, e
<1>10. AnswersStand'
  <2> SUFFICES ASSUME NEW a \in Actions, Guarded(a)', NEW v \in answers[a] \cap Outcomes
               PROVE  \E i \in DOMAIN ledger' : ledger'[i] = Verdict(a, v)
    BY DEF AnswersStand
  <2>1. PICK j \in DOMAIN ledger : ledger[j] = Verdict(a, v)
    BY <1>6 DEF StoryInv, AnswersStand
  <2>2. a # b
    BY <1>6, <1>7, <1>8, <2>1
  <2> QED
    BY <1>4, <1>8, <2>1, <2>2 DEF Guarded
<1>11. ReplyStands'
  <2> SUFFICES ASSUME NEW a \in Actions, NEW d \in Calls, Guarded(a)', Live(d, a)',
                      call'[d].phase = "done", NEW i \in DOMAIN ledger', ledger'[i].id = a
               PROVE  ledger'[i] = Verdict(a, call'[d].reply)
    BY DEF ReplyStands
  <2>1. CASE d = c
    <3>1. a = b
      BY <1>5, <2>1 DEF Live
    <3> QED
      BY <1>4, <1>5, <2>1, <3>1 DEF e
  <2>2. CASE d # c
    <3>1. Live(d, a) /\ call[d].phase = "done" /\ call'[d] = call[d]
      BY <1>5, <2>2 DEF Live
    <3>2. a # b
      BY <1>1, <1>6, <2>2, <3>1 DEF LedgerInv, OneCall
    <3>3. PICK j \in DOMAIN ledger : ledger'[i] = ledger[j]
      BY <1>2, <1>3, <3>2
    <3> QED
      BY <1>6, <3>1, <3>3 DEF StoryInv, ReplyStands
  <2> QED
    BY <2>1, <2>2
<1>12. ToolStarted'
  BY <1>5 DEF StoryInv, ToolStarted, b
<1>13. AllowedStarted'
  BY <1>2, <1>3 DEF StoryInv, AllowedStarted, b
<1>14. AllowedRan'
  BY DEF StoryInv, AllowedRan
<1> QED
  BY <1>4, <1>9, <1>10, <1>11, <1>12, <1>13, <1>14 DEF StoryInv

\* A request is accepted.
LEMMA AcceptKeepsStory ==
    ASSUME LedgerInv, StoryInv, NEW c \in Calls, NEW b \in Actions, Accept(c, b)
    PROVE  StoryInv' /\ KeepsVerdicts
<1> DEFINE e == Received(b)
<1>0. TypeOK /\ ledger \in Seq(Entries)
  BY DEF LedgerInv, TypeOK
<1>1. /\ e \in Entries /\ e.id = b /\ e.state = "received"
      /\ \A a, v : Verdict(a, v).id = a /\ Verdict(a, v).state = "final"
  BY DEF Received, Entries, Outcomes, Verdict
<1>2. /\ UNCHANGED <<ran, answers>>
      /\ \A d \in Calls : d # c => call'[d] = call[d]
      /\ call'[c] = Begin(b) /\ Begin(b).phase = "gate"
  BY <1>0 DEF Accept, TypeOK, Begin
<1>3. CASE b \notin Ids(ledger) /\ Save(e)
  <2>1. /\ \A i \in DOMAIN ledger' :
             ledger'[i] = e \/ \E j \in DOMAIN ledger : ledger'[i] = ledger[j]
        /\ forgotten \subseteq forgotten'
    BY <1>0, <1>1, <1>3, SaveFacts
  <2>2. /\ Unique(ledger')
        /\ \A j \in DOMAIN ledger : ledger[j].id # b /\ ledger[j].id \notin forgotten'
             => \E i \in DOMAIN ledger' : ledger'[i] = ledger[j]
    BY <1>0, <1>1, <1>3, SaveIsUnique DEF StoryInv
  <2>3. KeepsVerdicts
    BY <1>0, <1>1, <1>3, SaveKeepsVerdicts DEF StoryInv, Final
  <2>4. \A a : Guarded(a)' => Guarded(a)
    BY <2>1 DEF Guarded
  <2>5. \A j \in DOMAIN ledger : ledger[j].id # b
    BY <1>3 DEF Ids
  <2> HIDE DEF e
  <2>6. AnswersStand'
    <3> SUFFICES ASSUME NEW a \in Actions, Guarded(a)', NEW v \in answers[a] \cap Outcomes
                 PROVE  \E i \in DOMAIN ledger' : ledger'[i] = Verdict(a, v)
      BY <1>2 DEF AnswersStand
    <3>1. PICK j \in DOMAIN ledger : ledger[j] = Verdict(a, v)
      BY <2>4 DEF StoryInv, AnswersStand
    <3> QED
      BY <1>1, <2>2, <2>5, <3>1 DEF Guarded
  <2>7. ReplyStands'
    <3> SUFFICES ASSUME NEW a \in Actions, NEW d \in Calls, Guarded(a)', Live(d, a)',
                        call'[d].phase = "done", NEW i \in DOMAIN ledger', ledger'[i].id = a
                 PROVE  ledger'[i] = Verdict(a, call'[d].reply)
      BY DEF ReplyStands
    <3>1. d # c /\ Live(d, a) /\ call[d].phase = "done" /\ call'[d] = call[d] /\ Guarded(a)
      BY <1>2, <2>4 DEF Live
    <3>2. a # b
      BY <1>3, <3>1 DEF LedgerInv, Tracked
    <3>3. PICK j \in DOMAIN ledger : ledger'[i] = ledger[j]
      BY <1>1, <2>1, <3>2
    <3> QED
      BY <3>1, <3>3 DEF StoryInv, ReplyStands
  <2>8. ToolStarted' /\ AllowedRan'
    BY <1>2 DEF StoryInv, ToolStarted, AllowedRan
  <2>9. AllowedStarted'
    BY <1>1, <1>2, <2>1 DEF StoryInv, AllowedStarted
  <2> QED
    BY <2>2, <2>3, <2>6, <2>7, <2>8, <2>9 DEF StoryInv
<1>4. CASE UNCHANGED <<ledger, forgotten>>
  <2>1. KeepsVerdicts
    BY <1>4 DEF KeepsVerdicts
  <2> QED
    BY <1>2, <1>4, <2>1, GoingOnKeepsStory
<1> QED
  BY <1>3, <1>4 DEF Accept

\* A verdict is given that the ledger holds, or one that is no outcome.
LEMMA AnswerKeepsStory ==
    ASSUME LedgerInv, StoryInv, NEW b \in Actions, NEW v, Answer(b, v),
           UNCHANGED <<ledger, ran, forgotten>>,
           \A d \in Calls : call'[d] = Idle \/ call'[d] = call[d],
           v \in Outcomes /\ Guarded(b) => \E i \in DOMAIN ledger : ledger[i] = Verdict(b, v),
           v = "allowed" => b \in ran
    PROVE  StoryInv' /\ KeepsVerdicts
<1>1. answers' = [answers EXCEPT ![b] = @ \cup {v}] /\ answers \in [Actions -> SUBSET Verdicts]
  BY DEF Answer, LedgerInv, TypeOK
<1>2. AnswersStand'
  BY <1>1 DEF StoryInv, AnswersStand, Guarded
<1>3. ReplyStands'
  BY DEF StoryInv, ReplyStands, Guarded, Live, Idle
<1>4. ToolStarted'
  BY DEF StoryInv, ToolStarted, Idle
<1>5. AllowedStarted' /\ Unique(ledger)'
  BY DEF StoryInv, AllowedStarted, Unique
<1>6. AllowedRan'
  BY <1>1 DEF StoryInv, AllowedRan
<1>7. KeepsVerdicts
  BY DEF KeepsVerdicts
<1> QED
  BY <1>2, <1>3, <1>4, <1>5, <1>6, <1>7 DEF StoryInv

LEMMA InitStory == Init => StoryInv
BY DEF Init, StoryInv, Unique, AnswersStand, ReplyStands, ToolStarted, AllowedStarted,
       AllowedRan, Idle, Live

\* Every step keeps what was said, and the verdicts that stand.
LEMMA NextKeepsStory ==
    ASSUME LedgerInv, LedgerInv', StoryInv, Next
    PROVE  StoryInv' /\ KeepsVerdicts
<1>0. /\ TypeOK /\ ledger \in Seq(Entries) /\ call \in [Calls -> CallStates]
      /\ pending \in [Actions -> Calls \cup {None}]
  BY DEF LedgerInv, TypeOK
<1>a. \A d \in Calls : call[d] # Idle => call[d].act \in Actions
  BY <1>0 DEF CallStates, Pending, Finished, Idle
<1>b. UNCHANGED ledger => KeepsVerdicts
  BY DEF KeepsVerdicts
<1>1. ASSUME NEW a \in Actions, RejectUnsupported(a) \/ RefuseReplay(a)
      PROVE  StoryInv' /\ KeepsVerdicts
  <2>1. PICK v \in {"unsupported", "unknown"} : Answer(a, v)
    BY <1>1 DEF RejectUnsupported, RefuseReplay
  <2>2. UNCHANGED <<ledger, call, ran, forgotten>> /\ v \notin Outcomes
    BY <1>1 DEF RejectUnsupported, RefuseReplay, bodyVars, Outcomes
  <2> QED
    BY <2>1, <2>2, AnswerKeepsStory DEF Outcomes
<1>2. ASSUME NEW a \in Actions, Replay(a)
      PROVE  StoryInv' /\ KeepsVerdicts
  <2>1. PICK i \in DOMAIN ledger : ledger[i].id = a
    BY <1>2 DEF Replay, Final, Ids
  <2>2. Entry(ledger, a) = ledger[i] /\ ledger[i].state = "final"
    BY <1>0, <1>2, <2>1, LookUp DEF Replay, StoryInv
  <2>3. ledger[i] = Verdict(a, ledger[i].outcome)
    BY <1>0, <2>1, <2>2, FinalIsVerdict
  <2>4. ledger[i].outcome = "allowed" => a \in ran
    BY <2>1, <2>2 DEF StoryInv, AllowedStarted
  <2>5. Answer(a, ledger[i].outcome) /\ UNCHANGED <<ledger, call, ran, forgotten>>
    BY <1>2, <2>2 DEF Replay, bodyVars
  <2> QED
    BY <2>3, <2>4, <2>5, AnswerKeepsStory
<1>3. ASSUME NEW a \in Actions, NEW c \in Calls, Accept(c, a)
      PROVE  StoryInv' /\ KeepsVerdicts
  BY <1>3, AcceptKeepsStory
<1>4. ASSUME NEW c \in Calls, PassGate(c) \/ RunApproved(c)
      PROVE  StoryInv' /\ KeepsVerdicts
  <2> DEFINE b == call[c].act
  <2>1. /\ UNCHANGED <<ledger, forgotten, answers>> /\ ran' = ran \cup {b}
        /\ call[c] \in Pending
    BY <1>0, <1>4 DEF PassGate, RunApproved, StartTool, CallStates, Idle, Finished
  <2>2. \A d \in Calls : d # c => call'[d] = call[d]
    BY <1>0, <1>4 DEF PassGate, RunApproved
  <2>3. call'[c].phase = "run" /\ call'[c].act = b
    <3>1. \A s \in Pending : /\ [s EXCEPT !.phase = "run"].phase = "run"
                             /\ [s EXCEPT !.phase = "run"].act = s.act
                             /\ [s EXCEPT !.phase = "run", !.reply = "none"].phase = "run"
                             /\ [s EXCEPT !.phase = "run", !.reply = "none"].act = s.act
      BY DEF Pending
    <3> QED
      BY <1>0, <1>4, <2>1, <3>1 DEF PassGate, RunApproved
  <2> QED
    BY <1>b, <2>1, <2>2, <2>3, GoingOnKeepsStory
<1>5. ASSUME NEW c \in Calls,
             RequestConfirmation(c) \/ ConfirmationTimeout(c) \/ RetryTool(c) \/ ToolRetryable(c)
      PROVE  StoryInv' /\ KeepsVerdicts
  <2>1. UNCHANGED <<ledger, forgotten, answers, ran>> /\ call[c] \in Pending
    BY <1>0, <1>5 DEF RequestConfirmation, ConfirmationTimeout, RetryTool, ToolRetryable,
                      worldVars, CallStates, Idle, Finished
  <2>2. \A d \in Calls : d # c => call'[d] = call[d]
    BY <1>0, <1>5 DEF RequestConfirmation, ConfirmationTimeout, RetryTool, ToolRetryable
  <2>3. \/ call'[c].phase \in {"confirm", "denied"}
        \/ /\ call'[c].phase \in {"run", "backoff"} /\ call'[c].act = call[c].act
           /\ call[c].phase \in {"run", "backoff"}
    <3>1. \A s \in Pending : /\ [s EXCEPT !.phase = "confirm"].phase = "confirm"
                             /\ [s EXCEPT !.phase = "run"].phase = "run"
                             /\ [s EXCEPT !.phase = "run"].act = s.act
                             /\ Denied(s).phase = "denied"
                             /\ \A n : /\ [s EXCEPT !.phase = "backoff", !.tries = n].phase = "backoff"
                                       /\ [s EXCEPT !.phase = "backoff", !.tries = n].act = s.act
      BY DEF Pending, Denied
    <3>2. CASE RequestConfirmation(c)
      BY <1>0, <2>1, <3>1, <3>2 DEF RequestConfirmation
    <3>3. CASE ConfirmationTimeout(c)
      BY <1>0, <2>1, <3>1, <3>3 DEF ConfirmationTimeout
    <3>4. CASE RetryTool(c)
      BY <1>0, <2>1, <3>1, <3>4 DEF RetryTool
    <3>5. CASE ToolRetryable(c)
      BY <1>0, <2>1, <3>1, <3>5 DEF ToolRetryable
    <3> QED
      BY <1>5, <3>2, <3>3, <3>4, <3>5
  <2> QED
    BY <1>b, <2>1, <2>2, <2>3, GoingOnKeepsStory
<1>6. ASSUME NEW c \in Calls, RecordDenial(c)
      PROVE  StoryInv' /\ KeepsVerdicts
  <2>1. /\ call[c] # Idle /\ call[c].phase # "done" /\ "denied" \in Outcomes
        /\ Save(Verdict(call[c].act, "denied")) /\ UNCHANGED <<ran, answers>>
        /\ call' = [call EXCEPT ![c] = Done(@, "denied")]
    BY <1>6 DEF RecordDenial, Idle, Outcomes
  <2> QED
    BY <2>1, FinishKeepsStory
<1>7. ASSUME NEW c \in Calls, NEW o \in {"allowed", "rejected"}, ToolReturns(c, o)
      PROVE  StoryInv' /\ KeepsVerdicts
  <2>1. /\ call[c] # Idle /\ call[c].phase = "run" /\ o \in Outcomes
        /\ Save(Verdict(call[c].act, o)) /\ UNCHANGED <<ran, answers>>
        /\ call' = [call EXCEPT ![c] = Done(@, o)]
    BY <1>7 DEF ToolReturns, Idle, Outcomes
  <2>2. call[c].act \in ran
    BY <2>1 DEF StoryInv, ToolStarted
  <2> QED
    BY <2>1, <2>2, FinishKeepsStory
<1>8. ASSUME NEW c \in Calls, SendResult(c)
      PROVE  StoryInv' /\ KeepsVerdicts
  <2> DEFINE b == call[c].act
             v == call[c].reply
  <2>1. /\ call[c].phase = "done" /\ call[c] # Idle /\ b \in Actions /\ Live(c, b)
        /\ Answer(b, v) /\ UNCHANGED <<ledger, ran, forgotten>>
        /\ \A d \in Calls : call'[d] = Idle \/ call'[d] = call[d]
    BY <1>0, <1>8, <1>a DEF SendResult, Idle, Live
  <2>2. Guarded(b) => \E i \in DOMAIN ledger : ledger[i] = Verdict(b, v)
    BY <2>1 DEF LedgerInv, Tracked, Ids, StoryInv, ReplyStands
  <2>3. v = "allowed" => b \in ran
    BY <2>1 DEF StoryInv, ToolStarted
  <2> HIDE DEF b, v
  <2> QED
    BY <2>1, <2>2, <2>3, AnswerKeepsStory
<1>9. ASSUME NEW a \in Actions, NEW ok \in BOOLEAN, NEW sc \in Scopes, Respond(a, ok, sc)
      PROVE  StoryInv' /\ KeepsVerdicts
  <2> DEFINE c == pending[a]
  <2>1. /\ c \in Calls /\ call[c].phase = "confirm" /\ call[c] \in Pending
        /\ UNCHANGED <<ledger, forgotten, answers, ran>>
    BY <1>0, <1>9 DEF Respond, LedgerInv, PromptsAreWaiting, worldVars, CallStates, Idle, Finished
  <2>2. \A d \in Calls : d # c => call'[d] = call[d]
    BY <1>0, <1>9 DEF Respond
  <2>3. call'[c].phase \in {"approved", "denied"}
    <3>1. \A s \in Pending : Approved(s, sc).phase = "approved" /\ Denied(s).phase = "denied"
      BY DEF Pending, Approved, Denied
    <3> QED
      BY <1>0, <1>9, <2>1, <3>1 DEF Respond
  <2> HIDE DEF c
  <2> QED
    BY <1>b, <2>1, <2>2, <2>3, GoingOnKeepsStory
<1>10. ASSUME DropTask \/ ClearHistory
       PROVE  StoryInv' /\ KeepsVerdicts
  <2>1. DenyPending /\ UNCHANGED <<ledger, forgotten, answers, ran>>
    BY <1>10 DEF DropTask, ClearHistory, worldVars
  <2>2. ASSUME NEW c \in Calls
        PROVE  call'[c] = call[c] \/ call'[c].phase = "denied"
    <3>1. CASE \E a \in Actions : pending[a] = c
      <4>1. call[c].phase = "confirm"
        BY <3>1, NoneAssumption DEF LedgerInv, PromptsAreWaiting
      <4>2. call[c] \in Pending
        BY <1>0, <4>1 DEF CallStates, Idle, Finished
      <4>3. \A s \in Pending : Denied(s).phase = "denied"
        BY DEF Pending, Denied
      <4> QED
        BY <2>1, <3>1, <4>2, <4>3 DEF DenyPending
    <3>2. CASE ~ \E a \in Actions : pending[a] = c
      BY <2>1, <3>2 DEF DenyPending
    <3> QED
      BY <3>1, <3>2
  <2> QED
    BY <1>b, <2>1, <2>2, GoingOnKeepsStory
<1>11. ASSUME (\E t \in Tasks : EndTask(t)) \/ Crash
       PROVE  StoryInv' /\ KeepsVerdicts
  <2>1. /\ UNCHANGED <<ledger, forgotten, answers, ran>>
        /\ \A c \in Calls : call'[c] = Idle \/ call'[c] = call[c]
    BY <1>11 DEF EndTask, Crash, worldVars
  <2> QED
    BY <1>b, <2>1, GoingOnKeepsStory DEF Idle
<1> QED
  BY <1>1, <1>2, <1>3, <1>4, <1>5, <1>6, <1>7, <1>8, <1>9, <1>10, <1>11
     DEF Next, TaskAction, CallStep, User

\* What was said is one story.
LEMMA StoryIsOne == LedgerInv /\ StoryInv => OneStory /\ AllowedRan
<1> SUFFICES ASSUME LedgerInv, StoryInv, NEW a \in Actions, Guarded(a)
             PROVE  Cardinality(answers[a] \cap Outcomes) <= 1
  BY DEF OneStory, StoryInv, Guarded
<1> DEFINE S == answers[a] \cap Outcomes
<1>1. ASSUME NEW v \in S, NEW u \in S PROVE v = u
  <2>1. /\ \E i \in DOMAIN ledger : ledger[i] = Verdict(a, v)
        /\ \E j \in DOMAIN ledger : ledger[j] = Verdict(a, u)
    BY DEF StoryInv, AnswersStand
  <2>2. /\ Verdict(a, v).id = a /\ Verdict(a, u).id = a
        /\ Verdict(a, v).outcome = v /\ Verdict(a, u).outcome = u
    BY DEF Verdict
  <2> QED
    BY <2>1, <2>2 DEF StoryInv, Unique
<1> HIDE DEF S
<1>2. S = {} \/ \E v : S = {v}
  BY <1>1
<1>3. Cardinality(S) = 0 \/ Cardinality(S) = 1
  BY <1>2, FS_EmptySet, FS_Singleton
<1> QED
  BY <1>3 DEF S

\* The answers and the ledger tell one story, of every action and at every moment.
THEOREM StoryAlways == Spec => []StoryInv
<1>1. StoryInv /\ LedgerInv /\ LedgerInv' /\ [Next]_vars => StoryInv'
  <2>1. StoryInv /\ UNCHANGED vars => StoryInv'
    BY DEF StoryInv, vars, Unique, AnswersStand, ReplyStands, ToolStarted,
           AllowedStarted, AllowedRan, Guarded, Live
  <2> QED
    BY <2>1, NextKeepsStory
<1> QED
  BY <1>1, InitStory, LedgerInvariant, PTL DEF Spec

\* The Brain is told one story per action, "allowed" only of what started, and
\* no verdict is written over (evaluateAndExecute).
THEOREM AnswersAlwaysTrue == Spec => AnswersAreTrue
<1>1. LedgerInv /\ LedgerInv' /\ StoryInv /\ [Next]_vars => [KeepsVerdicts]_vars
  BY NextKeepsStory
<1>2. Spec => VerdictsStand
  BY <1>1, LedgerInvariant, StoryAlways, PTL DEF Spec, VerdictsStand, KeepsVerdicts
<1> QED
  BY <1>2, LedgerInvariant, StoryAlways, StoryIsOne, PTL DEF AnswersAreTrue
==============================================================================
