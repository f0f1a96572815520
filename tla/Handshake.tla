----------------------------- MODULE Handshake ------------------------------
(***************************************************************************)
(* How a Body and a Brain get from a TCP connection to a ready session and *)
(* what ends one: the Body's link (BodyLink) under its protocol automaton  *)
(* (remote-brain.ts, onLinkMessage and its handlers), the Brain's automaton*)
(* of each connection (brain-runtime.ts, handleFrame and its handlers), the*)
(* Brain's registry entry of this Body (device-registry.ts), the pairing   *)
(* code (pairing.ts) and the administrator's revoke and remove.            *)
(*                                                                         *)
(* Every socket carries a FIFO of frames each way.  A socket that is being *)
(* closed still delivers what the other side sent before, as the ws        *)
(* library does; a close frame is the last of its direction and is echoed. *)
(* A cut socket delivers a prefix of what was sent, then each end sees it  *)
(* closed.                                                                 *)
(*                                                                         *)
(* Abstracted: keys and signatures (both ends are genuine, so a signature  *)
(* verifies and only an unanswered challenge can be missing), the protocol *)
(* range (one version), malformed frames, the rate limits, the codes' own  *)
(* alphabet, the link's stability reset and certificates (BodyLink has     *)
(* them).  Tasks are RemoteTask's subject.                                 *)
(***************************************************************************)
EXTENDS BodyLink, Sequences, FiniteSets

CONSTANTS
    MaxCuts,       \* bound: connections cut or refused, restarts of the Brain
    MaxSlow,       \* bound: frames slower than a phase timer or a ping interval
    MaxUser,       \* bound: connects, disconnects and reconnects of the Body's user
    MaxReconnects, \* bound: the reconnects among them
    MaxAdmin       \* bound: codes, revocations and removals by the administrator

ASSUME HandshakeBounds ==
    /\ MaxCuts \in Nat /\ MaxSlow \in Nat /\ MaxAdmin \in Nat
    /\ MaxUser \in Nat /\ MaxReconnects \in Nat

VARIABLES
    \* the Body
    phase,        \* of RemoteBrainDriver
    saved,        \* a Brain pairing is on disk
    pendingCode,  \* pendingPairingCode: "none", or whether it is the right one
    challenges,   \* sockets on which a challenge of the Body is unanswered
    \* the Brain
    peerPhase,    \* of every socket, "none" before and after its life
    brainOpen,    \* sockets the Brain may send on
    peer,         \* peers.get(bodyId), or NoSocket
    status,       \* of the registry entry, or "absent"
    code,         \* whether an unused pairing code exists
    \* the network
    cut,          \* sockets that carry nothing more
    toBrain, toBody,
    left          \* what is left of each bound

bodyVars == <<phase, saved, pendingCode, challenges>>
brainVars == <<peerPhase, brainOpen, peer, status, code>>
netVars == <<cut, toBrain, toBody>>
vars == <<linkVars, bodyVars, brainVars, netVars, left>>

Phases == {"idle", "connecting", "pairing", "auth", "ready"}
PreReady == {"hello", "pairing", "auth-body", "auth-brain"}
PeerPhases == PreReady \cup {"none", "ready"}
Statuses == {"absent", "online", "offline", "revoked"}

F(type) == [type |-> type]
Hello(mode) == [type |-> "hello", mode |-> mode]
CloseFrame(c) == [type |-> "close", code |-> c]

Init ==
    /\ LinkInit
    /\ phase = "idle" /\ pendingCode = "none" /\ challenges = {}
    /\ peerPhase = [s \in Sockets |-> "none"]
    /\ brainOpen = {} /\ peer = NoSocket /\ code = FALSE
    /\ \/ saved = FALSE /\ status = "absent"
       \/ saved = TRUE /\ status = "offline"
    /\ cut = {}
    /\ toBrain = [s \in Sockets |-> << >>] /\ toBody = [s \in Sockets |-> << >>]
    /\ left = [cuts |-> MaxCuts, slow |-> MaxSlow, admin |-> MaxAdmin,
               user |-> MaxUser, reconnects |-> MaxReconnects]

Spend(what) == left[what] > 0 /\ left' = [left EXCEPT ![what] = @ - 1]

-----------------------------------------------------------------------------
(* Frames *)

\* chan is toBrain or toBody after any dequeue.
Put(chan, s, frames) ==
    IF s \in cut THEN chan ELSE [chan EXCEPT ![s] = @ \o frames]
Got(chan, s) == [chan EXCEPT ![s] = Tail(@)]

\* What the Body's socket is told when the link closes it (link operators
\* leave "closing" in readyState'): a socket still connecting has no peer.
BodyCloses(chan) ==
    [s \in Sockets |->
       IF readyState[s] = "open" /\ readyState'[s] = "closing" /\ s \notin cut
       THEN Append(chan[s], CloseFrame("other")) ELSE chan[s]]

\* The Body sends on the socket its link owns.
BodySends(chan, frames) ==
    IF ws # NoSocket /\ readyState[ws] = "open" THEN Put(chan, ws, frames) ELSE chan

\* The Brain sends on a socket, and closes it (teardownPeer).
BrainSends(s, frames) ==
    toBody' = IF s \in brainOpen THEN Put(toBody, s, frames) ELSE toBody
BrainEnds(s, frames, c) ==
    /\ BrainSends(s, Append(frames, CloseFrame(c)))
    /\ brainOpen' = brainOpen \ {s}

-----------------------------------------------------------------------------
(* The Brain *)

\* registerPair: the entry is overwritten whatever it was.
RegisterPair == status' = "online"

HandleHello(s) ==
    /\ UNCHANGED <<peer, status, code>>
    /\ CASE status = "revoked" ->
              /\ BrainEnds(s, <<Hello("revoked"), F("error")>>, "revoked")
              /\ UNCHANGED peerPhase
         [] status = "absent" ->
              /\ BrainSends(s, <<Hello("pair")>>)
              /\ peerPhase' = [peerPhase EXCEPT ![s] = "pairing"]
              /\ UNCHANGED brainOpen
         [] OTHER ->
              /\ BrainSends(s, <<Hello("auth"), F("auth_challenge")>>)
              /\ peerPhase' = [peerPhase EXCEPT ![s] = "auth-body"]
              /\ UNCHANGED brainOpen

\* Mutant: a code may be used again.
HandlePairRequestReusable(s, f) ==
    /\ UNCHANGED <<peer, code>>
    /\ IF code /\ f.code = "right"
       THEN /\ RegisterPair
            /\ BrainSends(s, <<F("pair_accept"), F("auth_challenge")>>)
            /\ peerPhase' = [peerPhase EXCEPT ![s] = "auth-body"]
            /\ UNCHANGED brainOpen
       ELSE /\ BrainEnds(s, <<F("pair_reject")>>, "policy")
            /\ UNCHANGED <<peerPhase, status>>

\* handlePairRequest and PairingManager.tryConsume.
HandlePairRequest(s, f) ==
    /\ UNCHANGED peer
    /\ IF code /\ f.code = "right"
       THEN /\ code' = FALSE
            /\ RegisterPair
            /\ BrainSends(s, <<F("pair_accept"), F("auth_challenge")>>)
            /\ peerPhase' = [peerPhase EXCEPT ![s] = "auth-body"]
            /\ UNCHANGED brainOpen
       ELSE /\ BrainEnds(s, <<F("pair_reject")>>, "policy")
            /\ UNCHANGED <<peerPhase, status, code>>

\* The Body's signature over the Brain's challenge; a revoked entry passes.
HandleBodyAuthResponse(s) ==
    /\ UNCHANGED <<peer, status, code>>
    /\ IF status = "absent"
       THEN BrainEnds(s, <<F("error")>>, "policy") /\ UNCHANGED peerPhase
       ELSE /\ BrainSends(s, <<F("auth_result")>>)
            /\ peerPhase' = [peerPhase EXCEPT ![s] = "auth-brain"]
            /\ UNCHANGED brainOpen

\* Mutant: the previous connection is left open.
EnterReadyBeside(s) ==
    /\ peerPhase' = [peerPhase EXCEPT ![s] = "ready"]
    /\ peer' = s
    /\ status' = IF status \in {"online", "offline"} THEN "online" ELSE status
    /\ BrainSends(s, <<F("ready")>>)
    /\ UNCHANGED <<brainOpen, code>>

\* enterReady; markOnline ignores an absent or a revoked entry.
EnterReady(s) ==
    /\ peerPhase' = [peerPhase EXCEPT ![s] = "ready"]
    /\ peer' = s
    /\ status' = IF status \in {"online", "offline"} THEN "online" ELSE status
    /\ LET old == IF peer \in brainOpen \ {s} THEN {peer} ELSE {} IN
         /\ brainOpen' = brainOpen \ old
         /\ toBody' = [t \in Sockets |->
                         CASE t \in cut -> toBody[t]
                           [] t \in old \ cut -> Append(toBody[t], CloseFrame("other"))
                           [] t = s /\ s \in brainOpen \ cut -> Append(toBody[s], F("ready"))
                           [] OTHER -> toBody[t]]
    /\ UNCHANGED code

\* handleCapabilities in the ready phase re-registers a known Body.
HandleCapabilities ==
    /\ IF status = "absent" THEN UNCHANGED status ELSE RegisterPair
    /\ UNCHANGED <<peerPhase, brainOpen, peer, code, toBody>>

\* A frame that its phase does not expect: fatal before ready, ignored after.
RejectPhaseMessage(s) ==
    /\ UNCHANGED <<peerPhase, peer, status, code>>
    /\ IF peerPhase[s] = "ready" THEN UNCHANGED <<brainOpen, toBody>>
                                 ELSE BrainEnds(s, <<F("error")>>, "other")

\* handleFrame
BrainReceives(s) ==
    /\ peerPhase[s] # "none" /\ toBrain[s] # << >> /\ Head(toBrain[s]).type # "close"
    /\ toBrain' = Got(toBrain, s)
    /\ LET f == Head(toBrain[s]) IN
         CASE peerPhase[s] = "hello" -> HandleHello(s)   \* whatever its type
           [] peerPhase[s] = "pairing" /\ f.type = "pair_request" -> HandlePairRequest(s, f)
           [] peerPhase[s] = "auth-body" /\ f.type = "auth_response" -> HandleBodyAuthResponse(s)
           [] peerPhase[s] = "auth-brain" /\ f.type = "auth_challenge" ->
                /\ BrainSends(s, <<F("auth_response")>>)
                /\ UNCHANGED brainVars
           [] peerPhase[s] = "auth-brain" /\ f.type = "auth_result" -> EnterReady(s)
           [] peerPhase[s] = "ready" /\ f.type = "capabilities" -> HandleCapabilities
           [] OTHER -> RejectPhaseMessage(s)
    /\ UNCHANGED <<linkVars, bodyVars, cut, left>>

\* handleDisconnect; markOffline leaves a revoked entry revoked.
HandleDisconnect(s) ==
    IF peer = s
    THEN peer' = NoSocket /\ status' = IF status = "online" THEN "offline" ELSE status
    ELSE UNCHANGED <<peer, status>>

\* The close event at the Brain: the Body's close frame, echoed, or a dead socket.
BrainSeesClose(s) ==
    /\ peerPhase[s] # "none"
    /\ s \in cut \/ (toBrain[s] # << >> /\ Head(toBrain[s]).type = "close")
    /\ peerPhase' = [peerPhase EXCEPT ![s] = "none"]
    /\ toBrain' = [toBrain EXCEPT ![s] = << >>]
    /\ BrainSends(s, IF s \in cut THEN << >> ELSE <<CloseFrame(Head(toBrain[s]).code)>>)
    /\ brainOpen' = brainOpen \ {s}
    /\ HandleDisconnect(s)
    /\ UNCHANGED <<linkVars, bodyVars, code, cut, left>>

\* armPhaseTimer's timer, of any phase before ready.
PhaseTimeout(s) ==
    /\ s \in brainOpen /\ peerPhase[s] \in PreReady
    /\ BrainEnds(s, <<F("error")>>, "policy")
    /\ UNCHANGED <<linkVars, bodyVars, peerPhase, peer, status, code, cut, toBrain>>

\* It fires when nothing is under way any more, or before what is under way.
Stuck(s) == PhaseTimeout(s) /\ toBrain[s] = << >> /\ toBody[s] = << >> /\ UNCHANGED left
Slow(s) == PhaseTimeout(s) /\ Spend("slow")

\* 45 s without a frame in the ready phase: only of a dead network here.
BrainHeartbeatTimeout(s) ==
    /\ s \in brainOpen \cap cut /\ peerPhase[s] = "ready"
    /\ brainOpen' = brainOpen \ {s}
    /\ HandleDisconnect(s)
    /\ UNCHANGED <<linkVars, bodyVars, peerPhase, code, netVars, left>>

\* generatePairingCode; a code's expiry or exhaustion.
GenerateCode ==
    /\ Spend("admin") /\ code' = TRUE
    /\ UNCHANGED <<linkVars, bodyVars, peerPhase, brainOpen, peer, status, netVars>>
CodeExpires ==
    /\ code /\ code' = FALSE
    /\ UNCHANGED <<linkVars, bodyVars, peerPhase, brainOpen, peer, status, netVars, left>>

\* markBodyRevoked and removeBody: only the ready connection is closed.
EndPeer(c) ==
    IF peer \in brainOpen THEN BrainEnds(peer, << >>, c)
                          ELSE UNCHANGED <<brainOpen, toBody>>
Revoke ==
    /\ Spend("admin") /\ status # "absent"
    /\ status' = "revoked" /\ EndPeer("revoked")
    /\ UNCHANGED <<linkVars, bodyVars, peerPhase, peer, code, cut, toBrain>>
Remove ==
    /\ Spend("admin") /\ status # "absent"
    /\ status' = "absent" /\ EndPeer("policy")
    /\ UNCHANGED <<linkVars, bodyVars, peerPhase, peer, code, cut, toBrain>>

\* The Brain's process dies and starts again.  The registry is on disk, and
\* load keeps a status as it was saved.
BrainRestart ==
    /\ Spend("cuts")
    /\ cut' = cut \cup {s \in Sockets : peerPhase[s] # "none"}
    /\ peerPhase' = [s \in Sockets |-> "none"]
    /\ brainOpen' = {} /\ peer' = NoSocket /\ code' = FALSE
    /\ toBrain' = [s \in Sockets |-> << >>]
    /\ UNCHANGED <<linkVars, bodyVars, status, toBody>>

-----------------------------------------------------------------------------
(* The Body's automaton.  Each handler says what it does to the link, to the *)
(* driver and what it sends; s is the socket the frame came on.              *)

LinkIdle == UNCHANGED linkVars

\* Mutant: a refused handshake closes the socket without stopping the link.
DropSocketOnly(s) ==
    /\ ws' = NoSocket /\ readyState' = CloseOwn /\ state' = "DISCONNECTED"
    /\ UNCHANGED <<manualClose, reconnectTimer, attempt, authFailures, heartbeat,
                   connectedAt, everOpened>>
    /\ toBrain' = BodyCloses(toBrain)

\* this.link.disconnect(): the driver's own phase is left to the close event.
Drop(s) == Stop("DISCONNECTED") /\ toBrain' = BodyCloses(toBrain)

HandleBrainHello(s, f) ==
    CASE f.mode = "revoked" ->
           /\ Stop("REVOKED") /\ toBrain' = BodyCloses(toBrain)
           /\ UNCHANGED bodyVars
      [] f.mode = "pair" /\ pendingCode = "none" -> Drop(s) /\ UNCHANGED bodyVars
      [] f.mode = "pair" /\ pendingCode # "none" ->
           /\ phase' = "pairing"
           /\ toBrain' = BodySends(toBrain, <<[type |-> "pair_request", code |-> pendingCode]>>)
           /\ LinkIdle /\ UNCHANGED <<saved, pendingCode, challenges>>
      [] f.mode = "auth" /\ ~saved -> Drop(s) /\ UNCHANGED bodyVars
      [] f.mode = "auth" /\ saved ->
           /\ phase' = "auth" /\ LinkIdle /\ UNCHANGED <<saved, pendingCode, challenges, toBrain>>

HandlePairAccept ==
    /\ saved' = TRUE /\ pendingCode' = "none" /\ phase' = "auth"
    /\ LinkIdle /\ UNCHANGED <<challenges, toBrain>>

RespondToBrainChallenge ==
    /\ toBrain' = BodySends(toBrain, <<F("auth_response")>>)
    /\ LinkIdle /\ UNCHANGED bodyVars

HandleAuthResult ==
    /\ challenges' = challenges \cup ({ws} \ {NoSocket})
    /\ toBrain' = BodySends(toBrain, <<F("auth_challenge")>>)
    /\ LinkIdle /\ UNCHANGED <<phase, saved, pendingCode>>

\* Mutant: the Body is ready once it has verified the Brain.
HandleAuthResponseEager(s) ==
    /\ s \in challenges
    /\ challenges' = challenges \ {s}
    /\ toBrain' = BodySends(toBrain, <<F("auth_result")>>)
    /\ phase' = "ready" /\ MarkConnected /\ UNCHANGED <<saved, pendingCode>>

\* handleAuthResponse
HandleAuthResponse(s) ==
    IF s \in challenges
    THEN /\ challenges' = challenges \ {s}
         /\ toBrain' = BodySends(toBrain, <<F("auth_result")>>)
         /\ LinkIdle /\ UNCHANGED <<phase, saved, pendingCode>>
    ELSE Drop(s) /\ UNCHANGED bodyVars

\* handleReady; the state_sync frame changes nothing here.
HandleReady ==
    /\ MarkConnected /\ phase' = "ready"
    /\ toBrain' = BodySends(toBrain, <<F("capabilities")>>)
    /\ UNCHANGED <<saved, pendingCode, challenges>>

Ignore == LinkIdle /\ UNCHANGED <<bodyVars, toBrain>>

\* onLinkMessage
BodyReceives(s) ==
    /\ readyState[s] \in {"open", "closing"} /\ toBody[s] # << >>
    /\ Head(toBody[s]).type # "close"
    /\ toBody' = Got(toBody, s)
    /\ LET f == Head(toBody[s]) IN
         CASE phase \in {"idle", "ready"} \/ f.type = "error" -> Ignore
           [] phase = "connecting" /\ f.type = "hello" -> HandleBrainHello(s, f)
           [] phase = "pairing" /\ f.type = "pair_accept" -> HandlePairAccept
           [] phase \in {"pairing", "auth"} /\ f.type = "auth_challenge" -> RespondToBrainChallenge
           [] phase = "auth" /\ f.type = "auth_result" -> HandleAuthResult
           [] phase = "auth" /\ f.type = "auth_response" -> HandleAuthResponse(s)
           [] phase = "auth" /\ f.type = "ready" -> HandleReady
           [] OTHER -> Drop(s) /\ UNCHANGED bodyVars   \* pair_reject, or unexpected
    /\ UNCHANGED <<brainVars, cut, left>>

\* The TCP connection is made: onOpen sends hello, on the socket the link owns.
BodyOpens(s) ==
    /\ Opened(s)
    /\ phase' = "connecting"
    /\ peerPhase' = [peerPhase EXCEPT ![s] = "hello"] /\ brainOpen' = brainOpen \cup {s}
    /\ toBrain' = IF ws = s THEN [toBrain EXCEPT ![s] = <<F("hello")>>]
                  ELSE BodySends(toBrain, <<F("hello")>>)
    /\ UNCHANGED <<saved, pendingCode, challenges, peer, status, code, cut, toBody, left>>

\* The close event at the Body, onLinkClosed: of the Brain's close frame (whose
\* echo ends the Brain's side), of a dead socket, or of one never opened.
BodySeesClose(s) ==
    /\ \/ /\ readyState[s] \in {"open", "closing"}
          /\ toBody[s] # << >> /\ Head(toBody[s]).type = "close"
          /\ Closed(s, Head(toBody[s]).code)
          /\ toBrain' = IF readyState[s] = "open"
                        THEN Put(toBrain, s, <<CloseFrame("other")>>) ELSE toBrain
       \/ /\ s \in cut \/ (readyState[s] = "closing" /\ peerPhase[s] = "none" /\ toBody[s] = << >>)
          /\ Closed(s, "other")
          /\ UNCHANGED toBrain
    /\ toBody' = [toBody EXCEPT ![s] = << >>]
    /\ phase' = "idle"
    /\ UNCHANGED <<saved, pendingCode, challenges, brainVars, cut, left>>

\* Nobody listens at the other end.
ConnectionRefused(s) ==
    /\ Spend("cuts")
    /\ readyState[s] = "connecting" /\ Closed(s, "other")
    /\ phase' = "idle"
    /\ UNCHANGED <<saved, pendingCode, challenges, brainVars, netVars>>

\* A handshake that is slower than the Body's ping interval.
BodyPings ==
    /\ Spend("slow") /\ heartbeat /\ ws # NoSocket
    /\ peerPhase[ws] \in PreReady
    /\ toBrain' = BodySends(toBrain, <<F("ping")>>)
    /\ UNCHANGED <<linkVars, bodyVars, brainVars, cut, toBody>>

\* A socket object that is used again has no traces of its former life.
Fresh ==
    ws' \in Sockets \ {ws} =>
      peerPhase[ws'] = "none" /\ ws' \notin cut /\ toBrain[ws'] = << >> /\ toBody[ws'] = << >>

\* The link's own timers.
BodyTimer == TimerFires /\ Fresh /\ UNCHANGED <<bodyVars, brainVars, netVars, left>>
BodyHeartbeat ==
    /\ \A s \in Sockets : readyState[s] = "open" => s \in cut
    /\ HeartbeatTimeout
    /\ UNCHANGED <<bodyVars, brainVars, netVars, left>>

-----------------------------------------------------------------------------
(* The user of the Body and the network *)

\* connect on a live link keeps its socket and leaves the driver "connecting".
UserConnect(c) ==
    /\ Spend("user") /\ Connect /\ Fresh
    /\ phase' = "connecting" /\ pendingCode' = c
    /\ UNCHANGED <<saved, challenges, brainVars, netVars>>

UserDisconnect(forget) ==
    /\ Spend("user") /\ Stop("DISCONNECTED")
    /\ phase' = "idle" /\ toBrain' = BodyCloses(toBrain)
    /\ IF forget THEN saved' = FALSE /\ pendingCode' = "none" /\ challenges' = {}
                 ELSE UNCHANGED <<saved, pendingCode, challenges>>
    /\ UNCHANGED <<brainVars, cut, toBody>>

UserReconnect ==
    /\ left.user > 0 /\ left.reconnects > 0
    /\ left' = [left EXCEPT !.user = @ - 1, !.reconnects = @ - 1]
    /\ Reconnect /\ Fresh
    /\ phase' = "connecting" /\ pendingCode' = "none"
    /\ toBrain' = BodyCloses(toBrain)
    /\ UNCHANGED <<saved, challenges, brainVars, cut, toBody>>

\* The network drops a connection.
Cut(s) ==
    /\ Spend("cuts")
    /\ s \notin cut /\ peerPhase[s] # "none"
    /\ cut' = cut \cup {s}
    /\ UNCHANGED <<linkVars, bodyVars, brainVars, toBrain, toBody>>

\* Both ends have let go of a socket: its object may be used again.
Bury(s) ==
    /\ s \in cut /\ readyState[s] = "closed" /\ peerPhase[s] = "none"
    /\ cut' = cut \ {s}
    /\ UNCHANGED <<linkVars, bodyVars, brainVars, toBrain, toBody, left>>

BrainStep ==
    \/ \E s \in Sockets : \/ BrainReceives(s) \/ BrainSeesClose(s)
                          \/ Stuck(s) \/ Slow(s) \/ BrainHeartbeatTimeout(s)
    \/ GenerateCode \/ CodeExpires \/ Revoke \/ Remove \/ BrainRestart
BodyStep ==
    \/ \E s \in Sockets : \/ BodyReceives(s) \/ BodyOpens(s)
                          \/ BodySeesClose(s) \/ ConnectionRefused(s)
    \/ BodyPings \/ BodyTimer \/ BodyHeartbeat
UserStep ==
    \/ \E c \in {"none", "right", "wrong"} : UserConnect(c)
    \/ \E forget \in BOOLEAN : UserDisconnect(forget)
    \/ UserReconnect

Next == BrainStep \/ BodyStep \/ UserStep \/ \E s \in Sockets : Cut(s) \/ Bury(s)

Spec == Init /\ [][Next]_vars

\* Frames that arrived are handled, closes are noticed, the phase timers, the
\* heartbeats and the reconnect timer fire, an accepted connection opens.
Fairness ==
    /\ \A s \in Sockets :
         /\ WF_vars(BrainReceives(s)) /\ WF_vars(BrainSeesClose(s)) /\ WF_vars(Stuck(s))
         /\ WF_vars(BodyReceives(s)) /\ WF_vars(BodySeesClose(s)) /\ WF_vars(BodyOpens(s))
         /\ WF_vars(Bury(s))
    /\ WF_vars(BodyTimer)

FairSpec == Spec /\ Fairness
-----------------------------------------------------------------------------
(* Properties *)

FrameSet ==
    [type : {"hello", "error", "pair_accept", "pair_reject", "auth_challenge", "auth_response",
             "auth_result", "ready", "capabilities", "ping"}]
    \cup [type : {"hello"}, mode : {"auth", "pair", "revoked"}]
    \cup [type : {"pair_request"}, code : {"right", "wrong"}]
    \cup [type : {"close"}, code : Codes]
TypeOK ==
    /\ LinkTypeOK
    /\ phase \in Phases /\ saved \in BOOLEAN /\ pendingCode \in {"none", "right", "wrong"}
    /\ challenges \subseteq Sockets
    /\ peerPhase \in [Sockets -> PeerPhases] /\ brainOpen \subseteq Sockets
    /\ peer \in Sockets \cup {NoSocket} /\ status \in Statuses /\ code \in BOOLEAN
    /\ cut \subseteq Sockets
    /\ \A s \in Sockets : /\ toBrain[s] \in Seq(FrameSet)
                          /\ toBody[s] \in Seq(FrameSet)

\* "Mutual authentication precedes ready" (onLinkMessage, enterReady): the Body
\* calls itself ready only if a socket it has not seen closed is one that the
\* Brain made ready, or has ended since.
ReadyIsMutual ==
    phase = "ready" =>
      \E s \in Sockets : readyState[s] # "closed" /\ peerPhase[s] \in {"ready", "none"}

\* "A second live connection for the same body (reconnect race) replaces the
\* first" (enterReady): an open ready connection is the peer, so there is one.
OneLiveSession ==
    \A s \in brainOpen : peerPhase[s] = "ready" => peer = s

\* "The replaced socket must NOT mark the body offline ... when its close event
\* lands later" (enterReady).
ConnectedIsNotOffline == peer # NoSocket => status # "offline"

\* The Brain's books of a Body: one ready connection at most, and a registry that
\* does not call it offline meanwhile (enterReady, handleDisconnect).
SessionsAgree == TypeOK /\ OneLiveSession /\ ConnectedIsNotOffline

\* The Brain comes to know a Body only by a code, and a code only once.
CodesPayForEntries ==
    [][status = "absent" /\ status' # "absent" => code /\ ~code']_vars

\* Under the two automata the link does nothing that BodyLink does not allow, so
\* what is proved of BodyLink holds here.
ImplementsLink == LinkSpec

\* Once nobody interferes any more, the link comes to rest, ready or stopped in
\* a state that says so (onLinkMessage fails closed, scheduleReconnect retries),
\* unless /api/brain/reconnect was used: NoStorm says what happens then.
Settles ==
    [](left.reconnects = MaxReconnects)
      => <>[](phase = "ready" \/ state \in GivenUp \cup {"DISCONNECTED"})

\* "No reconnect storms" (distributed-brain.md): with the Brain reachable, the
\* link does not reconnect for ever.
NoStorm == <>[]~reconnectTimer

\* "A revoked device stays revoked" (markOffline): only its removal ends that.
RevokedStaysRevoked == [][status = "revoked" => status' \in {"revoked", "absent"}]_vars
=============================================================================
