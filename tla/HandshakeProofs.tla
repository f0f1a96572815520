---------------------------- MODULE HandshakeProofs ----------------------------
(***************************************************************************)
(* Handshake proved for any number of sockets and every bound on cuts, slow*)
(* frames, users and administrators: the Body is ready only with a Brain   *)
(* that is, the Brain's books of its connections agree, a code pays for    *)
(* every entry, and the link does nothing that BodyLink does not allow, so *)
(* that what is proved of BodyLink holds under the two automata.           *)
(***************************************************************************)
EXTENDS Handshake, SequenceTheorems, TLAPS

-----------------------------------------------------------------------------
(* The link alone, for any number of sockets and any limits *)

\* What each step needs to know of the state it starts from.
LinkInv == LinkTypeOK /\ ManualQuiet /\ OpenIsWatched

\* The cap keeps a counter in the range of the table of delays and of the
\* authentication retries.
LEMMA UpToInRange ==
    ASSUME NEW max \in Nat, NEW n \in Nat
    PROVE  UpTo(n, max) \in 0..max
  BY DEF UpTo

LEMMA LinkInvInit == LinkInit => LinkInv
  <1>1. LinkInit => CountersOK
    BY LinkAssumption DEF LinkInit, CountersOK
  <1>2. LinkInit => LinkTypeOK
    BY <1>1 DEF LinkInit, LinkTypeOK, FlagsOK, States
  <1>3. LinkInit => ManualQuiet /\ OpenIsWatched
    BY LinkAssumption DEF LinkInit, ManualQuiet, OpenIsWatched
  <1> QED BY <1>2, <1>3 DEF LinkInv

\* Closing the own socket keeps every socket's state in range, and opens none.
LEMMA CloseOwnType ==
    ASSUME LinkTypeOK
    PROVE  /\ CloseOwn \in [Sockets -> {"closed", "connecting", "open", "closing"}]
           /\ ws # NoSocket => CloseOwn[ws] # "open"
  BY DEF LinkTypeOK, FlagsOK, CountersOK, CloseOwn, InUse

\* A new socket, or the refusal of the URL, keeps the invariant when no timer
\* is left pending with the manual flag set.
LEMMA OpenSocketInv ==
    ASSUME LinkTypeOK, NEW rs, NEW timer \in BOOLEAN, NEW n \in 0..MaxAttempt,
           rs \in [Sockets -> {"closed", "connecting", "open", "closing"}],
           heartbeat' \in BOOLEAN,
           OpenSocket(rs, timer, n)
    PROVE  LinkInv'
  <1>1. CASE UrlAllowed
    <2>1. PICK s \in Sockets :
            /\ rs[s] = "closed"
            /\ ws' = s /\ readyState' = [rs EXCEPT ![s] = "connecting"]
            /\ state' = IF n > 0 THEN "RECONNECTING" ELSE "CONNECTING"
            /\ manualClose' = FALSE /\ everOpened' = FALSE /\ reconnectTimer' = timer
      BY <1>1 DEF OpenSocket
    <2>2. attempt' = n /\ UNCHANGED <<authFailures, connectedAt>>
      BY DEF OpenSocket
    <2>3. LinkTypeOK'
      BY <2>1, <2>2 DEF LinkTypeOK, FlagsOK, CountersOK, States
    <2>4. ManualQuiet' /\ OpenIsWatched'
      BY <2>1 DEF ManualQuiet, OpenIsWatched
    <2> QED BY <2>3, <2>4 DEF LinkInv
  <1>2. CASE ~UrlAllowed
    <2>1. LinkTypeOK'
      BY <1>2 DEF OpenSocket, LinkTypeOK, FlagsOK, CountersOK, States
    <2>2. ManualQuiet' /\ OpenIsWatched'
      BY <1>2 DEF OpenSocket, ManualQuiet, OpenIsWatched
    <2> QED BY <2>1, <2>2 DEF LinkInv
  <1> QED BY <1>1, <1>2

LEMMA StopInv ==
    ASSUME LinkInv, NEW st \in States, Stop(st)
    PROVE  LinkInv'
  <1>1. LinkTypeOK'
    BY CloseOwnType DEF LinkInv, LinkTypeOK, FlagsOK, CountersOK, Stop
  <1>2. ManualQuiet' /\ OpenIsWatched'
    BY DEF Stop, ManualQuiet, OpenIsWatched
  <1> QED BY <1>1, <1>2 DEF LinkInv

\* A close event frees the link of whatever socket it owns, so it breaks no
\* promise even when it is the event of a socket given up long ago.
LEMMA ClosedInv ==
    ASSUME LinkInv, NEW s \in Sockets, NEW c \in Codes, Closed(s, c)
    PROVE  LinkInv'
  <1>a. CountersOK
    BY DEF LinkInv, LinkTypeOK, FlagsOK, CountersOK
  <1>1. authFailures' \in 0..MaxAuthRetries
    <2>1. UpTo(authFailures + 1, MaxAuthRetries) \in 0..MaxAuthRetries
      BY <1>a, UpToInRange, LinkAssumption DEF CountersOK
    <2> QED BY <1>a, <2>1 DEF Closed, CountersOK
  <1>2. /\ state' \in States /\ reconnectTimer' \in BOOLEAN /\ attempt' \in 0..MaxAttempt
        /\ manualClose => ~reconnectTimer'
    <2>1. CASE manualClose
      BY <2>1 DEF Closed, LinkInv, LinkTypeOK, FlagsOK, CountersOK, ManualQuiet
    <2>2. CASE ~manualClose /\ ~AutoReconnect
      BY <2>2 DEF Closed, GiveUp, LinkInv, LinkTypeOK, FlagsOK, CountersOK, States
    <2>3. CASE ~manualClose /\ AutoReconnect
      <3>1. \/ \E st \in GivenUp : GiveUp(st)
            \/ ScheduleReconnect
        BY <2>3 DEF Closed, GivenUp
      <3>2. ASSUME NEW st \in GivenUp, GiveUp(st)
            PROVE  st \in States /\ state' = st /\ UNCHANGED <<reconnectTimer, attempt>>
        BY <3>2 DEF GiveUp, GivenUp, States
      <3>3. CASE ScheduleReconnect
        <4>1. attempt' \in 0..MaxAttempt
          <5>1. attempt' = 0 \/ attempt' = attempt
            BY <3>3 DEF ScheduleReconnect
          <5> QED BY <1>a, <5>1, LinkAssumption DEF CountersOK
        <4> QED BY <2>3, <3>3, <4>1 DEF ScheduleReconnect, States
      <3> QED BY <2>3, <3>1, <3>2, <3>3 DEF LinkInv, LinkTypeOK, FlagsOK, CountersOK
    <2> QED BY <2>1, <2>2, <2>3
  <1>3. LinkTypeOK'
    BY <1>1, <1>2 DEF Closed, TeardownSocket, LinkInv, LinkTypeOK, FlagsOK, CountersOK
  <1>4. ManualQuiet' /\ OpenIsWatched'
    BY <1>2 DEF Closed, TeardownSocket, ManualQuiet, OpenIsWatched
  <1> QED BY <1>3, <1>4 DEF LinkInv

LEMMA LinkInvStep == LinkInv /\ [LinkNext]_linkVars => LinkInv'
  <1> SUFFICES ASSUME LinkInv, [LinkNext]_linkVars PROVE LinkInv'
    OBVIOUS
  <1>1. CASE Connect
    <2>1. CASE InUse(ws) /\ manualClose' = FALSE
               /\ UNCHANGED <<ws, readyState, state, reconnectTimer, attempt, authFailures,
                              heartbeat, connectedAt, everOpened>>
      BY <2>1 DEF LinkInv, LinkTypeOK, FlagsOK, CountersOK,
           ManualQuiet, OpenIsWatched
    <2>2. CASE OpenSocket(readyState, reconnectTimer, attempt) /\ UNCHANGED heartbeat
      BY <2>2, OpenSocketInv DEF LinkInv, LinkTypeOK, FlagsOK, CountersOK
    <2> QED BY <1>1, <2>1, <2>2 DEF Connect
  <1>2. CASE Reconnect
    BY <1>2, OpenSocketInv, CloseOwnType 
       DEF Reconnect, LinkInv, LinkTypeOK, FlagsOK, CountersOK
  <1>3. CASE TimerFires
    <2> DEFINE n == UpTo(attempt + 1, MaxAttempt)
    <2>a. CountersOK
      BY DEF LinkInv, LinkTypeOK
    <2>1. n \in 0..MaxAttempt
      BY <2>a, UpToInRange, LinkAssumption DEF CountersOK
    <2>2. CASE /\ reconnectTimer' = FALSE /\ attempt' = n
               /\ UNCHANGED <<ws, readyState, state, manualClose, authFailures,
                              heartbeat, connectedAt, everOpened>>
      BY <2>1, <2>2 DEF LinkInv, LinkTypeOK, FlagsOK, CountersOK,
           ManualQuiet, OpenIsWatched
    <2>3. CASE OpenSocket(readyState, FALSE, n) /\ UNCHANGED heartbeat
      BY <2>1, <2>3, OpenSocketInv DEF LinkInv, LinkTypeOK, FlagsOK, CountersOK
    <2> QED BY <1>3, <2>2, <2>3 DEF TimerFires
  <1>4. CASE Terminate
    BY <1>4, CloseOwnType DEF Terminate, LinkInv, LinkTypeOK, FlagsOK, CountersOK,
           ManualQuiet, OpenIsWatched
  <1>5. CASE HeartbeatTimeout
    BY <1>5, CloseOwnType
       DEF HeartbeatTimeout, LinkInv, LinkTypeOK, FlagsOK, CountersOK,
           ManualQuiet, OpenIsWatched, States
  <1>6. CASE MarkConnected
    <2>1. CountersOK'
      BY <1>6, LinkAssumption DEF MarkConnected, CountersOK
    <2> QED BY <1>6, <2>1 DEF MarkConnected, LinkInv, LinkTypeOK, FlagsOK, CountersOK,
                              ManualQuiet, OpenIsWatched, States
  <1>7. CASE TimePasses
    BY <1>7 DEF TimePasses, LinkInv, LinkTypeOK, FlagsOK, CountersOK,
           ManualQuiet, OpenIsWatched
  <1>8. CASE \E st \in {"DISCONNECTED", "REVOKED", "INCOMPATIBLE"} : Stop(st)
    BY <1>8, StopInv DEF States
  <1>9. ASSUME NEW s \in Sockets, Opened(s) PROVE LinkInv'
    BY <1>9 DEF Opened, LinkInv, LinkTypeOK, FlagsOK, CountersOK,
           ManualQuiet, OpenIsWatched, States
  <1>10. ASSUME NEW s \in Sockets, TlsFailure(s) PROVE LinkInv'
    BY <1>10 DEF TlsFailure, LinkInv, LinkTypeOK, FlagsOK, CountersOK,
           ManualQuiet, OpenIsWatched, States
  <1>11. ASSUME NEW s \in Sockets, NEW c \in Codes, Closed(s, c) PROVE LinkInv'
    BY <1>11, ClosedInv
  <1>12. CASE UNCHANGED linkVars
    BY <1>12 DEF linkVars, LinkInv, LinkTypeOK, FlagsOK, CountersOK,
           ManualQuiet, OpenIsWatched
  <1> QED BY <1>1, <1>2, <1>3, <1>4, <1>5, <1>6, <1>7, <1>8, <1>9, <1>10, <1>11, <1>12
          DEF LinkNext

\* The invariant holds in every reachable state of the link, whatever the
\* protocol layer calls and whatever the network does.
THEOREM LinkInvariant == LinkSpec => []LinkInv
  BY LinkInvInit, LinkInvStep, PTL DEF LinkSpec

\* Type correctness of the link.
THEOREM LinkTypeCorrect == LinkSpec => []LinkTypeOK
  BY LinkInvariant, PTL DEF LinkInv

\* While the manual flag is set (disconnect, failClosed, a refused URL or
\* certificate), no reconnect timer is pending.
THEOREM ManualQuietAlways == LinkSpec => []ManualQuiet
  BY LinkInvariant, PTL DEF LinkInv

\* The open socket of the link is always under the heartbeat's watch.
THEOREM OpenIsWatchedAlways == LinkSpec => []OpenIsWatched
  BY LinkInvariant, PTL DEF LinkInv
-----------------------------------------------------------------------------
(* NeverStuck.  It needs to know that the heartbeat runs only while a close   *)
(* event is still to come: its timeout leaves the link DEGRADED, with nothing *)
(* of its own to wake it.                                                     *)

Pending == \E s \in Sockets : readyState[s] # "closed"
Wanted == AutoReconnect /\ ~manualClose /\ state \notin GivenUp \cup {"DISCONNECTED"}
WakeInv == (Wanted => reconnectTimer \/ Pending) /\ (heartbeat => Pending)

LEMMA WakeInvInit == LinkInit => WakeInv
  BY DEF LinkInit, WakeInv, Wanted

\* Closing the own socket leaves its close event to come.
LEMMA CloseOwnPending ==
    ASSUME LinkTypeOK, readyState' = CloseOwn, Pending
    PROVE  Pending'
  <1>1. PICK s \in Sockets : readyState[s] # "closed"
    BY DEF Pending
  <1>2. readyState'[s] # "closed"
    BY <1>1 DEF CloseOwn, LinkTypeOK
  <1> QED BY <1>1, <1>2 DEF Pending

\* A new socket is pending; a refused URL is not wanted.
LEMMA OpenSocketWakes ==
    ASSUME NEW rs, NEW timer, NEW n, OpenSocket(rs, timer, n),
           rs \in [Sockets -> {"closed", "connecting", "open", "closing"}]
    PROVE  UrlAllowed => Pending'
  <1> SUFFICES ASSUME UrlAllowed PROVE Pending'
    OBVIOUS
  <1>1. PICK s \in Sockets : readyState' = [rs EXCEPT ![s] = "connecting"]
    BY DEF OpenSocket
  <1>2. readyState'[s] = "connecting"
    BY <1>1
  <1> QED BY <1>2 DEF Pending

LEMMA WakeInvStep == LinkTypeOK /\ WakeInv /\ [LinkNext]_linkVars => WakeInv'
  <1> SUFFICES ASSUME LinkTypeOK, WakeInv, [LinkNext]_linkVars PROVE WakeInv'
    OBVIOUS
  <1>1. ASSUME NEW timer \in BOOLEAN, NEW n, OpenSocket(readyState, timer, n),
               UNCHANGED heartbeat
        PROVE  WakeInv'
    <2>1. CASE UrlAllowed
      BY <1>1, <2>1, OpenSocketWakes DEF WakeInv, LinkTypeOK
    <2>2. CASE ~UrlAllowed
      BY <1>1, <2>2 DEF OpenSocket, WakeInv, Wanted, Pending
    <2> QED BY <2>1, <2>2
  <1>2. CASE Connect
    <2>1. CASE /\ InUse(ws) /\ manualClose' = FALSE
               /\ UNCHANGED <<ws, readyState, state, reconnectTimer, attempt, authFailures,
                              heartbeat, connectedAt, everOpened>>
      BY <2>1 DEF InUse, WakeInv, Wanted, Pending, LinkTypeOK
    <2>2. CASE OpenSocket(readyState, reconnectTimer, attempt) /\ UNCHANGED heartbeat
      BY <2>2, <1>1 DEF LinkTypeOK, FlagsOK
    <2> QED BY <1>2, <2>1, <2>2 DEF Connect
  <1>3. CASE Reconnect
    <2>1. CASE UrlAllowed
      BY <1>3, <2>1, OpenSocketWakes, CloseOwnType DEF Reconnect, WakeInv
    <2>2. CASE ~UrlAllowed
      BY <1>3, <2>2 DEF Reconnect, OpenSocket, WakeInv, Wanted
    <2> QED BY <2>1, <2>2
  <1>4. CASE TimerFires
    <2> DEFINE n == UpTo(attempt + 1, MaxAttempt)
    <2>1. CASE /\ InUse(ws)
               /\ UNCHANGED <<ws, readyState, state, manualClose, authFailures,
                              heartbeat, connectedAt, everOpened>>
      BY <2>1 DEF InUse, WakeInv, Wanted, Pending, LinkTypeOK
    <2>2. CASE OpenSocket(readyState, FALSE, n) /\ UNCHANGED heartbeat
      <3> HIDE DEF n
      <3> QED BY <2>2, <1>1
    <2> QED BY <1>4, <2>1, <2>2 DEF TimerFires
  <1>5. CASE Terminate
    BY <1>5, CloseOwnPending DEF Terminate, WakeInv, Wanted
  <1>6. CASE HeartbeatTimeout
    BY <1>6, CloseOwnPending DEF HeartbeatTimeout, WakeInv, Wanted
  <1>7. CASE MarkConnected
    BY <1>7 DEF MarkConnected, WakeInv, Wanted, Pending
  <1>8. CASE TimePasses
    BY <1>8 DEF TimePasses, WakeInv, Wanted, Pending
  <1>9. CASE \E st \in {"DISCONNECTED", "REVOKED", "INCOMPATIBLE"} : Stop(st)
    BY <1>9 DEF Stop, WakeInv, Wanted
  <1>10. ASSUME NEW s \in Sockets, Opened(s) PROVE WakeInv'
    <2>1. readyState'[s] = "open"
      BY <1>10 DEF Opened, LinkTypeOK
    <2> QED BY <2>1 DEF WakeInv, Pending
  <1>11. ASSUME NEW s \in Sockets, TlsFailure(s) PROVE WakeInv'
    <2>1. readyState'[s] = "closing"
      BY <1>11 DEF TlsFailure, LinkTypeOK
    <2> QED BY <2>1 DEF WakeInv, Pending
  <1>12. ASSUME NEW s \in Sockets, NEW c \in Codes, Closed(s, c) PROVE WakeInv'
    <2>1. heartbeat' = FALSE /\ UNCHANGED manualClose
      BY <1>12 DEF Closed, TeardownSocket
    <2>2. manualClose \/ ~AutoReconnect \/ state' \in GivenUp \/ reconnectTimer'
      BY <1>12 DEF Closed, GiveUp, ScheduleReconnect, GivenUp
    <2> QED BY <2>1, <2>2 DEF WakeInv, Wanted
  <1>13. CASE UNCHANGED linkVars
    BY <1>13 DEF linkVars, WakeInv, Wanted, Pending
  <1> QED BY <1>2, <1>3, <1>4, <1>5, <1>6, <1>7, <1>8, <1>9, <1>10, <1>11, <1>12, <1>13
          DEF LinkNext

\* A link that is neither stopped nor given up always has a timer or a close
\* event to wake it, whichever sockets it let go of.
THEOREM NeverStuckAlways == LinkSpec => []NeverStuck
  <1>1. WakeInv => NeverStuck
    BY DEF WakeInv, Wanted, Pending, NeverStuck
  <1> QED BY <1>1, WakeInvInit, WakeInvStep, LinkTypeCorrect, PTL DEF LinkSpec

\* The whole promise, from its four parts.
THEOREM LinkIsAwakeAlways == LinkSpec => []LinkIsAwake
  <1>1. LinkTypeOK /\ ManualQuiet /\ NeverStuck /\ OpenIsWatched => LinkIsAwake
    BY DEF LinkIsAwake
  <1> QED BY <1>1, LinkTypeCorrect, ManualQuietAlways, NeverStuckAlways,
             OpenIsWatchedAlways, PTL

-----------------------------------------------------------------------------
(* The two automata: the inductive invariant *)

\* What the Brain sends: its hello always says what is to come.
FromBrain ==
    [type : {"error", "pair_accept", "pair_reject", "auth_challenge", "auth_response",
             "auth_result", "ready"}]
    \cup [type : {"hello"}, mode : {"auth", "pair", "revoked"}]
    \cup [type : {"close"}, code : Codes]
ChannelsOK ==
    /\ toBrain \in [Sockets -> Seq(FrameSet)]
    /\ toBody \in [Sockets -> Seq(FromBrain)]

\* The socket the link owns has its close event to come.
OwnIsInUse == ws # NoSocket => readyState[ws] # "closed"

\* The Brain sends only on sockets it has not seen closed.
OpenIsLive == \A s \in brainOpen : peerPhase[s] # "none"

\* A socket that is still connecting means nothing to the Brain.
ConnectingIsFresh ==
    \A s \in Sockets : readyState[s] = "connecting" => peerPhase[s] = "none" /\ toBody[s] = << >>

\* A ready under way is the Brain's, of a connection that is ready or has ended.
HasReady(q) == \E i \in DOMAIN q : q[i].type = "ready"
ReadyFrameIsTrue ==
    \A s \in Sockets : HasReady(toBody[s]) => peerPhase[s] \in {"ready", "none"}

\* Types of what is not the link's.
DriverTypes ==
    /\ phase \in Phases /\ saved \in BOOLEAN /\ pendingCode \in {"none", "right", "wrong"}
    /\ challenges \subseteq Sockets
BrainTypes ==
    /\ peerPhase \in [Sockets -> PeerPhases] /\ brainOpen \subseteq Sockets
    /\ peer \in Sockets \cup {NoSocket} /\ status \in Statuses /\ code \in BOOLEAN
    /\ cut \subseteq Sockets

HandshakeInv ==
    /\ LinkInv /\ DriverTypes /\ BrainTypes /\ ChannelsOK
    /\ OwnIsInUse /\ OpenIsLive /\ ConnectingIsFresh /\ ReadyFrameIsTrue
    /\ OneLiveSession /\ ConnectedIsNotOffline /\ ReadyIsMutual

-----------------------------------------------------------------------------
(* Frames *)

LEMMA PutFacts ==
    ASSUME NEW S, NEW q \in Seq(S), NEW f \in Seq(S)
    PROVE  /\ q \o f \in Seq(S)
           /\ HasReady(q \o f) => HasReady(q) \/ HasReady(f)
<1>1. /\ DOMAIN q = 1..Len(q) /\ DOMAIN f = 1..Len(f) /\ Len(q) \in Nat /\ Len(f) \in Nat
      /\ q \o f \in Seq(S) /\ DOMAIN (q \o f) = 1..(Len(q) + Len(f))
      /\ \A i \in 1..(Len(q) + Len(f)) :
           (q \o f)[i] = IF i <= Len(q) THEN q[i] ELSE f[i - Len(q)]
  BY ConcatProperties
<1>2. \A i \in 1..(Len(q) + Len(f)) : ~(i <= Len(q)) => i - Len(q) \in 1..Len(f)
  BY <1>1
<1> QED
  BY <1>1, <1>2 DEF HasReady

LEMMA AppendFacts ==
    ASSUME NEW S, NEW q \in Seq(S), NEW x \in S
    PROVE  /\ Append(q, x) \in Seq(S)
           /\ x.type # "ready" => (HasReady(Append(q, x)) => HasReady(q))
BY DEF HasReady

LEMMA GotFacts ==
    ASSUME NEW S, NEW q \in Seq(S), q # << >>
    PROVE  /\ Tail(q) \in Seq(S) /\ Head(q) \in S
           /\ HasReady(Tail(q)) => HasReady(q)
           /\ Head(q).type = "ready" => HasReady(q)
<1>1. /\ Tail(q) \in Seq(S) /\ Head(q) \in S /\ Head(q) = q[1] /\ 1 \in DOMAIN q
      /\ \A i \in DOMAIN Tail(q) : i + 1 \in DOMAIN q /\ Tail(q)[i] = q[i + 1]
  OBVIOUS
<1> QED
  BY <1>1 DEF HasReady

\* The frames of a handler that say nothing of ready.
Plain(f) == f \in Seq(FromBrain) /\ ~HasReady(f)

LEMMA PlainFrames ==
    ASSUME NEW x \in FromBrain, x.type # "ready", NEW y \in FromBrain, y.type # "ready"
    PROVE  Plain(<< >>) /\ Plain(<<x>>) /\ Plain(<<x, y>>)
<1>1. << >> \in Seq(FromBrain) /\ <<x>> \in Seq(FromBrain) /\ <<x, y>> \in Seq(FromBrain)
  OBVIOUS
<1>2. DOMAIN << >> = {} /\ DOMAIN <<x>> = {1} /\ DOMAIN <<x, y>> = {1, 2}
  OBVIOUS
<1> QED
  BY <1>1, <1>2 DEF Plain, HasReady

LEMMA PlainAppend ==
    ASSUME NEW f, Plain(f), NEW x \in FromBrain, x.type # "ready"
    PROVE  Plain(Append(f, x))
BY AppendFacts DEF Plain

LEMMA SendsFacts ==
    ASSUME HandshakeInv, NEW s \in Sockets, NEW f, Plain(f),
           UNCHANGED toBody \/ BrainSends(s, f)
    PROVE  /\ toBody' \in [Sockets -> Seq(FromBrain)]
           /\ \A t \in Sockets : readyState[t] = "connecting" => toBody'[t] = << >>
           /\ \A t \in Sockets : HasReady(toBody'[t]) => HasReady(toBody[t])
<1> DEFINE q == toBody[s]
<1>1. q \in Seq(FromBrain) /\ toBody \in [Sockets -> Seq(FromBrain)]
  BY DEF HandshakeInv, ChannelsOK
<1>2. CASE UNCHANGED toBody
  BY <1>1, <1>2 DEF HandshakeInv, ConnectingIsFresh
<1>3. CASE toBody' = [toBody EXCEPT ![s] = q \o f] /\ s \in brainOpen
  <2>1. q \o f \in Seq(FromBrain) /\ (HasReady(q \o f) => HasReady(q))
    BY <1>1, PutFacts DEF Plain
  <2>2. /\ toBody' \in [Sockets -> Seq(FromBrain)] /\ toBody'[s] = q \o f
        /\ \A t \in Sockets : t # s => toBody'[t] = toBody[t]
    BY <1>1, <1>3, <2>1
  <2>3. readyState[s] # "connecting"
    BY <1>3 DEF HandshakeInv, OpenIsLive, ConnectingIsFresh
  <2>4. SUFFICES ASSUME NEW t \in Sockets
                 PROVE  /\ readyState[t] = "connecting" => toBody'[t] = << >>
                        /\ HasReady(toBody'[t]) => HasReady(toBody[t])
    BY <2>2
  <2>5. CASE t = s
    BY <2>1, <2>2, <2>3, <2>5
  <2>6. CASE t # s
    BY <2>2, <2>6 DEF HandshakeInv, ConnectingIsFresh
  <2> QED
    BY <2>5, <2>6
<1> QED
  BY <1>2, <1>3 DEF BrainSends, Put

-----------------------------------------------------------------------------
(* The Brain's steps *)

\* What a step of the Brain may do, and what then holds again.
LEMMA BrainKeeps ==
    ASSUME HandshakeInv, UNCHANGED <<linkVars, bodyVars>>, BrainTypes', ChannelsOK',
           OpenIsLive', OneLiveSession', ConnectedIsNotOffline',
           \A t \in Sockets :
             /\ peerPhase[t] = "none" => peerPhase'[t] = "none"
             /\ peerPhase[t] = "ready" => peerPhase'[t] \in {"ready", "none"}
             /\ readyState[t] = "connecting" => toBody'[t] = << >>
             /\ HasReady(toBody'[t]) => HasReady(toBody[t]) \/ peerPhase'[t] = "ready"
    PROVE  HandshakeInv'
<1>1. UNCHANGED <<ws, readyState, state, manualClose, reconnectTimer, attempt,
                  authFailures, heartbeat, connectedAt, everOpened, phase, saved, pendingCode, challenges>>
  BY DEF linkVars, bodyVars
<1>2. LinkInv'
  <2>1. LinkInv /\ [LinkNext]_linkVars
    BY DEF HandshakeInv
  <2> QED
    BY <2>1, LinkInvStep
<1>3. DriverTypes' /\ OwnIsInUse'
  BY <1>1 DEF HandshakeInv, DriverTypes, OwnIsInUse
<1>4. ConnectingIsFresh' /\ ReadyFrameIsTrue'
  BY <1>1 DEF HandshakeInv, ConnectingIsFresh, ReadyFrameIsTrue
<1>5. ReadyIsMutual'
  BY <1>1 DEF HandshakeInv, ReadyIsMutual
<1> QED
  BY <1>2, <1>3, <1>4, <1>5 DEF HandshakeInv

\* A handler that leaves the peer alone and takes at most this connection on.
LEMMA HandlerKeeps ==
    ASSUME HandshakeInv, UNCHANGED <<linkVars, bodyVars, cut, peer>>,
           NEW s \in Sockets, NEW f, Plain(f), UNCHANGED toBody \/ BrainSends(s, f),
           toBrain' \in [Sockets -> Seq(FrameSet)],
           brainOpen' = brainOpen \/ brainOpen' = brainOpen \ {s},
           \/ UNCHANGED peerPhase
           \/ /\ peerPhase[s] \in PreReady
              /\ \E p \in PreReady : peerPhase' = [peerPhase EXCEPT ![s] = p],
           status' \in {status, "online", "revoked", "absent"}, code' \in BOOLEAN
    PROVE  HandshakeInv'
<1>1. /\ peerPhase' \in [Sockets -> PeerPhases]
      /\ \A t \in Sockets :
           \/ peerPhase'[t] = peerPhase[t]
           \/ peerPhase[t] \in PreReady /\ peerPhase'[t] \in PreReady
  BY DEF HandshakeInv, BrainTypes, PeerPhases
<1>2. BrainTypes'
  BY <1>1 DEF HandshakeInv, BrainTypes, Statuses
<1>3. ChannelsOK'
  BY SendsFacts DEF ChannelsOK
<1>4. "none" \notin PreReady /\ "ready" \notin PreReady
  BY DEF PreReady
<1>5. OpenIsLive' /\ OneLiveSession' /\ ConnectedIsNotOffline'
  BY <1>1, <1>4
     DEF HandshakeInv, BrainTypes, OpenIsLive, OneLiveSession, ConnectedIsNotOffline
<1> QED
  BY <1>1, <1>2, <1>3, <1>4, <1>5, SendsFacts, BrainKeeps

LEMMA EndsIsSends ==
    ASSUME NEW s, NEW f, NEW c \in Codes, Plain(f), BrainEnds(s, f, c)
    PROVE  /\ Plain(Append(f, CloseFrame(c))) /\ BrainSends(s, Append(f, CloseFrame(c)))
           /\ brainOpen' = brainOpen \ {s}
<1>1. CloseFrame(c) \in FromBrain /\ CloseFrame(c).type # "ready"
  BY DEF CloseFrame, FromBrain
<1> QED
  BY <1>1, PlainAppend DEF BrainEnds

LEMMA FrameFacts ==
    /\ \A type \in {"error", "pair_accept", "pair_reject", "auth_challenge", "auth_response",
                    "auth_result"} :
         F(type) \in FromBrain /\ F(type).type # "ready"
    /\ \A mode \in {"auth", "pair", "revoked"} :
         Hello(mode) \in FromBrain /\ Hello(mode).type # "ready"
    /\ F("ready") \in FromBrain /\ F("hello") \in FrameSet /\ F("ping") \in FrameSet
    /\ F("capabilities") \in FrameSet
    /\ "policy" \in Codes /\ "revoked" \in Codes /\ "other" \in Codes
BY DEF F, Hello, FromBrain, FrameSet, Codes

\* Handlers of frames that do not make a connection ready.
LEMMA HandlersKeep ==
    ASSUME HandshakeInv, UNCHANGED <<linkVars, bodyVars, cut>>, NEW s \in Sockets,
           peerPhase[s] # "none", toBrain' \in [Sockets -> Seq(FrameSet)],
           \/ peerPhase[s] = "hello" /\ HandleHello(s)
           \/ peerPhase[s] = "pairing" /\ \E f : HandlePairRequest(s, f)
           \/ peerPhase[s] = "auth-body" /\ HandleBodyAuthResponse(s)
           \/ BrainSends(s, <<F("auth_response")>>) /\ UNCHANGED brainVars
           \/ HandleCapabilities
           \/ RejectPhaseMessage(s)
    PROVE  HandshakeInv'
<1>1. /\ {"hello", "pairing", "auth-body", "auth-brain"} \subseteq PreReady
      /\ code \in BOOLEAN /\ status \in Statuses
  BY DEF PreReady, HandshakeInv, BrainTypes
<1>2. Plain(<< >>) /\ Plain(<<F("error")>>) /\ Plain(<<F("pair_reject")>>)
      /\ Plain(<<F("auth_result")>>) /\ Plain(<<F("auth_response")>>) /\ Plain(<<Hello("pair")>>)
      /\ Plain(<<Hello("revoked"), F("error")>>) /\ Plain(<<Hello("auth"), F("auth_challenge")>>)
      /\ Plain(<<F("pair_accept"), F("auth_challenge")>>)
  BY FrameFacts, PlainFrames
<1>3. ASSUME NEW f, Plain(f), NEW c \in Codes, BrainEnds(s, f, c),
             UNCHANGED <<peerPhase, peer, status>>, code' \in BOOLEAN
      PROVE  HandshakeInv'
  BY <1>3, EndsIsSends, HandlerKeeps
<1>4. ASSUME NEW f, Plain(f), BrainSends(s, f), UNCHANGED <<peer, brainOpen>>,
             peerPhase[s] \in PreReady, NEW p \in PreReady,
             peerPhase' = [peerPhase EXCEPT ![s] = p],
             status' \in {status, "online"}, code' \in BOOLEAN
      PROVE  HandshakeInv'
  BY <1>4, HandlerKeeps
<1>5. CASE peerPhase[s] = "hello" /\ HandleHello(s)
  <2>1. CASE status = "revoked"
    BY <1>1, <1>2, <1>3, <1>5, <2>1, FrameFacts DEF HandleHello
  <2>2. CASE status = "absent"
    BY <1>1, <1>2, <1>4, <1>5, <2>2 DEF HandleHello
  <2>3. CASE status \notin {"revoked", "absent"}
    BY <1>1, <1>2, <1>4, <1>5, <2>3 DEF HandleHello
  <2> QED
    BY <2>1, <2>2, <2>3
<1>6. CASE peerPhase[s] = "pairing" /\ \E f : HandlePairRequest(s, f)
  <2>1. PICK f : HandlePairRequest(s, f)
    BY <1>6
  <2>2. CASE code /\ f.code = "right"
    BY <1>1, <1>2, <1>4, <1>6, <2>1, <2>2 DEF HandlePairRequest, RegisterPair
  <2>3. CASE ~(code /\ f.code = "right")
    BY <1>1, <1>2, <1>3, <2>1, <2>3, FrameFacts DEF HandlePairRequest
  <2> QED
    BY <2>2, <2>3
<1>7. CASE peerPhase[s] = "auth-body" /\ HandleBodyAuthResponse(s)
  <2>1. CASE status = "absent"
    BY <1>1, <1>2, <1>3, <1>7, <2>1, FrameFacts DEF HandleBodyAuthResponse
  <2>2. CASE status # "absent"
    BY <1>1, <1>2, <1>4, <1>7, <2>2 DEF HandleBodyAuthResponse
  <2> QED
    BY <2>1, <2>2
<1>8. CASE BrainSends(s, <<F("auth_response")>>) /\ UNCHANGED brainVars
  BY <1>1, <1>2, <1>8, HandlerKeeps DEF brainVars
<1>9. CASE HandleCapabilities
  BY <1>1, <1>2, <1>9, HandlerKeeps DEF HandleCapabilities, RegisterPair
<1>10. CASE RejectPhaseMessage(s)
  <2>1. CASE peerPhase[s] = "ready"
    BY <1>1, <1>2, <1>10, <2>1, HandlerKeeps DEF RejectPhaseMessage
  <2>2. CASE peerPhase[s] # "ready"
    BY <1>1, <1>2, <1>3, <1>10, <2>2, FrameFacts DEF RejectPhaseMessage
  <2> QED
    BY <2>1, <2>2
<1> QED
  BY <1>5, <1>6, <1>7, <1>8, <1>9, <1>10

LEMMA EnterReadyKeeps ==
    ASSUME HandshakeInv, UNCHANGED <<linkVars, bodyVars, cut>>, NEW s \in Sockets,
           peerPhase[s] = "auth-brain", toBrain' \in [Sockets -> Seq(FrameSet)], EnterReady(s)
    PROVE  HandshakeInv'
<1> DEFINE old == IF peer \in brainOpen \ {s} THEN {peer} ELSE {}
           x == CloseFrame("other")
           y == F("ready")
<1>1. /\ peerPhase' = [peerPhase EXCEPT ![s] = "ready"] /\ peer' = s /\ code' = code
      /\ status' = IF status \in {"online", "offline"} THEN "online" ELSE status
      /\ brainOpen' = brainOpen \ old
      /\ toBody' = [t \in Sockets |->
                      CASE t \in cut -> toBody[t]
                        [] t \in old \ cut -> Append(toBody[t], x)
                        [] t = s /\ s \in brainOpen \ cut -> Append(toBody[t], y)
                        [] OTHER -> toBody[t]]
  BY DEF EnterReady
<1>2. x \in FromBrain /\ x.type # "ready" /\ y \in FromBrain
  BY FrameFacts DEF x, CloseFrame, FromBrain
<1>3. old \subseteq brainOpen /\ brainOpen \subseteq Sockets /\ s \notin old
  BY DEF HandshakeInv, BrainTypes
<1> HIDE DEF x, y
<1>4. \A t \in Sockets :
        /\ toBody'[t] \in Seq(FromBrain)
        /\ t # s => (HasReady(toBody'[t]) => HasReady(toBody[t]))
        /\ readyState[t] = "connecting" => toBody'[t] = << >>
  <2> TAKE t \in Sockets
  <2>1. toBody[t] \in Seq(FromBrain)
    BY DEF HandshakeInv, ChannelsOK
  <2>2. /\ Append(toBody[t], x) \in Seq(FromBrain) /\ Append(toBody[t], y) \in Seq(FromBrain)
        /\ HasReady(Append(toBody[t], x)) => HasReady(toBody[t])
    BY <1>2, <2>1, AppendFacts
  <2>3. readyState[t] = "connecting" => t \notin brainOpen /\ toBody[t] = << >>
    BY DEF HandshakeInv, ConnectingIsFresh, OpenIsLive
  <2> HIDE DEF old
  <2>4. \/ toBody'[t] = toBody[t]
        \/ t \in old /\ toBody'[t] = Append(toBody[t], x)
        \/ t = s /\ s \in brainOpen /\ toBody'[t] = Append(toBody[t], y)
    BY <1>1
  <2> QED
    BY <1>3, <2>1, <2>2, <2>3, <2>4
<1>5. ChannelsOK'
  BY <1>1, <1>4 DEF ChannelsOK
<1>6. /\ peerPhase' \in [Sockets -> PeerPhases] /\ peerPhase'[s] = "ready"
      /\ \A t \in Sockets : t # s => peerPhase'[t] = peerPhase[t]
  BY <1>1 DEF HandshakeInv, BrainTypes, PeerPhases
<1>7. BrainTypes'
  BY <1>1, <1>3, <1>6 DEF HandshakeInv, BrainTypes, Statuses
<1>8. OpenIsLive' /\ ConnectedIsNotOffline'
  BY <1>1, <1>3, <1>6 DEF HandshakeInv, OpenIsLive, ConnectedIsNotOffline
<1>9. OneLiveSession'
  BY <1>1, <1>3, <1>6 DEF HandshakeInv, OneLiveSession
<1> QED
  BY <1>4, <1>5, <1>6, <1>7, <1>8, <1>9, BrainKeeps

LEMMA GotKeeps ==
    ASSUME HandshakeInv, NEW s \in Sockets, toBrain[s] # << >>, toBrain' = Got(toBrain, s)
    PROVE  toBrain' \in [Sockets -> Seq(FrameSet)]
<1>1. toBrain \in [Sockets -> Seq(FrameSet)]
  BY DEF HandshakeInv, ChannelsOK
<1>2. Tail(toBrain[s]) \in Seq(FrameSet)
  BY <1>1, GotFacts
<1> QED
  BY <1>1, <1>2 DEF Got

LEMMA BrainReceivesKeeps ==
    ASSUME HandshakeInv, NEW s \in Sockets, BrainReceives(s)
    PROVE  HandshakeInv'
<1> DEFINE f == Head(toBrain[s])
<1>1. /\ UNCHANGED <<linkVars, bodyVars, cut>> /\ peerPhase[s] # "none"
      /\ toBrain' \in [Sockets -> Seq(FrameSet)]
  BY GotKeeps DEF BrainReceives
<1>2. \/ peerPhase[s] = "hello" /\ HandleHello(s)
      \/ peerPhase[s] = "pairing" /\ HandlePairRequest(s, f)
      \/ peerPhase[s] = "auth-body" /\ HandleBodyAuthResponse(s)
      \/ BrainSends(s, <<F("auth_response")>>) /\ UNCHANGED brainVars
      \/ peerPhase[s] = "auth-brain" /\ EnterReady(s)
      \/ HandleCapabilities
      \/ RejectPhaseMessage(s)
  BY DEF BrainReceives
<1> QED
  BY <1>1, <1>2, HandlersKeep, EnterReadyKeeps

\* The end of a connection at the Brain, which may have been the peer's.
LEMMA EndKeeps ==
    ASSUME HandshakeInv, UNCHANGED <<linkVars, bodyVars, cut, code>>,
           NEW s \in Sockets, NEW f, Plain(f), UNCHANGED toBody \/ BrainSends(s, f),
           toBrain' \in [Sockets -> Seq(FrameSet)], brainOpen' = brainOpen \ {s},
           UNCHANGED peerPhase \/ peerPhase' = [peerPhase EXCEPT ![s] = "none"],
           HandleDisconnect(s)
    PROVE  HandshakeInv'
<1>1. /\ peerPhase' \in [Sockets -> PeerPhases]
      /\ \A t \in Sockets : peerPhase'[t] = peerPhase[t] \/ (t = s /\ peerPhase'[t] = "none")
  BY DEF HandshakeInv, BrainTypes, PeerPhases
<1>2. /\ peer' = IF peer = s THEN NoSocket ELSE peer
      /\ status' \in {status, "offline"} /\ (peer' # NoSocket => status' = status)
  BY LinkAssumption DEF HandleDisconnect
<1>3. BrainTypes'
  BY <1>1, <1>2 DEF HandshakeInv, BrainTypes, Statuses
<1>4. ChannelsOK'
  BY SendsFacts DEF ChannelsOK
<1>5. OpenIsLive' /\ OneLiveSession' /\ ConnectedIsNotOffline'
  BY <1>1, <1>2
     DEF HandshakeInv, BrainTypes, OpenIsLive, OneLiveSession, ConnectedIsNotOffline
<1> QED
  BY <1>1, <1>3, <1>4, <1>5, SendsFacts, BrainKeeps

LEMMA BrainSeesCloseKeeps ==
    ASSUME HandshakeInv, NEW s \in Sockets, BrainSeesClose(s)
    PROVE  HandshakeInv'
<1> DEFINE f == IF s \in cut THEN << >> ELSE <<CloseFrame(Head(toBrain[s]).code)>>
<1>1. /\ UNCHANGED <<linkVars, bodyVars, code, cut>> /\ BrainSends(s, f)
      /\ brainOpen' = brainOpen \ {s} /\ HandleDisconnect(s)
      /\ peerPhase' = [peerPhase EXCEPT ![s] = "none"]
      /\ toBrain' = [toBrain EXCEPT ![s] = << >>]
  BY DEF BrainSeesClose
<1>2. Plain(f)
  <2>1. CASE s \in cut
    BY <2>1, FrameFacts, PlainFrames
  <2>2. CASE s \notin cut
    <3>1. toBrain[s] \in Seq(FrameSet) /\ toBrain[s] # << >> /\ Head(toBrain[s]).type = "close"
      BY <2>2 DEF BrainSeesClose, HandshakeInv, ChannelsOK
    <3>2. Head(toBrain[s]).code \in Codes
      BY <3>1, GotFacts DEF FrameSet
    <3>3. CloseFrame(Head(toBrain[s]).code) \in FromBrain /\ CloseFrame(Head(toBrain[s]).code).type # "ready"
      BY <3>2 DEF CloseFrame, FromBrain
    <3> QED
      BY <2>2, <3>3, PlainFrames
  <2> QED
    BY <2>1, <2>2
<1> HIDE DEF f
<1>3. toBrain' \in [Sockets -> Seq(FrameSet)]
  <2>1. << >> \in Seq(FrameSet)
    OBVIOUS
  <2> QED
    BY <1>1, <2>1 DEF HandshakeInv, ChannelsOK
<1> QED
  BY <1>1, <1>2, <1>3, EndKeeps

LEMMA TimersKeep ==
    ASSUME HandshakeInv, NEW s \in Sockets, PhaseTimeout(s) \/ BrainHeartbeatTimeout(s)
    PROVE  HandshakeInv'
<1>1. toBrain \in [Sockets -> Seq(FrameSet)] /\ code \in BOOLEAN
  BY DEF HandshakeInv, ChannelsOK, BrainTypes
<1>2. CASE PhaseTimeout(s)
  <2>1. /\ BrainEnds(s, <<F("error")>>, "policy")
        /\ UNCHANGED <<linkVars, bodyVars, peerPhase, peer, status, code, cut, toBrain>>
    BY <1>2 DEF PhaseTimeout
  <2>2. Plain(<<F("error")>>) /\ "policy" \in Codes
    BY FrameFacts, PlainFrames
  <2> QED
    BY <1>1, <2>1, <2>2, EndsIsSends, HandlerKeeps
<1>3. CASE BrainHeartbeatTimeout(s)
  <2>1. /\ brainOpen' = brainOpen \ {s} /\ HandleDisconnect(s)
        /\ UNCHANGED <<linkVars, bodyVars, peerPhase, code, cut, toBrain, toBody>>
    BY <1>3 DEF BrainHeartbeatTimeout, netVars
  <2>2. Plain(<< >>)
    BY FrameFacts, PlainFrames
  <2> QED
    BY <1>1, <2>1, <2>2, EndKeeps
<1> QED
  BY <1>2, <1>3

LEMMA AdministratorKeeps ==
    ASSUME HandshakeInv, GenerateCode \/ CodeExpires \/ Revoke \/ Remove
    PROVE  HandshakeInv'
<1>1. /\ toBrain \in [Sockets -> Seq(FrameSet)] /\ code \in BOOLEAN
      /\ toBody \in [Sockets -> Seq(FromBrain)]
  BY DEF HandshakeInv, ChannelsOK, BrainTypes
<1>2. Plain(<< >>)
  BY FrameFacts, PlainFrames
<1>3. ASSUME UNCHANGED <<linkVars, bodyVars, peerPhase, brainOpen, peer, cut, toBrain, toBody>>,
             status' \in {status, "revoked", "absent"}, code' \in BOOLEAN
      PROVE  HandshakeInv'
  <2>1. BrainTypes' /\ ChannelsOK'
    BY <1>1, <1>3 DEF HandshakeInv, BrainTypes, Statuses, ChannelsOK
  <2>2. OpenIsLive' /\ OneLiveSession' /\ ConnectedIsNotOffline'
    BY <1>3 DEF HandshakeInv, OpenIsLive, OneLiveSession, ConnectedIsNotOffline
  <2>3. \A t \in Sockets : readyState[t] = "connecting" => toBody[t] = << >>
    BY DEF HandshakeInv, ConnectingIsFresh
  <2> QED
    BY <1>3, <2>1, <2>2, <2>3, BrainKeeps
<1>4. ASSUME NEW c \in Codes, EndPeer(c), status' \in {"revoked", "absent"},
             UNCHANGED <<linkVars, bodyVars, peerPhase, peer, code, cut, toBrain>>
      PROVE  HandshakeInv'
  <2>1. CASE peer \in brainOpen
    <3>1. peer \in Sockets /\ BrainEnds(peer, << >>, c)
      BY <1>4, <2>1 DEF EndPeer, HandshakeInv, BrainTypes
    <3> QED
      BY <1>1, <1>2, <1>4, <3>1, EndsIsSends, HandlerKeeps
  <2>2. CASE peer \notin brainOpen
    BY <1>1, <1>3, <1>4, <2>2 DEF EndPeer
  <2> QED
    BY <2>1, <2>2
<1>5. CASE GenerateCode \/ CodeExpires
  BY <1>3, <1>5 DEF GenerateCode, CodeExpires, netVars
<1>6. CASE Revoke \/ Remove
  BY <1>4, <1>6, FrameFacts DEF Revoke, Remove
<1> QED
  BY <1>5, <1>6

LEMMA BrainRestartKeeps ==
    ASSUME HandshakeInv, BrainRestart
    PROVE  HandshakeInv'
<1>1. /\ UNCHANGED <<linkVars, bodyVars, status, toBody>>
      /\ cut' = cut \cup {s \in Sockets : peerPhase[s] # "none"}
      /\ peerPhase' = [s \in Sockets |-> "none"]
      /\ brainOpen' = {} /\ peer' = NoSocket /\ code' = FALSE
      /\ toBrain' = [s \in Sockets |-> << >>]
  BY DEF BrainRestart
<1>2. << >> \in Seq(FrameSet)
  OBVIOUS
<1>3. BrainTypes' /\ ChannelsOK'
  BY <1>1, <1>2 DEF HandshakeInv, BrainTypes, ChannelsOK, PeerPhases
<1>4. OpenIsLive' /\ OneLiveSession' /\ ConnectedIsNotOffline'
  BY <1>1 DEF OpenIsLive, OneLiveSession, ConnectedIsNotOffline
<1>5. \A t \in Sockets : readyState[t] = "connecting" => toBody[t] = << >>
  BY DEF HandshakeInv, ConnectingIsFresh
<1> QED
  BY <1>1, <1>3, <1>4, <1>5, BrainKeeps

-----------------------------------------------------------------------------
(* The Body's steps *)

\* Under the automata the link only does what BodyLink lets it do.
LEMMA LinkOnly ==
    ASSUME ChannelsOK, [Next]_vars
    PROVE  [LinkNext]_linkVars
<1>1. ASSUME NEW s \in Sockets, BodySeesClose(s) PROVE LinkNext
  <2>1. CASE /\ toBody[s] # << >> /\ Head(toBody[s]).type = "close"
             /\ Closed(s, Head(toBody[s]).code)
    <3>1. Head(toBody[s]) \in FromBrain
      BY <2>1, GotFacts DEF ChannelsOK
    <3>2. Head(toBody[s]).code \in Codes
      BY <2>1, <3>1 DEF FromBrain
    <3> QED
      BY <2>1, <3>2 DEF LinkNext
  <2>2. CASE Closed(s, "other")
    BY <2>2, FrameFacts DEF LinkNext
  <2> QED
    BY <1>1, <2>1, <2>2 DEF BodySeesClose
<1>2. ASSUME NEW s \in Sockets, BodyReceives(s) PROVE [LinkNext]_linkVars
  <2> DEFINE f == Head(toBody[s])
  <2>1. \/ Ignore \/ (f.type = "hello" /\ HandleBrainHello(s, f)) \/ HandlePairAccept
        \/ RespondToBrainChallenge \/ HandleAuthResult \/ HandleAuthResponse(s)
        \/ HandleReady \/ Drop(s)
    BY <1>2 DEF BodyReceives
  <2>3. f \in FromBrain
    BY <1>2, GotFacts DEF ChannelsOK, BodyReceives
  <2>4. f.type = "hello" => f.mode \in {"auth", "pair", "revoked"}
    BY <2>3 DEF FromBrain
  <2> HIDE DEF f
  <2>2. UNCHANGED linkVars \/ Stop("DISCONNECTED") \/ Stop("REVOKED") \/ MarkConnected
    BY <2>1, <2>4 DEF Ignore, HandleBrainHello, HandlePairAccept, RespondToBrainChallenge,
                HandleAuthResult, HandleAuthResponse, HandleReady, Drop, LinkIdle
  <2> QED
    BY <2>2 DEF LinkNext
<1>3. ASSUME NEW s \in Sockets, BodyOpens(s) \/ ConnectionRefused(s) PROVE LinkNext
  BY <1>3, FrameFacts DEF BodyOpens, ConnectionRefused, LinkNext
<1>4. ASSUME BodyTimer \/ BodyHeartbeat \/ UserStep PROVE LinkNext
  BY <1>4 DEF BodyTimer, BodyHeartbeat, UserStep, UserConnect, UserDisconnect, UserReconnect, LinkNext
<1>5. ASSUME BodyPings \/ BrainStep \/ \E s \in Sockets : Cut(s) \/ Bury(s)
      PROVE  UNCHANGED linkVars
  BY <1>5 DEF BodyPings, BrainStep, Cut, Bury, BrainReceives, BrainSeesClose, Stuck, Slow, PhaseTimeout,
              BrainHeartbeatTimeout, GenerateCode, CodeExpires, Revoke, Remove, BrainRestart
<1> QED
  BY <1>1, <1>2, <1>3, <1>4, <1>5 DEF Next, BodyStep, vars

\* No socket begins to connect or is seen closed.
SocketsStay ==
    /\ \A t \in Sockets :
         /\ readyState'[t] = "connecting" => readyState[t] = "connecting"
         /\ readyState'[t] = "closed" => readyState[t] = "closed"
    /\ ws' \in {ws, NoSocket}

\* A socket may begin to connect, one that means nothing to anybody.
SocketsOpen ==
    /\ \A t \in Sockets :
         /\ readyState'[t] = "connecting" =>
              readyState[t] = "connecting" \/ (peerPhase[t] = "none" /\ toBody[t] = << >>)
         /\ readyState'[t] = "closed" => readyState[t] = "closed"
    /\ ws' # NoSocket => readyState'[ws'] # "closed"

LEMMA LinkStays ==
    ASSUME HandshakeInv,
           \/ \E st : Stop(st)
           \/ HeartbeatTimeout \/ MarkConnected \/ UNCHANGED linkVars
    PROVE  SocketsStay
<1>1. readyState \in [Sockets -> {"closed", "connecting", "open", "closing"}]
  BY DEF HandshakeInv, LinkInv, LinkTypeOK
<1>2. \A t \in Sockets : CloseOwn[t] \in {readyState[t], "closing"}
  BY <1>1 DEF CloseOwn
<1>3. (readyState' = CloseOwn \/ readyState' = readyState) /\ ws' \in {ws, NoSocket}
  BY DEF Stop, HeartbeatTimeout, MarkConnected, linkVars
<1> QED
  BY <1>1, <1>2, <1>3 DEF SocketsStay

LEMMA LinkOpens ==
    ASSUME HandshakeInv, Connect \/ Reconnect \/ TimerFires, Fresh
    PROVE  SocketsOpen
<1>1. /\ readyState \in [Sockets -> {"closed", "connecting", "open", "closing"}]
      /\ ws \in Sockets \cup {NoSocket} /\ (ws # NoSocket => readyState[ws] # "closed")
  BY DEF HandshakeInv, LinkInv, LinkTypeOK, OwnIsInUse
<1>2. /\ CloseOwn \in [Sockets -> {"closed", "connecting", "open", "closing"}]
      /\ \A t \in Sockets : CloseOwn[t] \in {readyState[t], "closing"}
  BY <1>1 DEF CloseOwn
<1>3. CASE UNCHANGED <<ws, readyState>>
  BY <1>1, <1>3 DEF SocketsOpen
<1>4. ASSUME NEW rs \in [Sockets -> {"closed", "connecting", "open", "closing"}],
             \A t \in Sockets : rs[t] \in {readyState[t], "closing"},
             NEW timer, NEW n, OpenSocket(rs, timer, n)
      PROVE  SocketsOpen
  <2>1. CASE UrlAllowed
    <3>1. PICK s \in Sockets : /\ rs[s] = "closed" /\ ws' = s
                               /\ readyState' = [rs EXCEPT ![s] = "connecting"]
      BY <1>4, <2>1 DEF OpenSocket
    <3>2. readyState[s] = "closed" /\ s # ws
      BY <1>1, <1>4, <3>1, LinkAssumption
    <3>3. peerPhase[s] = "none" /\ toBody[s] = << >>
      BY <3>1, <3>2 DEF Fresh
    <3>4. readyState'[s] = "connecting" /\ \A t \in Sockets : t # s => readyState'[t] = rs[t]
      BY <1>4, <3>1
    <3> QED
      BY <1>4, <3>1, <3>3, <3>4, LinkAssumption DEF SocketsOpen
  <2>2. CASE ~UrlAllowed
    BY <1>4, <2>2 DEF OpenSocket, SocketsOpen
  <2> QED
    BY <2>1, <2>2
<1>5. CASE OpenSocket(readyState, reconnectTimer, attempt)
  BY <1>1, <1>4, <1>5
<1>6. CASE OpenSocket(CloseOwn, FALSE, attempt)
  BY <1>2, <1>4, <1>6
<1>7. CASE \E n : OpenSocket(readyState, FALSE, n)
  BY <1>1, <1>4, <1>7
<1> QED
  BY <1>3, <1>5, <1>6, <1>7 DEF Connect, Reconnect, TimerFires

\* What a step of the Body may do, and what then holds again.
LEMMA BodyKeeps ==
    ASSUME HandshakeInv, [Next]_vars, UNCHANGED brainVars, cut' \subseteq Sockets,
           DriverTypes', ChannelsOK', OwnIsInUse',
           \A t \in Sockets :
             /\ readyState'[t] = "connecting" =>
                  readyState[t] = "connecting" \/ (peerPhase[t] = "none" /\ toBody[t] = << >>)
             /\ toBody[t] = << >> => toBody'[t] = << >>
             /\ HasReady(toBody'[t]) => HasReady(toBody[t]),
           ReadyIsMutual'
    PROVE  HandshakeInv'
<1>1. LinkInv'
  BY LinkOnly, LinkInvStep DEF HandshakeInv
<1>2. UNCHANGED <<peerPhase, brainOpen, peer, status, code>>
  BY DEF brainVars
<1>3. BrainTypes' /\ OpenIsLive' /\ OneLiveSession' /\ ConnectedIsNotOffline'
  BY <1>2 DEF HandshakeInv, BrainTypes, OpenIsLive, OneLiveSession, ConnectedIsNotOffline
<1>4. ConnectingIsFresh' /\ ReadyFrameIsTrue'
  BY <1>2 DEF HandshakeInv, ConnectingIsFresh, ReadyFrameIsTrue
<1> QED
  BY <1>1, <1>3, <1>4 DEF HandshakeInv

LEMMA StayKeeps ==
    ASSUME HandshakeInv, [Next]_vars, SocketsStay \/ SocketsOpen,
           UNCHANGED brainVars, cut' \subseteq Sockets, DriverTypes',
           toBrain' \in [Sockets -> Seq(FrameSet)],
           UNCHANGED toBody \/ \E s \in Sockets : toBody[s] # << >> /\ toBody' = Got(toBody, s),
           phase' = "ready" =>
             phase = "ready"
             \/ \E s \in Sockets : readyState[s] # "closed" /\ peerPhase[s] \in {"ready", "none"}
    PROVE  HandshakeInv'
<1>1. toBody \in [Sockets -> Seq(FromBrain)]
  BY DEF HandshakeInv, ChannelsOK
<1>2. /\ toBody' \in [Sockets -> Seq(FromBrain)]
      /\ \A t \in Sockets : /\ toBody[t] = << >> => toBody'[t] = << >>
                            /\ HasReady(toBody'[t]) => HasReady(toBody[t])
  <2>1. ASSUME NEW s \in Sockets, toBody[s] # << >>, toBody' = [toBody EXCEPT ![s] = Tail(toBody[s])]
        PROVE  /\ toBody' \in [Sockets -> Seq(FromBrain)]
               /\ \A t \in Sockets : /\ toBody[t] = << >> => toBody'[t] = << >>
                                     /\ HasReady(toBody'[t]) => HasReady(toBody[t])
    <3>1. Tail(toBody[s]) \in Seq(FromBrain) /\ (HasReady(Tail(toBody[s])) => HasReady(toBody[s]))
      BY <1>1, <2>1, GotFacts
    <3>2. /\ toBody' \in [Sockets -> Seq(FromBrain)] /\ toBody'[s] = Tail(toBody[s])
          /\ \A t \in Sockets : t # s => toBody'[t] = toBody[t]
      BY <1>1, <2>1, <3>1
    <3>3. SUFFICES ASSUME NEW t \in Sockets
                   PROVE  /\ toBody[t] = << >> => toBody'[t] = << >>
                          /\ HasReady(toBody'[t]) => HasReady(toBody[t])
      BY <3>2
    <3>4. CASE t = s
      BY <2>1, <3>1, <3>2, <3>4
    <3>5. CASE t # s
      BY <3>2, <3>5
    <3> QED
      BY <3>4, <3>5
  <2> QED
    BY <1>1, <2>1 DEF Got
<1>3. ChannelsOK'
  BY <1>2 DEF ChannelsOK
<1>4. OwnIsInUse'
  <2>1. CASE SocketsStay
    BY <2>1 DEF SocketsStay, HandshakeInv, OwnIsInUse, LinkInv, LinkTypeOK
  <2>2. CASE SocketsOpen
    BY <2>2 DEF SocketsOpen, OwnIsInUse
  <2> QED
    BY <2>1, <2>2
<1>5. \A t \in Sockets :
        /\ readyState'[t] = "connecting" =>
             readyState[t] = "connecting" \/ (peerPhase[t] = "none" /\ toBody[t] = << >>)
        /\ readyState'[t] = "closed" => readyState[t] = "closed"
  BY DEF SocketsStay, SocketsOpen
<1>6. ReadyIsMutual'
  <2> SUFFICES ASSUME phase' = "ready"
               PROVE  \E s \in Sockets : readyState'[s] # "closed" /\ peerPhase'[s] \in {"ready", "none"}
    BY DEF ReadyIsMutual
  <2>1. PICK s \in Sockets : readyState[s] # "closed" /\ peerPhase[s] \in {"ready", "none"}
    BY DEF HandshakeInv, ReadyIsMutual
  <2> QED
    BY <1>5, <2>1 DEF brainVars
<1> QED
  BY <1>2, <1>3, <1>4, <1>5, <1>6, BodyKeeps

LEMMA SendFacts ==
    ASSUME HandshakeInv
    PROVE  /\ \A x \in FrameSet : BodySends(toBrain, <<x>>) \in [Sockets -> Seq(FrameSet)]
           /\ BodyCloses(toBrain) \in [Sockets -> Seq(FrameSet)]
           /\ toBrain \in [Sockets -> Seq(FrameSet)]
<1>1. toBrain \in [Sockets -> Seq(FrameSet)] /\ ws \in Sockets \cup {NoSocket}
  BY DEF HandshakeInv, ChannelsOK, LinkInv, LinkTypeOK
<1>2. ASSUME NEW x \in FrameSet
      PROVE  BodySends(toBrain, <<x>>) \in [Sockets -> Seq(FrameSet)]
  <2>1. CASE ws \in Sockets
    <3>1. <<x>> \in Seq(FrameSet) /\ toBrain[ws] \in Seq(FrameSet)
      BY <1>1, <2>1
    <3>2. toBrain[ws] \o <<x>> \in Seq(FrameSet)
      BY <3>1, PutFacts
    <3> QED
      BY <1>1, <2>1, <3>2 DEF BodySends, Put
  <2>2. CASE ws \notin Sockets
    BY <1>1, <2>2 DEF BodySends
  <2> QED
    BY <2>1, <2>2
<1>3. BodyCloses(toBrain) \in [Sockets -> Seq(FrameSet)]
  <2>1. CloseFrame("other") \in FrameSet
    BY FrameFacts DEF CloseFrame, FrameSet
  <2>2. \A s \in Sockets : Append(toBrain[s], CloseFrame("other")) \in Seq(FrameSet)
    BY <1>1, <2>1, AppendFacts
  <2> QED
    BY <1>1, <2>2 DEF BodyCloses
<1> QED
  BY <1>1, <1>2, <1>3

LEMMA BodyReceivesKeeps ==
    ASSUME HandshakeInv, [Next]_vars, NEW s \in Sockets, BodyReceives(s)
    PROVE  HandshakeInv'
<1> DEFINE f == Head(toBody[s])
<1>1. /\ UNCHANGED <<brainVars, cut>> /\ toBody[s] # << >> /\ toBody' = Got(toBody, s)
      /\ readyState[s] # "closed"
  BY DEF BodyReceives, HandshakeInv, LinkInv, LinkTypeOK
<1>2. /\ f \in FromBrain
      /\ f.type = "ready" => peerPhase[s] \in {"ready", "none"}
  <2>1. toBody[s] \in Seq(FromBrain)
    BY DEF HandshakeInv, ChannelsOK
  <2> QED
    BY <1>1, <2>1, GotFacts DEF HandshakeInv, ReadyFrameIsTrue
<1>3. f.type = "hello" => f.mode \in {"auth", "pair", "revoked"}
  BY <1>2 DEF FromBrain
<1>4. \/ Ignore \/ (f.type = "hello" /\ HandleBrainHello(s, f)) \/ HandlePairAccept
      \/ RespondToBrainChallenge \/ HandleAuthResult \/ HandleAuthResponse(s)
      \/ (f.type = "ready" /\ HandleReady)
      \/ (Drop(s) /\ UNCHANGED bodyVars)
  BY DEF BodyReceives
<1> HIDE DEF f
<1>5. /\ cut' \subseteq Sockets /\ DriverTypes /\ ws \in Sockets \cup {NoSocket}
  BY <1>1 DEF HandshakeInv, BrainTypes, LinkInv, LinkTypeOK
<1>6. ASSUME SocketsStay, DriverTypes', toBrain' \in [Sockets -> Seq(FrameSet)],
             phase' = "ready" => phase = "ready" \/ f.type = "ready"
      PROVE  HandshakeInv'
  BY <1>1, <1>2, <1>5, <1>6, StayKeeps
<1>7. ASSUME UNCHANGED bodyVars PROVE DriverTypes' /\ phase' = phase
  BY <1>5, <1>7 DEF DriverTypes, bodyVars
<1>8. ASSUME Drop(s), UNCHANGED bodyVars PROVE HandshakeInv'
  BY <1>6, <1>7, <1>8, SendFacts, LinkStays DEF Drop
<1>9. CASE Ignore
  BY <1>6, <1>7, <1>9, SendFacts, LinkStays DEF Ignore, LinkIdle
<1>10. CASE f.type = "hello" /\ HandleBrainHello(s, f)
  <2>1. CASE f.mode = "revoked"
    BY <1>6, <1>7, <1>10, <2>1, SendFacts, LinkStays DEF HandleBrainHello
  <2>2. CASE f.mode = "pair" /\ pendingCode = "none"
    BY <1>8, <1>10, <2>2 DEF HandleBrainHello
  <2>3. CASE f.mode = "pair" /\ pendingCode # "none"
    <3> DEFINE x == [type |-> "pair_request", code |-> pendingCode]
    <3>1. /\ phase' = "pairing" /\ toBrain' = BodySends(toBrain, <<x>>)
          /\ LinkIdle /\ UNCHANGED <<saved, pendingCode, challenges>>
      BY <1>10, <2>3 DEF HandleBrainHello
    <3>2. x \in FrameSet
      BY <1>5, <2>3 DEF DriverTypes, FrameSet
    <3> HIDE DEF x
    <3>3. DriverTypes'
      BY <1>5, <3>1 DEF DriverTypes, Phases
    <3> QED
      BY <1>6, <3>1, <3>2, <3>3, SendFacts, LinkStays DEF LinkIdle
  <2>4. CASE f.mode = "auth" /\ ~saved
    BY <1>8, <1>10, <2>4 DEF HandleBrainHello
  <2>5. CASE f.mode = "auth" /\ saved
    <3>1. /\ phase' = "auth" /\ LinkIdle /\ UNCHANGED <<saved, pendingCode, challenges, toBrain>>
      BY <1>10, <2>5 DEF HandleBrainHello
    <3>2. DriverTypes'
      BY <1>5, <3>1 DEF DriverTypes, Phases
    <3> QED
      BY <1>6, <3>1, <3>2, SendFacts, LinkStays DEF LinkIdle
  <2> QED
    BY <1>3, <1>10, <2>1, <2>2, <2>3, <2>4, <2>5
<1>11. CASE HandlePairAccept
  <2>1. DriverTypes' /\ phase' = "auth"
    BY <1>5, <1>11 DEF HandlePairAccept, DriverTypes, Phases
  <2> QED
    BY <1>6, <1>11, <2>1, SendFacts, LinkStays DEF HandlePairAccept, LinkIdle
<1>12. CASE RespondToBrainChallenge
  BY <1>6, <1>7, <1>12, SendFacts, FrameFacts, LinkStays DEF RespondToBrainChallenge, LinkIdle, F, FrameSet
<1>13. CASE HandleAuthResult
  <2>1. DriverTypes' /\ phase' = phase
    BY <1>5, <1>13 DEF HandleAuthResult, DriverTypes
  <2>2. F("auth_challenge") \in FrameSet
    BY DEF F, FrameSet
  <2> QED
    BY <1>6, <1>13, <2>1, <2>2, SendFacts, LinkStays DEF HandleAuthResult, LinkIdle
<1>14. CASE HandleAuthResponse(s)
  <2>1. CASE s \in challenges
    <3>1. DriverTypes' /\ phase' = phase
      BY <1>5, <1>14, <2>1 DEF HandleAuthResponse, DriverTypes
    <3>2. F("auth_result") \in FrameSet
      BY DEF F, FrameSet
    <3> QED
      BY <1>6, <1>14, <2>1, <3>1, <3>2, SendFacts, LinkStays DEF HandleAuthResponse, LinkIdle
  <2>2. CASE s \notin challenges
    BY <1>8, <1>14, <2>2 DEF HandleAuthResponse
  <2> QED
    BY <2>1, <2>2
<1>15. CASE f.type = "ready" /\ HandleReady
  <2>1. DriverTypes'
    BY <1>5, <1>15 DEF HandleReady, DriverTypes, Phases
  <2> QED
    BY <1>6, <1>15, <2>1, SendFacts, FrameFacts, LinkStays DEF HandleReady
<1> QED
  BY <1>4, <1>8, <1>9, <1>10, <1>11, <1>12, <1>13, <1>14, <1>15

LEMMA BodyOpensKeeps ==
    ASSUME HandshakeInv, [Next]_vars, NEW s \in Sockets, BodyOpens(s)
    PROVE  HandshakeInv'
<1>1. /\ readyState[s] = "connecting" /\ readyState' = [readyState EXCEPT ![s] = "open"]
      /\ phase' = "connecting" /\ brainOpen' = brainOpen \cup {s}
      /\ peerPhase' = [peerPhase EXCEPT ![s] = "hello"]
      /\ UNCHANGED <<ws, saved, pendingCode, challenges, peer, status, code, cut, toBody>>
  BY DEF BodyOpens, Opened
<1>2. peerPhase[s] = "none" /\ toBody[s] = << >>
  BY <1>1 DEF HandshakeInv, ConnectingIsFresh
<1>3. /\ readyState'[s] = "open" /\ \A t \in Sockets : t # s => readyState'[t] = readyState[t]
      /\ peerPhase' \in [Sockets -> PeerPhases] /\ peerPhase'[s] = "hello"
      /\ \A t \in Sockets : t # s => peerPhase'[t] = peerPhase[t]
  BY <1>1 DEF HandshakeInv, LinkInv, LinkTypeOK, BrainTypes, PeerPhases, PreReady
<1>4. LinkInv'
  BY LinkOnly, LinkInvStep DEF HandshakeInv
<1>5. BrainTypes' /\ DriverTypes'
  BY <1>1, <1>3 DEF HandshakeInv, BrainTypes, DriverTypes, Phases
<1>6. ChannelsOK'
  <2>1. toBrain' \in [Sockets -> Seq(FrameSet)]
    <3>1. CASE ws = s
      <4>1. <<F("hello")>> \in Seq(FrameSet)
        BY FrameFacts
      <4> QED
        BY <3>1, <4>1, SendFacts DEF BodyOpens
    <3>2. CASE ws # s
      BY <3>2, FrameFacts, SendFacts DEF BodyOpens
    <3> QED
      BY <3>1, <3>2
  <2> QED
    BY <1>1, <2>1 DEF HandshakeInv, ChannelsOK
<1>7. OwnIsInUse' /\ OpenIsLive'
  BY <1>1, <1>3 DEF HandshakeInv, OwnIsInUse, OpenIsLive, BrainTypes, LinkInv, LinkTypeOK
<1>8. ConnectingIsFresh' /\ OneLiveSession' /\ ConnectedIsNotOffline' /\ ReadyIsMutual'
  BY <1>1, <1>3
     DEF HandshakeInv, ConnectingIsFresh, OneLiveSession, ConnectedIsNotOffline, ReadyIsMutual, BrainTypes
<1>9. ReadyFrameIsTrue'
  <2>1. ~HasReady(toBody[s])
    BY <1>2 DEF HasReady
  <2> QED
    BY <1>1, <1>3, <2>1 DEF HandshakeInv, ReadyFrameIsTrue
<1> QED
  BY <1>4, <1>5, <1>6, <1>7, <1>8, <1>9 DEF HandshakeInv

LEMMA ClosedKeeps ==
    ASSUME HandshakeInv, [Next]_vars, NEW s \in Sockets, BodySeesClose(s) \/ ConnectionRefused(s)
    PROVE  HandshakeInv'
<1>1. /\ readyState' = [readyState EXCEPT ![s] = "closed"] /\ ws' = NoSocket
      /\ phase' = "idle" /\ UNCHANGED <<saved, pendingCode, challenges, brainVars, cut>>
      /\ UNCHANGED toBody \/ toBody' = [toBody EXCEPT ![s] = << >>]
  BY DEF BodySeesClose, ConnectionRefused, Closed, TeardownSocket, netVars
<1>2. toBrain' \in [Sockets -> Seq(FrameSet)]
  <2>1. CloseFrame("other") \in FrameSet /\ toBrain[s] \in Seq(FrameSet)
    BY SendFacts, FrameFacts DEF CloseFrame, FrameSet
  <2>2. toBrain[s] \o <<CloseFrame("other")>> \in Seq(FrameSet)
    <3>1. <<CloseFrame("other")>> \in Seq(FrameSet)
      BY <2>1
    <3> QED
      BY <2>1, <3>1, PutFacts
  <2>3. Put(toBrain, s, <<CloseFrame("other")>>) \in [Sockets -> Seq(FrameSet)]
    BY <2>2, SendFacts DEF Put
  <2> QED
    BY <2>3, SendFacts DEF BodySeesClose, ConnectionRefused, netVars
<1>3. /\ toBody' \in [Sockets -> Seq(FromBrain)]
      /\ \A t \in Sockets : toBody'[t] = toBody[t] \/ toBody'[t] = << >>
  <2>1. << >> \in Seq(FromBrain)
    OBVIOUS
  <2> QED
    BY <1>1, <2>1 DEF HandshakeInv, ChannelsOK
<1>4. ~HasReady(<< >>)
  BY DEF HasReady
<1>5. \A t \in Sockets : /\ readyState'[t] = "connecting" => readyState[t] = "connecting"
                         /\ toBody[t] = << >> => toBody'[t] = << >>
                         /\ HasReady(toBody'[t]) => HasReady(toBody[t])
  BY <1>1, <1>3, <1>4 DEF HandshakeInv, LinkInv, LinkTypeOK
<1>6. ChannelsOK' /\ DriverTypes' /\ OwnIsInUse' /\ ReadyIsMutual' /\ cut' \subseteq Sockets
  BY <1>1, <1>2, <1>3
     DEF ChannelsOK, HandshakeInv, DriverTypes, Phases, OwnIsInUse, ReadyIsMutual, BrainTypes
<1> QED
  BY <1>1, <1>5, <1>6, BodyKeeps

LEMMA OthersKeep ==
    ASSUME HandshakeInv, [Next]_vars,
           BodyPings \/ BodyTimer \/ BodyHeartbeat \/ UserStep \/ \E s \in Sockets : Cut(s) \/ Bury(s)
    PROVE  HandshakeInv'
<1>1. /\ DriverTypes /\ cut \subseteq Sockets
  BY DEF HandshakeInv, BrainTypes
<1>2. ASSUME UNCHANGED bodyVars PROVE DriverTypes' /\ phase' = phase
  BY <1>1, <1>2 DEF DriverTypes, bodyVars
<1>3. CASE BodyPings
  <2>1. UNCHANGED <<linkVars, bodyVars, brainVars, cut, toBody>>
    BY <1>3 DEF BodyPings
  <2>2. toBrain' \in [Sockets -> Seq(FrameSet)]
    BY <1>3, SendFacts, FrameFacts DEF BodyPings
  <2> QED
    BY <1>1, <1>2, <2>1, <2>2, LinkStays, StayKeeps
<1>4. CASE BodyTimer
  <2>1. TimerFires /\ Fresh /\ UNCHANGED <<bodyVars, brainVars, cut, toBrain, toBody>>
    BY <1>4 DEF BodyTimer, netVars
  <2> QED
    BY <1>1, <1>2, <2>1, SendFacts, LinkOpens, StayKeeps
<1>5. CASE BodyHeartbeat
  <2>1. HeartbeatTimeout /\ UNCHANGED <<bodyVars, brainVars, cut, toBrain, toBody>>
    BY <1>5 DEF BodyHeartbeat, netVars
  <2> QED
    BY <1>1, <1>2, <2>1, SendFacts, LinkStays, StayKeeps
<1>6. CASE \E c \in {"none", "right", "wrong"} : UserConnect(c)
  <2>1. /\ Connect /\ Fresh /\ phase' = "connecting" /\ pendingCode' \in {"none", "right", "wrong"}
        /\ UNCHANGED <<saved, challenges, brainVars, cut, toBrain, toBody>>
    BY <1>6 DEF UserConnect, netVars
  <2>2. DriverTypes'
    BY <1>1, <2>1 DEF DriverTypes, Phases
  <2> QED
    BY <1>1, <2>1, <2>2, SendFacts, LinkOpens, StayKeeps
<1>7. CASE \E forget \in BOOLEAN : UserDisconnect(forget)
  <2>1. /\ Stop("DISCONNECTED") /\ phase' = "idle" /\ toBrain' = BodyCloses(toBrain)
        /\ UNCHANGED <<brainVars, cut, toBody>>
    BY <1>7 DEF UserDisconnect
  <2>2. DriverTypes'
    BY <1>1, <1>7 DEF UserDisconnect, DriverTypes, Phases
  <2> QED
    BY <1>1, <2>1, <2>2, SendFacts, LinkStays, StayKeeps
<1>8. CASE UserReconnect
  <2>1. /\ Reconnect /\ Fresh /\ phase' = "connecting" /\ pendingCode' = "none"
        /\ toBrain' = BodyCloses(toBrain)
        /\ UNCHANGED <<saved, challenges, brainVars, cut, toBody>>
    BY <1>8 DEF UserReconnect
  <2>2. DriverTypes'
    BY <1>1, <2>1 DEF DriverTypes, Phases
  <2> QED
    BY <1>1, <2>1, <2>2, SendFacts, LinkOpens, StayKeeps
<1>9. CASE \E s \in Sockets : Cut(s) \/ Bury(s)
  <2>1. UNCHANGED <<linkVars, bodyVars, brainVars, toBrain, toBody>> /\ cut' \subseteq Sockets
    BY <1>1, <1>9 DEF Cut, Bury
  <2> QED
    BY <1>2, <2>1, SendFacts, LinkStays, StayKeeps
<1> QED
  BY <1>3, <1>4, <1>5, <1>6, <1>7, <1>8, <1>9 DEF UserStep

-----------------------------------------------------------------------------
(* The theorems *)

LEMMA HandshakeInit == Init => HandshakeInv
<1> SUFFICES ASSUME Init PROVE HandshakeInv
  OBVIOUS
<1>1. LinkInv
  BY LinkInvInit DEF Init
<1>2. << >> \in Seq(FrameSet) /\ << >> \in Seq(FromBrain) /\ ~HasReady(<< >>)
  BY DEF HasReady
<1>3. DriverTypes /\ BrainTypes /\ ChannelsOK
  BY <1>2 DEF Init, DriverTypes, BrainTypes, ChannelsOK, Phases, PeerPhases, Statuses
<1>4. OwnIsInUse /\ OpenIsLive /\ ConnectingIsFresh /\ ReadyFrameIsTrue
  BY <1>2 DEF Init, LinkInit, OwnIsInUse, OpenIsLive, ConnectingIsFresh, ReadyFrameIsTrue
<1>5. OneLiveSession /\ ConnectedIsNotOffline /\ ReadyIsMutual
  BY DEF Init, OneLiveSession, ConnectedIsNotOffline, ReadyIsMutual
<1> QED
  BY <1>1, <1>3, <1>4, <1>5 DEF HandshakeInv

LEMMA HandshakeStep == HandshakeInv /\ [Next]_vars => HandshakeInv'
<1> SUFFICES ASSUME HandshakeInv, [Next]_vars PROVE HandshakeInv'
  OBVIOUS
<1>1. CASE UNCHANGED vars
  <2>1. /\ UNCHANGED <<linkVars, bodyVars, brainVars, cut, toBrain, toBody>>
        /\ cut \subseteq Sockets /\ DriverTypes
    BY <1>1 DEF vars, netVars, HandshakeInv, BrainTypes
  <2>2. DriverTypes' /\ phase' = phase
    BY <2>1 DEF DriverTypes, bodyVars
  <2> QED
    BY <2>1, <2>2, SendFacts, LinkStays, StayKeeps
<1>2. CASE BrainStep
  BY <1>2, BrainReceivesKeeps, BrainSeesCloseKeeps, TimersKeep, AdministratorKeeps, BrainRestartKeeps
     DEF BrainStep, Stuck, Slow
<1>3. CASE BodyStep
  BY <1>3, BodyReceivesKeeps, BodyOpensKeeps, ClosedKeeps, OthersKeep DEF BodyStep
<1>4. CASE UserStep \/ \E s \in Sockets : Cut(s) \/ Bury(s)
  BY <1>4, OthersKeep
<1> QED
  BY <1>1, <1>2, <1>3, <1>4 DEF Next

\* The inductive invariant of the two automata (remote-brain.ts, brain-runtime.ts)
\* holds in every state.
THEOREM HandshakeInvAlways == Spec => []HandshakeInv
  BY HandshakeInit, HandshakeStep, PTL DEF Spec

\* Mutual authentication precedes ready: a Body that calls itself ready has a
\* connection the Brain made ready, or one the Brain has ended since.
THEOREM ReadyIsMutualAlways == Spec => []ReadyIsMutual
<1>1. HandshakeInv => ReadyIsMutual
  BY DEF HandshakeInv
<1> QED
  BY <1>1, HandshakeInvAlways, PTL

\* The Brain has one live session of a Body at most and does not call it offline
\* meanwhile (enterReady, handleDisconnect, markOffline), with the types of both.
THEOREM SessionsAgreeAlways == Spec => []SessionsAgree
<1>1. HandshakeInv => SessionsAgree
  <2> SUFFICES ASSUME HandshakeInv PROVE SessionsAgree
    OBVIOUS
  <2>1. FromBrain \subseteq FrameSet
    BY DEF FromBrain, FrameSet
  <2>2. \A s \in Sockets : toBrain[s] \in Seq(FrameSet) /\ toBody[s] \in Seq(FrameSet)
    <3> TAKE s \in Sockets
    <3>1. toBrain[s] \in Seq(FrameSet) /\ toBody[s] \in Seq(FromBrain)
      BY DEF HandshakeInv, ChannelsOK
    <3> QED
      BY <2>1, <3>1
  <2>3. TypeOK
    BY <2>2 DEF HandshakeInv, LinkInv, DriverTypes, BrainTypes, TypeOK
  <2> QED
    BY <2>3 DEF HandshakeInv, SessionsAgree
<1> QED
  BY <1>1, HandshakeInvAlways, PTL

\* The Brain learns of a Body only by an unused code, which it consumes
\* (handlePairRequest, tryConsume).
THEOREM CodesAlwaysPay == Spec => CodesPayForEntries
<1>1. ASSUME HandshakeInv, Next, status = "absent", status' # "absent"
      PROVE  code /\ ~code'
  <2>1. UNCHANGED status \/ \E s \in Sockets : BrainReceives(s)
    BY <1>1 DEF Next, BrainStep, BodyStep, UserStep, BrainSeesClose, HandleDisconnect, Stuck, Slow,
                PhaseTimeout, BrainHeartbeatTimeout, GenerateCode, CodeExpires, Revoke, Remove,
                BrainRestart, BodyReceives, BodyOpens, BodySeesClose, ConnectionRefused, BodyPings,
                BodyTimer, BodyHeartbeat, UserConnect, UserDisconnect, UserReconnect, Cut, Bury,
                brainVars
  <2>2. PICK s \in Sockets : BrainReceives(s)
    BY <1>1, <2>1
  <2> DEFINE f == Head(toBrain[s])
  <2>3. \/ HandleHello(s) \/ HandlePairRequest(s, f) \/ HandleBodyAuthResponse(s)
        \/ UNCHANGED brainVars \/ EnterReady(s) \/ HandleCapabilities \/ RejectPhaseMessage(s)
    BY <2>2 DEF BrainReceives
  <2> HIDE DEF f
  <2>4. HandlePairRequest(s, f)
    BY <1>1, <2>3 DEF HandleHello, HandleBodyAuthResponse, EnterReady, HandleCapabilities,
                      RejectPhaseMessage, brainVars
  <2> QED
    BY <1>1, <2>4 DEF HandlePairRequest
<1>2. HandshakeInv /\ [Next]_vars
        => [status = "absent" /\ status' # "absent" => code /\ ~code']_vars
  BY <1>1
<1> QED
  BY <1>2, HandshakeInvAlways, PTL DEF Spec, CodesPayForEntries

\* The link under the two automata implements BodyLink's specification, so all
\* that is proved of BodyLink holds of it.
THEOREM LinkIsImplemented == Spec => ImplementsLink
<1>1. Init => LinkInit
  BY DEF Init
<1>2. HandshakeInv /\ [Next]_vars => [LinkNext]_linkVars
  BY LinkOnly DEF HandshakeInv
<1> QED
  BY <1>1, <1>2, HandshakeInvAlways, PTL DEF Spec, LinkSpec, ImplementsLink
=============================================================================
