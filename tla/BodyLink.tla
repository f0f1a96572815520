------------------------------ MODULE BodyLink ------------------------------
(***************************************************************************)
(* The Body's transport (body-link.ts, class BodyLink): one link object    *)
(* over a succession of WebSocket objects.  A socket that the link lets go *)
(* of lives on until its close event, and its handlers still act on the    *)
(* link: they are closures over the object, not over the socket.           *)
(*                                                                         *)
(* The protocol layer above and the network below are left open here: any  *)
(* call, any event and any close code at any time.  Handshake puts the     *)
(* real ones in their place.                                               *)
(*                                                                         *)
(* Abstracted: delays and jitter (a pending timer may fire at any time),   *)
(* sending and parsing, the frame counter's value, the constructor of a    *)
(* socket throwing (the URL was parsed before).                            *)
(***************************************************************************)
EXTENDS Naturals

CONSTANTS
    Sockets,         \* WebSocket objects; one is reused once it is closed
    NoSocket,
    AutoReconnect,   \* options.autoReconnect
    UrlAllowed,      \* validateBrainUrl(url).ok
    MaxAttempt,      \* RECONNECT_BACKOFF_MS.length - 1: later attempts are alike
    MaxAuthRetries   \* MAX_AUTH_RETRIES

ASSUME LinkAssumption ==
    /\ NoSocket \notin Sockets
    /\ AutoReconnect \in BOOLEAN /\ UrlAllowed \in BOOLEAN
    /\ MaxAttempt \in Nat \ {0} /\ MaxAuthRetries \in Nat \ {0}

VARIABLES
    ws,            \* the socket the link owns, or NoSocket
    readyState,    \* of every socket; "closed" until it is used (again)
    state,         \* ConnectionState
    manualClose,
    reconnectTimer,   \* whether it is pending
    attempt,          \* reconnectAttempt
    authFailures,     \* authFailureCount
    heartbeat,        \* whether heartbeatTimer runs
    connectedAt,      \* "never", or whether that is over STABILITY_MS ago
    everOpened

linkVars == <<ws, readyState, state, manualClose, reconnectTimer, attempt,
              authFailures, heartbeat, connectedAt, everOpened>>

States == {"DISCONNECTED", "CONNECTING", "AUTHENTICATING", "CONNECTED", "DEGRADED",
           "RECONNECTING", "REVOKED", "INCOMPATIBLE", "ERROR"}
GivenUp == {"REVOKED", "INCOMPATIBLE", "ERROR"}
\* AUTH_FAILED and POLICY are one code here, as the link treats them alike.
Codes == {"revoked", "incompatible", "policy", "other"}

LinkInit ==
    /\ ws = NoSocket
    /\ readyState = [s \in Sockets |-> "closed"]
    /\ state = "DISCONNECTED" /\ manualClose = FALSE
    /\ reconnectTimer = FALSE /\ attempt = 0 /\ authFailures = 0
    /\ heartbeat = FALSE /\ connectedAt = "never" /\ everOpened = FALSE

-----------------------------------------------------------------------------
InUse(s) == s # NoSocket /\ readyState[s] \in {"connecting", "open"}

\* Math.min(attempt, RECONNECT_BACKOFF_MS.length - 1)
UpTo(n, max) == IF n > max THEN max ELSE n

\* this.ws.close(...)
CloseOwn == IF InUse(ws) THEN [readyState EXCEPT ![ws] = "closing"] ELSE readyState

\* disconnect and failClosed
Stop(st) ==
    /\ manualClose' = TRUE /\ reconnectTimer' = FALSE /\ heartbeat' = FALSE
    /\ ws' = NoSocket /\ readyState' = CloseOwn
    /\ state' = st
    /\ UNCHANGED <<attempt, authFailures, connectedAt, everOpened>>

\* openSocket with n attempts made, after the caller left these timers.
\* rs is what it sees of the sockets: reconnect has just closed one.
OpenSocket(rs, timer, n) ==
    /\ attempt' = n
    /\ UNCHANGED <<authFailures, connectedAt>>
    /\ IF UrlAllowed
       THEN \E s \in Sockets :
              /\ rs[s] = "closed"
              /\ ws' = s /\ readyState' = [rs EXCEPT ![s] = "connecting"]
              /\ state' = IF n > 0 THEN "RECONNECTING" ELSE "CONNECTING"
              /\ manualClose' = FALSE /\ everOpened' = FALSE /\ reconnectTimer' = timer
       ELSE /\ manualClose' = TRUE /\ reconnectTimer' = FALSE /\ state' = "ERROR"
            /\ readyState' = rs
            /\ ws' = NoSocket   \* as it always was: this link never had a socket
            /\ UNCHANGED everOpened

\* connect: a live socket is kept, a pending timer too.
Connect ==
    \/ /\ InUse(ws)
       /\ manualClose' = FALSE
       /\ UNCHANGED <<ws, readyState, state, reconnectTimer, attempt, authFailures,
                      heartbeat, connectedAt, everOpened>>
    \/ /\ ~InUse(ws)
       /\ OpenSocket(readyState, reconnectTimer, attempt)
       /\ UNCHANGED heartbeat

\* /api/brain/reconnect: disconnect and connect in one turn of the event loop.
Reconnect ==
    /\ OpenSocket(CloseOwn, FALSE, attempt)
    /\ heartbeat' = FALSE

TimerFires ==
    /\ reconnectTimer
    /\ LET n == UpTo(attempt + 1, MaxAttempt) IN
         \/ /\ InUse(ws)
            /\ reconnectTimer' = FALSE /\ attempt' = n
            /\ UNCHANGED <<ws, readyState, state, manualClose, authFailures,
                           heartbeat, connectedAt, everOpened>>
         \/ /\ ~InUse(ws)
            /\ OpenSocket(readyState, FALSE, n)
            /\ UNCHANGED heartbeat

Opened(s) ==
    /\ readyState[s] = "connecting"
    /\ readyState' = [readyState EXCEPT ![s] = "open"]
    /\ everOpened' = TRUE /\ connectedAt' = "recent"
    /\ state' = "AUTHENTICATING" /\ heartbeat' = TRUE
    /\ UNCHANGED <<ws, manualClose, reconnectTimer, attempt, authFailures>>

\* The error event of a failed certificate; the close event follows.
TlsFailure(s) ==
    /\ readyState[s] = "connecting" /\ ~everOpened
    /\ manualClose' = TRUE /\ reconnectTimer' = FALSE /\ state' = "ERROR"
    /\ readyState' = [readyState EXCEPT ![s] = "closing"]
    /\ UNCHANGED <<ws, attempt, authFailures, heartbeat, connectedAt, everOpened>>

\* Mutant: after the last delay of the table no timer is set.
ScheduleReconnectLimited ==
    /\ state' = "RECONNECTING" /\ reconnectTimer' = (attempt < MaxAttempt)
    /\ attempt' = IF connectedAt = "long ago" THEN 0 ELSE attempt

\* scheduleReconnect
ScheduleReconnect ==
    /\ state' = "RECONNECTING" /\ reconnectTimer' = TRUE
    /\ attempt' = IF connectedAt = "long ago" THEN 0 ELSE attempt

GiveUp(st) == state' = st /\ UNCHANGED <<reconnectTimer, attempt>>

\* teardownSocket: whichever socket closed.
TeardownSocket(s) == heartbeat' = FALSE /\ ws' = NoSocket

\* The close event of a socket.
Closed(s, code) ==
    /\ readyState[s] # "closed"
    /\ readyState' = [readyState EXCEPT ![s] = "closed"]
    /\ TeardownSocket(s)
    /\ authFailures' = IF ~manualClose /\ AutoReconnect /\ code = "policy"
                       THEN UpTo(authFailures + 1, MaxAuthRetries) ELSE authFailures
    /\ CASE manualClose -> UNCHANGED <<state, reconnectTimer, attempt>>
         [] ~manualClose /\ ~AutoReconnect -> GiveUp("ERROR")
         [] ~manualClose /\ AutoReconnect ->
              CASE code = "revoked" -> GiveUp("REVOKED")
                [] code = "incompatible" -> GiveUp("INCOMPATIBLE")
                [] code = "policy" /\ authFailures' = MaxAuthRetries -> GiveUp("ERROR")
                [] OTHER -> ScheduleReconnect
    /\ UNCHANGED <<manualClose, connectedAt, everOpened>>

\* terminate: garbage or too many frames before ready.
Terminate ==
    /\ InUse(ws)
    /\ readyState' = CloseOwn
    /\ UNCHANGED <<ws, state, manualClose, reconnectTimer, attempt, authFailures,
                   heartbeat, connectedAt, everOpened>>

\* No frame for HEARTBEAT_TIMEOUT_MS.
HeartbeatTimeout ==
    /\ heartbeat
    /\ state' = "DEGRADED" /\ readyState' = CloseOwn
    /\ UNCHANGED <<ws, manualClose, reconnectTimer, attempt, authFailures,
                   heartbeat, connectedAt, everOpened>>

\* The protocol layer saw ready, on a socket whose close event is to come.
MarkConnected ==
    /\ \E s \in Sockets : readyState[s] \in {"open", "closing"}
    /\ authFailures' = 0 /\ attempt' = 0 /\ state' = "CONNECTED"
    /\ UNCHANGED <<ws, readyState, manualClose, reconnectTimer, heartbeat,
                   connectedAt, everOpened>>

\* now - connectedAt exceeds STABILITY_MS.
TimePasses ==
    /\ connectedAt = "recent" /\ connectedAt' = "long ago"
    /\ UNCHANGED <<ws, readyState, state, manualClose, reconnectTimer, attempt,
                   authFailures, heartbeat, everOpened>>

LinkNext ==
    \/ Connect \/ Reconnect \/ TimerFires \/ Terminate \/ HeartbeatTimeout
    \/ MarkConnected \/ TimePasses
    \/ \E st \in {"DISCONNECTED", "REVOKED", "INCOMPATIBLE"} : Stop(st)
    \/ \E s \in Sockets : \/ Opened(s) \/ TlsFailure(s)
                          \/ \E code \in Codes : Closed(s, code)

LinkSpec == LinkInit /\ [][LinkNext]_linkVars
-----------------------------------------------------------------------------
(* Properties *)

FlagsOK ==
    /\ manualClose \in BOOLEAN /\ reconnectTimer \in BOOLEAN
    /\ heartbeat \in BOOLEAN /\ everOpened \in BOOLEAN
CountersOK == attempt \in 0..MaxAttempt /\ authFailures \in 0..MaxAuthRetries
LinkTypeOK ==
    /\ FlagsOK /\ CountersOK
    /\ ws \in Sockets \cup {NoSocket}
    /\ readyState \in [Sockets -> {"closed", "connecting", "open", "closing"}]
    /\ state \in States
    /\ connectedAt \in {"never", "recent", "long ago"}

\* "Manual disconnect: no auto-reconnect afterwards" (disconnect), the part of
\* it that holds: while the manual flag is set no reconnect is pending, whichever
\* of the sockets' events came late.
ManualQuiet == manualClose => ~reconnectTimer

\* A link that is neither stopped nor given up always has something to wake it:
\* a timer, or a socket whose close event is to come.
NeverStuck ==
    AutoReconnect /\ ~manualClose /\ state \notin GivenUp \cup {"DISCONNECTED"} =>
      reconnectTimer \/ \E s \in Sockets : readyState[s] # "closed"

\* A silent peer is detected: the socket the link owns is watched while open.
OpenIsWatched == ws # NoSocket /\ readyState[ws] = "open" => heartbeat

\* All of it: whatever is called and whichever socket's event comes late, a link
\* that was stopped stays quiet, one that is wanted has a wake-up, and an open
\* socket is watched (class BodyLink).
LinkIsAwake == LinkTypeOK /\ ManualQuiet /\ NeverStuck /\ OpenIsWatched
=============================================================================
