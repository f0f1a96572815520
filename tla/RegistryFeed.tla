---------------------------- MODULE RegistryFeed ----------------------------
(* The Brain's device registry as a management page sees it: the REST         *)
(* snapshot, the admin WebSocket with its snapshot and its events, and the    *)
(* page's mirror with the version rule of registry-sync.ts.                   *)
(*                                                                            *)
(* A snapshot and an event are records of the registry at the moment they are *)
(* sent. "at" is a ghost: the number of changes the registry had seen then;   *)
(* in the view it is the latest the page was told of.                         *)
EXTENDS Naturals, Sequences, SequencesExt

CONSTANTS FeedBodies,      \* the Bodies that may pair
          MaxFeedChanges,  \* bound on changes of the registry
          MaxFeedSockets,  \* bound on admin sockets the page opens
          MaxFeedFetches   \* bound on GET /devices the page sends

VARIABLES
  entries,   \* DeviceRegistry.bodies: status of each Body, "none" when absent
  ready,     \* keys of BrainRuntime.peers
  feedVer,   \* DeviceRegistry.version
  feedDisk,  \* the devices file: version and entries of the last save that worked
  changes,   \* ghost: changes of the registry so far, restarts included
  feedSock,  \* the page's admin sockets: phase and the frames under way
  feedRef,   \* adminWsRef.current, 0 when null
  feedTimer, \* adminWsReconnectRef timers that are pending
  fetches,   \* GET /devices: "unsent", "asked", the answer, or "done"
  mounted,   \* the page is on screen
  view       \* the mirror: version and bodies; ghosts: at, overtaken

feedBrain == <<entries, ready, feedVer, feedDisk, changes>>
feedPage == <<feedRef, feedTimer, mounted>>
feedVars == <<feedBrain, feedPage, feedSock, fetches, view>>

Status == {"none", "online", "offline", "revoked"}
FeedSockets == 1..MaxFeedSockets

(* toPublicBody for the whole registry: revoked is terminal, a peer is online *)
Public(e, r) == [b \in FeedBodies |->
  IF e[b] \in {"none", "revoked"} THEN e[b] ELSE IF b \in r THEN "online" ELSE e[b]]

Snapshot == [type |-> "snapshot", ver |-> feedVer, at |-> changes,
             bodies |-> Public(entries, ready)]

(* emitRegistryEvent: the event carries the version and, unless it says that  *)
(* the Body is removed, the public record.                                    *)
EventOf(type, b, e, r, v, n) ==
  [type |-> type, ver |-> v, at |-> n, body |-> b, status |-> Public(e, r)[b]]
Emitted(frame) == feedSock' = [s \in FeedSockets |->
  IF feedSock[s].phase = "open"
  THEN [feedSock[s] EXCEPT !.frames = Append(@, frame)] ELSE feedSock[s]]

FeedInit ==
  /\ entries = [b \in FeedBodies |-> "none"] /\ ready = {}
  /\ feedVer = 0 /\ changes = 0
  /\ feedDisk = [ver |-> 0, entries |-> entries]
  /\ feedSock = [s \in FeedSockets |-> [phase |-> "unused", frames |-> <<>>]]
  /\ feedRef = 0 /\ feedTimer = 0 /\ mounted = FALSE
  /\ fetches = [f \in 1..MaxFeedFetches |-> [state |-> "unsent"]]
  /\ view = [ver |-> 0, bodies |-> entries, at |-> 0, overtaken |-> FALSE]

(* ----- The Brain ----------------------------------------------------------- *)
(* bump and save; a failed save is logged and leaves the file as it was.      *)
Saved(e, bumps) ==
  /\ changes < MaxFeedChanges /\ changes' = changes + 1
  /\ entries' = e /\ feedVer' = feedVer + bumps
  /\ \E ok \in BOOLEAN :
       feedDisk' = IF ok THEN [ver |-> feedVer + bumps, entries |-> e] ELSE feedDisk
Tell(type, b) == Emitted(EventOf(type, b, entries', ready', feedVer', changes'))

(* registerPair, from a pairing or from a capabilities message of a peer.     *)
RegisterPair(b) ==
  /\ Saved([entries EXCEPT ![b] = "online"], 1) /\ UNCHANGED ready
  /\ \/ entries[b] # "revoked" /\ Tell("body-added", b)
     \/ b \in ready /\ entries[b] # "none" /\ Tell("body-capabilities-updated", b)
  /\ UNCHANGED <<feedPage, fetches, view>>

(* becomeReady: a peer of a known Body; markOnline leaves a revoked one alone. *)
BodyReady(b) ==
  /\ entries[b] \in {"online", "offline"} /\ ready' = ready \cup {b}
  /\ Saved([entries EXCEPT ![b] = "online"], 1) /\ Tell("body-status", b)
  /\ UNCHANGED <<feedPage, fetches, view>>

(* handleDisconnect of the peer in the map: no event for a revoked Body, no   *)
(* record (and no bump) in the event of a removed one.                        *)
BodyLost(b) ==
  /\ b \in ready /\ ready' = ready \ {b}
  /\ IF entries[b] = "none" THEN changes < MaxFeedChanges /\ changes' = changes + 1
                                 /\ UNCHANGED <<entries, feedVer, feedDisk>>
     ELSE Saved(IF entries[b] = "online" THEN [entries EXCEPT ![b] = "offline"] ELSE entries, 1)
  /\ IF entries[b] = "revoked" THEN UNCHANGED feedSock ELSE Tell("body-status", b)
  /\ UNCHANGED <<feedPage, fetches, view>>

(* markBodyRevoked; the socket it closes is lost later (BodyLost).            *)
RevokeBody(b) ==
  /\ entries[b] # "none" /\ UNCHANGED ready
  /\ Saved([entries EXCEPT ![b] = "revoked"], 1) /\ Tell("body-revoked", b)
  /\ UNCHANGED <<feedPage, fetches, view>>

RemoveBody(b) ==
  /\ entries[b] # "none" /\ UNCHANGED ready
  /\ Saved([entries EXCEPT ![b] = "none"], 1) /\ Tell("body-removed", b)
  /\ UNCHANGED <<feedPage, fetches, view>>

(* The process ends and is started again from its file; every socket closes,  *)
(* and a request it had not answered fails.                                   *)
BrainRestart ==
  /\ changes < MaxFeedChanges /\ changes' = changes + 1
  /\ ready' = {} /\ entries' = feedDisk.entries /\ feedVer' = feedDisk.ver
  /\ feedSock' = [s \in FeedSockets |->
       IF feedSock[s].phase \in {"connecting", "open"}
       THEN [phase |-> "closing", frames |-> <<>>] ELSE feedSock[s]]
  /\ fetches' = [f \in DOMAIN fetches |->
       IF fetches[f].state = "asked" THEN [state |-> "done"] ELSE fetches[f]]
  /\ UNCHANGED <<feedDisk, feedPage, view>>

(* GET /devices is answered with the registry of that moment.                 *)
AnswerDevices(f) ==
  /\ fetches[f].state = "asked"
  /\ fetches' = [fetches EXCEPT ![f] = [state |-> "answered", snap |-> Snapshot]]
  /\ UNCHANGED <<feedBrain, feedPage, feedSock, view>>

(* handleAdminConnection: the snapshot is the first frame; the page's onopen  *)
(* asks for another over REST.                                                *)
AdminOpened(s) ==
  /\ feedSock[s].phase = "connecting"
  /\ feedSock' = [feedSock EXCEPT ![s] = [phase |-> "open", frames |-> <<Snapshot>>]]
  /\ UNCHANGED <<feedBrain, feedPage, view>>
  /\ \/ \E f \in DOMAIN fetches : fetches[f].state = "unsent"
                               /\ fetches' = [fetches EXCEPT ![f] = [state |-> "asked"]]
     \/ (\A f \in DOMAIN fetches : fetches[f].state # "unsent") /\ UNCHANGED fetches

AdminCut(s) ==
  /\ feedSock[s].phase \in {"connecting", "open"}
  /\ feedSock' = [feedSock EXCEPT ![s] = [phase |-> "closing", frames |-> <<>>]]
  /\ UNCHANGED <<feedBrain, feedPage, fetches, view>>

(* ----- The page ------------------------------------------------------------ *)
Replaced(snap) ==
  [ver |-> snap.ver, bodies |-> snap.bodies, overtaken |-> snap.at < view.at,
   at |-> IF snap.at < view.at THEN view.at ELSE snap.at]
\* Mutant: a snapshot of a lower version is taken for a late one.
ReconciledNewer(snap) == IF snap.ver < view.ver THEN view ELSE Replaced(snap)
(* reconcileSnapshot: the snapshot replaces the view, whatever its version.   *)
Reconciled(snap) == Replaced(snap)

(* applyRegistryEvent: only a newer version counts; an upsert needs a record. *)
Seen(e) == [view EXCEPT !.at = IF e.at < @ THEN @ ELSE e.at]
AppliedTo(e) == [Seen(e) EXCEPT !.ver = e.ver, !.bodies[e.body] =
                   IF e.type = "body-removed" THEN "none" ELSE e.status]
Ignored(e) == e.type # "body-removed" /\ e.status = "none"
Applied(e) == IF e.ver <= view.ver \/ Ignored(e) THEN Seen(e) ELSE AppliedTo(e)

(* connectAdminWs: an open socket is kept, any other is replaced in the ref.  *)
ConnectAdminWs ==
  IF feedRef # 0 /\ feedSock[feedRef].phase = "open" THEN UNCHANGED <<feedSock, feedRef>>
  ELSE \E s \in FeedSockets :
         /\ feedSock[s].phase = "unused" /\ \A r \in 1..(s - 1) : feedSock[r].phase # "unused"
         /\ feedSock' = [feedSock EXCEPT ![s].phase = "connecting"] /\ feedRef' = s

(* loadDevices: another GET /devices (the effect, onopen, or after a revoke). *)
LoadDevices ==
  \E f \in DOMAIN fetches :
    /\ fetches[f].state = "unsent"
    /\ fetches' = [fetches EXCEPT ![f] = [state |-> "asked"]]
RefreshDevices ==
  /\ mounted /\ LoadDevices /\ UNCHANGED <<feedBrain, feedPage, feedSock, view>>

(* The effect on a known admin base; a page that is opened has a fresh view.  *)
MountBrainPage ==
  /\ ~mounted /\ mounted' = TRUE /\ LoadDevices /\ ConnectAdminWs
  /\ view' = [ver |-> 0, bodies |-> [b \in FeedBodies |-> "none"], at |-> 0, overtaken |-> FALSE]
  /\ UNCHANGED <<feedBrain, feedTimer>>

(* Its cleanup clears the last timer and closes the socket in the ref.        *)
UnmountBrainPage ==
  /\ mounted /\ mounted' = FALSE /\ feedRef' = 0
  /\ feedTimer' = IF feedTimer > 0 THEN feedTimer - 1 ELSE 0
  /\ feedSock' = IF feedRef # 0 /\ feedSock[feedRef].phase \in {"connecting", "open"}
       THEN [feedSock EXCEPT ![feedRef] = [phase |-> "closing", frames |-> <<>>]] ELSE feedSock
  /\ fetches' = [f \in DOMAIN fetches |->  \* their answers reach a page that is gone
       IF fetches[f].state \in {"asked", "answered"} THEN [state |-> "done"] ELSE fetches[f]]
  /\ UNCHANGED <<feedBrain, view>>

DevicesLoaded(f) ==
  /\ fetches[f].state = "answered" /\ fetches' = [fetches EXCEPT ![f] = [state |-> "done"]]
  /\ view' = Reconciled(fetches[f].snap)
  /\ UNCHANGED <<feedBrain, feedPage, feedSock>>

AdminFrame(s) ==
  /\ feedSock[s].phase = "open" /\ feedSock[s].frames # <<>>
  /\ LET frame == Head(feedSock[s].frames) IN
       view' = IF ~mounted THEN view
               ELSE IF frame.type = "snapshot" THEN Reconciled(frame) ELSE Applied(frame)
  /\ feedSock' = [feedSock EXCEPT ![s].frames = Tail(@)]
  /\ UNCHANGED <<feedBrain, feedPage, fetches>>

(* onclose: the ref is cleared if it is this socket; a timer is always set.   *)
AdminClosed(s) ==
  /\ feedSock[s].phase = "closing"
  /\ feedSock' = [feedSock EXCEPT ![s].phase = "closed"]
  /\ feedRef' = (IF feedRef = s THEN 0 ELSE feedRef) /\ feedTimer' = feedTimer + 1
  /\ UNCHANGED <<feedBrain, mounted, fetches, view>>

AdminReconnect ==
  /\ feedTimer > 0 /\ feedTimer' = feedTimer - 1 /\ ConnectAdminWs
  /\ UNCHANGED <<feedBrain, mounted, fetches, view>>

FeedNext ==
  \/ \E b \in FeedBodies : RegisterPair(b) \/ BodyReady(b) \/ BodyLost(b)
                           \/ RevokeBody(b) \/ RemoveBody(b)
  \/ BrainRestart
  \/ \E f \in DOMAIN fetches : AnswerDevices(f) \/ DevicesLoaded(f)
  \/ \E s \in FeedSockets : AdminOpened(s) \/ AdminCut(s) \/ AdminFrame(s) \/ AdminClosed(s)
  \/ RefreshDevices \/ MountBrainPage \/ UnmountBrainPage \/ AdminReconnect

FeedSpec == FeedInit /\ [][FeedNext]_feedVars
-----------------------------------------------------------------------------
(* The mirror is kept in sync: when every frame and answer has been handled   *)
(* and a socket to the Brain is open, the page shows the registry, unless the *)
(* last snapshot it took was older than what it had applied (BrainPage.tsx,   *)
(* registry-sync.ts, with emitRegistryEvent and handleAdminConnection).       *)
Drained == /\ mounted
           /\ \E s \in FeedSockets : feedSock[s].phase = "open"
           /\ \A s \in FeedSockets : feedSock[s].frames = <<>>
           /\ \A f \in DOMAIN fetches : fetches[f].state \in {"unsent", "done"}
MirrorIsTrue == Drained /\ ~view.overtaken => view.bodies = Public(entries, ready)
=============================================================================
