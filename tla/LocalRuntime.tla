---------------------------- MODULE LocalRuntime ----------------------------
(* The local model runtime (models/ollama-runtime.ts), the provider that reads    *)
(* what its models can do (providers/ollama.ts) and the routes over both          *)
(* (api/infrastructure.ts).  The daemon is a process of its own: others start and *)
(* stop it, models come and go, and every look at it is one request.             *)
EXTENDS Naturals, FiniteSets

CONSTANTS LrModels, LrCreds, \* model names; cloud credentials
          MaxLrOps           \* bound: requests of the user, and events outside

Caps == {"chat", "tools"}    \* what a model can do; "chat" is also the answer for unknown

VARIABLES
  lrDaemon,   \* the daemon: "down", "coming" or "up"
  lrSpawned,  \* it is one that start() spawned
  lrHave,     \* capability of each model on the daemon's disk
  lrStart,    \* start(): "none", "look", "wait", or its answer
  lrPulls,    \* pulls in progress, by model
  lrProgress, \* pullProgress: models shown as being pulled
  lrProbe,    \* capabilityProbes: cached answers
  lrCred,     \* the stored cloud credentials
  lrProving,  \* credentials whose live validation is in flight
  lrProven,   \* credentials the cloud accepted
  lrOps       \* bounded

lrVars == <<lrDaemon, lrSpawned, lrHave, lrStart, lrPulls, lrProgress, lrProbe,
            lrCred, lrProving, lrProven, lrOps>>
lrDaemonVars == <<lrDaemon, lrSpawned, lrStart>>
lrPullVars == <<lrPulls, lrProgress>>
lrCredVars == <<lrCred, lrProving, lrProven>>

NoPull == [m \in {} |-> 0]
RuntimeInit ==
  /\ lrDaemon = "down" /\ lrSpawned = FALSE /\ lrHave = NoPull /\ lrStart = "none"
  /\ lrPulls = [m \in LrModels |-> 0] /\ lrProgress = {}
  /\ lrProbe = NoPull
  /\ lrCred = "none" /\ lrProving = {} /\ lrProven = {} /\ lrOps = 0

Op == lrOps < MaxLrOps /\ lrOps' = lrOps + 1
WithEntry(f, m, x) == [n \in DOMAIN f \cup {m} |-> IF n = m THEN x ELSE f[n]]
WithoutEntry(f, m) == [n \in DOMAIN f \ {m} |-> f[n]]
DaemonUp == lrDaemon = "up"
-----------------------------------------------------------------------------
(* start(): already healthy, or spawned and watched for twenty seconds.           *)
StartLooks ==
  /\ lrStart = "none" /\ Op /\ lrStart' = IF DaemonUp THEN "ok" ELSE "wait"
  /\ IF lrDaemon = "down" THEN lrDaemon' = "coming" /\ lrSpawned' = TRUE ELSE UNCHANGED <<lrDaemon, lrSpawned>>
  /\ UNCHANGED <<lrHave, lrPullVars, lrProbe, lrCredVars>>
StartWaits(gaveUp) ==
  /\ lrStart = "wait" /\ (DaemonUp \/ gaveUp) /\ lrStart' = IF gaveUp THEN "failed" ELSE "ok"
StartAnswered == lrStart \in {"ok", "failed"} /\ lrStart' = "none"
(* stop(): it looks for a pid file that no start writes, so nothing is stopped.   *)
StopRequested == Op /\ UNCHANGED lrStart
(* The daemon itself, and whoever else runs it.                                   *)
DaemonComes == lrDaemon = "coming" /\ lrDaemon' = "up" /\ UNCHANGED <<lrSpawned, lrOps, lrStart>>
DaemonDies == lrDaemon # "down" /\ Op /\ lrDaemon' = "down" /\ lrSpawned' = FALSE /\ UNCHANGED lrStart
OthersStartIt == lrDaemon = "down" /\ Op /\ lrDaemon' = "up" /\ UNCHANGED <<lrSpawned, lrStart>>
DaemonStep ==
  /\ \/ (StartAnswered \/ \E b \in BOOLEAN : StartWaits(b)) /\ UNCHANGED <<lrDaemon, lrSpawned, lrOps>>
     \/ StopRequested /\ UNCHANGED <<lrDaemon, lrSpawned>>
     \/ DaemonComes \/ DaemonDies \/ OthersStartIt
  /\ UNCHANGED <<lrHave, lrPullVars, lrProbe, lrCredVars>>
-----------------------------------------------------------------------------
(* POST /runtime/pull: refused while the model is shown as being pulled, which it  *)
(* is from the first line of progress on.                                         *)
Pull(m) ==
  /\ Op /\ m \notin lrProgress /\ lrPulls' = [lrPulls EXCEPT ![m] = @ + 1]
  /\ UNCHANGED <<lrHave, lrProgress>>
Progress(m) ==
  /\ lrPulls[m] > 0 /\ DaemonUp /\ lrProgress' = lrProgress \cup {m}
  /\ UNCHANGED <<lrHave, lrPulls, lrOps>>
(* The layers are there: the daemon has the model.                                *)
Lands(m, c) ==
  /\ lrPulls[m] > 0 /\ DaemonUp /\ lrHave' = WithEntry(lrHave, m, c) /\ UNCHANGED <<lrPullVars, lrOps>>
Present(m) == DaemonUp /\ m \in DOMAIN lrHave
Forgotten(m) == lrProgress \ {m}
(* The stream ended: a success if the model is in the local list; finally, the    *)
(* progress is dropped.                                                           *)
PullEnds(m, ok) ==
  /\ lrPulls[m] > 0 /\ (ok => Present(m)) /\ lrPulls' = [lrPulls EXCEPT ![m] = @ - 1]
  /\ lrProgress' = Forgotten(m)
  /\ UNCHANGED <<lrHave, lrOps>>
ModelRemoved(m) == m \in DOMAIN lrHave /\ Op /\ lrHave' = WithoutEntry(lrHave, m) /\ UNCHANGED lrPullVars
-----------------------------------------------------------------------------
(* probeCapabilities: one answer per name, good for ten minutes; a daemon that    *)
(* does not answer is an unknown model, cached as well.                           *)
ProbedAs(m) == IF m \in DOMAIN lrProbe THEN lrProbe[m] ELSE IF DaemonUp THEN lrHave[m] ELSE "chat"
FetchModels(m) ==
  /\ m \in DOMAIN lrHave /\ lrProbe' = WithEntry(lrProbe, m, ProbedAs(m))
  /\ UNCHANGED lrOps
ProbeExpires(m) == m \in DOMAIN lrProbe /\ lrProbe' = WithoutEntry(lrProbe, m) /\ UNCHANGED lrOps
ModelsChange ==
  \/ /\ \E m \in LrModels : \/ Pull(m) \/ Progress(m) \/ ModelRemoved(m)
                            \/ (\E c \in Caps : Lands(m, c)) \/ (\E ok \in BOOLEAN : PullEnds(m, ok))
     /\ UNCHANGED <<lrDaemonVars, lrProbe, lrCredVars>>
  \/ /\ \E m \in LrModels : FetchModels(m) \/ ProbeExpires(m)
     /\ UNCHANGED <<lrDaemonVars, lrHave, lrPullVars, lrCredVars>>
-----------------------------------------------------------------------------
(* POST /cloud/oci/connect: stored first, then proven against the live API.       *)
ConnectCloud(c) ==
  /\ c \notin lrProving /\ Op /\ lrProving' = lrProving \cup {c} /\ lrCred' = c /\ UNCHANGED lrProven
(* Whatever is stored when a validation fails is cleared.                         *)
Refused == "none"
Proven(c, ok) ==
  /\ c \in lrProving /\ lrProving' = lrProving \ {c} /\ lrCred' = (IF ok THEN lrCred ELSE Refused)
  /\ lrProven' = (IF ok THEN lrProven \cup {c} ELSE lrProven) /\ UNCHANGED lrOps
CredStep ==
  /\ \E c \in LrCreds : ConnectCloud(c) \/ \E ok \in BOOLEAN : Proven(c, ok)
  /\ UNCHANGED <<lrDaemonVars, lrHave, lrPullVars, lrProbe>>

RuntimeNext == StartLooks \/ DaemonStep \/ ModelsChange \/ CredStep
RuntimeSpec == RuntimeInit /\ [][RuntimeNext]_lrVars
-----------------------------------------------------------------------------
\* "Truthful progress": no model is shown as being pulled when no pull of it runs,
\* two pulls of one model included.
ProgressIsLive == \A m \in lrProgress : lrPulls[m] > 0

\* "Never keep credentials that failed live validation": outside a validation the
\* stored ones are credentials the cloud accepted, however many are tried at once.
KeptIsProven == lrCred # "none" => lrCred \in lrProven \cup lrProving

=============================================================================
